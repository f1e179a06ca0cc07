---------------------------- MODULE HttpExchange ----------------------------
(***************************************************************************)
(* From a request to its answer: SodiumHttpRequestHandler, the session's   *)
(* response buffer, the parts of an answer handed to the HTTP server, and  *)
(* the body of a form that is posted in parts (an upload).                 *)
(*                                                                         *)
(* The server that calls the handler is external: it puts each request     *)
(* into a free context and takes the context back when the handler         *)
(* returns.  Which session a request finds, and when one is swept, is      *)
(* SodiumSessions; here finding or creating it is one step.  A session     *)
(* bears the number of the request that created it.                        *)
(***************************************************************************)
EXTENDS Integers, Sequences

CONSTANTS
  Requests,     \* numbers of the requests, in the order they arrive
  Contexts,     \* HttpContext structures of the server
  Sizes,        \* lengths of printed texts
  Lacks,        \* forms: the field an uploaded form lacks, 0 if none
  Chunk,        \* HTTP_RESPONSE_BUFFER_CHUNK_SIZE
  NULL,
  FOREIGN,      \* a Cookie header in which SodiumSessionCookie= does not occur
  MaxPrints     \* bound: texts printed for one request

ASSUME ExchangeAssumption ==
  /\ Requests \subseteq Nat /\ NULL \notin Requests \cup Contexts
  /\ FOREIGN \notin Requests \cup {NULL}
  /\ Sizes \subseteq Nat \ {0} /\ Chunk \in Nat \ {0} /\ MaxPrints \in Nat
  /\ Lacks \subseteq 0 .. 5

VARIABLES
  at,        \* the request a context holds
  req,       \* the requests
  sess,      \* the sessions
  body,      \* context->RequestBody: which request's bytes, if any
  wire,      \* what the server was told to send to a request's client
  printed,   \* ghost: what was printed while a request was worked on
  crashed    \* the process is gone

vars == <<at, req, sess, body, wire, printed, crashed>>

OrNull(S) == S \cup {NULL}

Gets  == {"page", "image"}
Posts == {"call", "kill", "upload"}
Kinds == Gets \cup Posts \cup {"file", "sqlx"}

Fields == <<"nativeproceduretorun", "datablockname", "input-name", "rowid", "filename">>

Phases == {"new", "arrived", "accepted", "waiting", "serving", "parsing", "served", "closed"}

NOTHING == 0                                          \* SESSION_PRINT_STEP
HEADER == 1
CONTENT == 2
LIBRARY == 3

Item == [by : Requests, what : {"text", "library", "poor", "rich"}]
Response == [text : Seq(Item), used : Nat, allocated : Nat]
Message == [part : {"head", "body"}, text : Seq(Item), last : BOOLEAN]
Bytes == {"none", "whole", "empty"}

ASSUME NullAssumption == NULL \notin Kinds \cup Response

Request ==
  [phase : Phases, kind : Kinds, slot : OrNull(Contexts), cookie : OrNull(Requests \cup {FOREIGN}),
   ses : OrNull(Requests), seen : OrNull(Kinds),           \* what the dispatcher took it for
   absent : 0 .. Len(Fields), asked : 0 .. Len(Fields), over : BOOLEAN,
   got : SUBSET (1 .. Len(Fields))]

States == {"none", "init", "progress", "ready", "killed"}

Session ==
  [state : States, id : OrNull(Requests), slot : OrNull(Contexts), what : NOTHING .. LIBRARY,
   response : OrNull(Response)]

Fresh(phase, k, c, i, a) ==
  [phase |-> phase, kind |-> k, slot |-> c, cookie |-> i, ses |-> NULL, seen |-> NULL,
   absent |-> a, asked |-> 0, over |-> FALSE, got |-> {}]

Unmade == [state |-> "none", id |-> NULL, slot |-> NULL, what |-> NOTHING, response |-> NULL]

Init ==
  /\ at = [c \in Contexts |-> NULL]
  /\ req = [r \in Requests |-> Fresh("new", "page", NULL, NULL, 0)]
  /\ sess = [s \in Requests |-> Unmade]
  /\ body = [c \in Contexts |-> "none"]
  /\ wire = [r \in Requests |-> <<>>]
  /\ printed = [r \in Requests |-> <<>>]
  /\ crashed = FALSE

(***************************************************************************)
(* The HTTP server (external): arrival, the end of a handler, and what it  *)
(* is told to send.  A call for a context that holds no request is refused.*)
(***************************************************************************)
Cookies == {sess[s].id : s \in Requests} \cup {NULL, FOREIGN}   \* the ids given out, none, another's

Arrive(r, c) ==
  /\ req[r].phase = "new" /\ at[c] = NULL
  /\ \A q \in Requests : q < r => req[q].phase # "new"
  /\ \E k \in Kinds, i \in Cookies, a \in Lacks \cup {0} :
       /\ IF k = "upload" THEN a \in Lacks ELSE a = 0
       /\ k \in {"file", "sqlx"} => i = NULL
       /\ req' = [req EXCEPT ![r] = Fresh("arrived", k, c, i, a)]
  /\ at' = [at EXCEPT ![c] = r]
  /\ UNCHANGED <<sess, body, wire, printed>>

Left(r) == [at EXCEPT ![req[r].slot] = NULL]      \* the handler returns

HeadPart(last) == [part |-> "head", text |-> <<>>, last |-> last]
BodyMore(text) == [part |-> "body", text |-> text, last |-> FALSE]
BodyPart(text) == [part |-> "body", text |-> text, last |-> TRUE]

(***************************************************************************)
(* Requests for other files.                                               *)
(***************************************************************************)
SendFile(r) ==                  \* the file, or the page of status 404
  /\ req[r].phase = "arrived" /\ req[r].kind = "file"
  /\ wire' = [wire EXCEPT ![r] = @ \o <<HeadPart(FALSE), BodyPart(<<>>)>>]
  /\ req' = [req EXCEPT ![r].phase = "closed"]
  /\ at' = Left(r)
  /\ UNCHANGED <<sess, body, printed>>

FileUnreadable(r) ==            \* any error but ERROR_FILE_NOT_FOUND
  /\ req[r].phase = "arrived" /\ req[r].kind = "file"
  /\ req' = [req EXCEPT ![r].phase = "closed"]
  /\ at' = Left(r)
  /\ UNCHANGED <<sess, body, wire, printed>>

ForbidAndGoOn(r) ==
  /\ req[r].phase = "arrived" /\ req[r].kind = "sqlx"
  /\ wire' = [wire EXCEPT ![r] = Append(@, HeadPart(TRUE))]
  /\ req' = [req EXCEPT ![r].kind = "page"]
  /\ UNCHANGED <<at, sess, body, printed>>

Forbid(r) ==                    \* SendHttpForbiddenResponse
  /\ req[r].phase = "arrived" /\ req[r].kind = "sqlx"
  /\ wire' = [wire EXCEPT ![r] = Append(@, HeadPart(TRUE))]
  /\ req' = [req EXCEPT ![r].phase = "closed"]
  /\ at' = Left(r)
  /\ UNCHANGED <<sess, body, printed>>

(***************************************************************************)
(* HandleFrmxRequest up to the session's mutex.                            *)
(***************************************************************************)
Found(i) == {s \in Requests : i # NULL /\ sess[s].id = i /\ sess[s].state # "killed"}

SessionFor(r) ==                \* FindSodiumSessionById, else CreateSodiumSession
  IF Found(req[r].cookie) # {} THEN CHOOSE s \in Found(req[r].cookie) : TRUE ELSE r

CreatedAsNamed(r) ==
  [state |-> "init", id |-> req[r].cookie, slot |-> req[r].slot, what |-> NOTHING, response |-> NULL]

Created(r) ==
  [state |-> "init", id |-> IF req[r].cookie = NULL THEN r ELSE req[r].cookie,
   slot |-> req[r].slot, what |-> NOTHING, response |-> NULL]

AsksForPage(r) == req[r].phase = "arrived" /\ req[r].kind \in Gets \cup Posts

NoSession(r) ==                 \* GetSodiumSession gives NULL, which InitCallstack follows
  AsksForPage(r) /\ req[r].cookie = FOREIGN

CreateOrGetSession(r) ==        \* the head leaves before the handler runs
  /\ AsksForPage(r) /\ req[r].cookie # FOREIGN
  /\ body' = [body EXCEPT ![req[r].slot] = "none"]
  /\ req' = [req EXCEPT ![r] = [@ EXCEPT !.phase = "accepted", !.ses = SessionFor(r)]]
  /\ sess' = IF SessionFor(r) = r THEN [sess EXCEPT ![r] = Created(r)] ELSE sess
  /\ wire' = [wire EXCEPT ![r] = Append(@, HeadPart(FALSE))]
  /\ UNCHANGED <<at, printed>>

Working(s) == {q \in Requests : req[q].ses = s /\ req[q].phase \in {"serving", "parsing", "served"}}

Destroyed(z) == [z EXCEPT !.state = "killed", !.response = NULL]

DestroyIdleSessions(r) ==       \* none, or one that nobody works on; its trigger prints into nothing
  /\ req[r].phase = "accepted"
  /\ req' = [req EXCEPT ![r].phase = "waiting"]
  /\ \/ sess' = sess
     \/ \E s \in Requests :
          /\ sess[s].state = "ready" /\ Working(s) = {}
          /\ sess' = [sess EXCEPT ![s] = Destroyed(@)]
  /\ UNCHANGED <<at, body, wire, printed>>

(***************************************************************************)
(* dispatchRequest.  Verb, kind and form are read from session->context,   *)
(* the context of the request that created the session.                    *)
(***************************************************************************)
Sees(s) ==                      \* a context without a request: whatever its memory holds
  LET q == at[sess[s].slot] IN
  IF q = NULL THEN Gets \cup Posts
  ELSE {IF req[q].kind \in {"file", "sqlx"} THEN "page" ELSE req[q].kind}

CreateResponse == [text |-> <<>>, used |-> 0, allocated |-> Chunk]

IsDead(s, k) == k \in {"call", "kill"} /\ sess[s].state # "ready"     \* "Session is dead"

HeaderStepOnce(s, k) == IF sess[s].what # NOTHING THEN sess[s].what ELSE HEADER
HeaderStep(s, k) == IF IsDead(s, k) THEN sess[s].what ELSE HEADER     \* Send...ResponseHeader

Begin(r) ==
  LET s == req[r].ses IN
  /\ req[r].phase = "waiting" /\ Working(s) = {}
  /\ \/ /\ sess[s].state = "killed"
        /\ req' = [req EXCEPT ![r].phase = "served"]
        /\ sess' = sess
     \/ /\ sess[s].state # "killed"
        /\ \E k \in Sees(s) :
             /\ req' = [req EXCEPT ![r] = [@ EXCEPT !.phase = "serving", !.seen = k]]
             /\ sess' = [sess EXCEPT ![s] = [@ EXCEPT !.response = CreateResponse,
                                                      !.what = HeaderStep(s, k)]]
  /\ UNCHANGED <<at, body, wire, printed>>

(***************************************************************************)
(* Printing: responseWriteByte appends to the buffer and makes it larger   *)
(* when the text and one byte more do not fit.                             *)
(***************************************************************************)
Needed(p, n) == p.used + n + 1

FitsExactly(p, n) == p.used + n <= p.allocated
Fits(p, n) == Needed(p, n) <= p.allocated

WrittenAnew(p, item, n) ==
  [text |-> IF Fits(p, n) THEN Append(p.text, item) ELSE <<item>>, used |-> p.used + n,
   allocated |-> IF Fits(p, n) THEN p.allocated ELSE Needed(p, n) + Chunk]

Written(p, item, n) ==
  [text |-> Append(p.text, item), used |-> p.used + n,
   allocated |-> IF Fits(p, n) THEN p.allocated ELSE Needed(p, n) + Chunk]

Shown(z, item, n, step) == [z EXCEPT !.response = Written(z.response, item, n), !.what = step]

Printing(r, what, n, step) ==      \* and set whatIsPrinted to step
  LET s == req[r].ses
      item == [by |-> r, what |-> what]
  IN /\ Len(printed[r]) < MaxPrints
     /\ sess' = [sess EXCEPT ![s] = Shown(sess[s], item, n, step)]
     /\ printed' = [printed EXCEPT ![r] = Append(@, item)]
     /\ UNCHANGED <<at, req, body, wire>>

Serves(r) ==
  /\ req[r].phase \in {"serving", "parsing"}
  /\ ~IsDead(req[r].ses, req[r].seen)

PrintText(r) ==
  /\ Serves(r)
  /\ \E n \in Sizes : Printing(r, "text", n, sess[req[r].ses].what)

ErrorKind(k, what) == IF k \in Gets /\ what < LIBRARY THEN "poor" ELSE "rich"

SendError(r) ==                 \* __sendErrorResponse
  LET what == sess[req[r].ses].what IN
  /\ Serves(r)
  /\ \E n \in Sizes : Printing(r, ErrorKind(req[r].seen, what), n, what)

ParsePage(r) ==                 \* the user may see the page: ParseFRMXFile begins
  /\ req[r].phase = "serving" /\ req[r].seen = "page"
  /\ req' = [req EXCEPT ![r].phase = "parsing"]
  /\ sess' = [sess EXCEPT ![req[r].ses].state = "progress"]
  /\ UNCHANGED <<at, body, wire, printed>>

OpenHtml(r) ==                  \* <!DOCTYPE> or <html>
  /\ req[r].phase = "parsing"
  /\ sess' = [sess EXCEPT ![req[r].ses].what = CONTENT]
  /\ UNCHANGED <<at, req, body, wire, printed>>

OpenHead(r) ==                  \* <head>: the client library
  /\ req[r].phase = "parsing"
  /\ \E n \in Sizes : Printing(r, "library", n, LIBRARY)

(***************************************************************************)
(* An upload: getFormDataBig looks for a field in context->RequestBody,    *)
(* and where it is not there receives the body, for which it allocates a   *)
(* new block.  The server gives the bytes of a body once.                  *)
(***************************************************************************)
Holds(c, bytes, f) ==           \* do these bytes hold the field?
  /\ bytes = "whole" /\ at[c] # NULL
  /\ req[at[c]].kind = "upload" /\ req[at[c]].absent # f

Received(c) == IF body[c] = "none" THEN "whole" ELSE "empty"

LookupAgain(c, f) == Received(c)

Lookup(c, f) ==                 \* the body after the search for field f
  IF Holds(c, body[c], f) \/ Fields[f] = "filename" THEN body[c] ELSE Received(c)

AllAsked(r) == req[r].seen = "upload" => req[r].over

MayBeOver(f, found) ==          \* no such procedure or block: nothing more is asked
  IF Fields[f] \in {"nativeproceduretorun", "datablockname"}
  THEN {TRUE, ~found} ELSE {f = Len(Fields)}

Asked(z, f, o, new) == [z EXCEPT !.asked = f, !.over = o, !.got = z.got \cup new]

LookUpField(r) ==
  LET c == sess[req[r].ses].slot
      f == req[r].asked + 1
      found == Holds(c, Lookup(c, f), f)
  IN /\ req[r].phase = "serving" /\ ~AllAsked(r)
     /\ body' = [body EXCEPT ![c] = Lookup(c, f)]
     /\ \E o \in MayBeOver(f, found) :
          req' = [req EXCEPT ![r] = Asked(req[r], f, o, IF found THEN {f} ELSE {})]
     /\ UNCHANGED <<at, sess, wire, printed>>

(***************************************************************************)
(* The end of a request: DestroyResponse hands the buffer to the server,   *)
(* as the last part of the answer to the request in session->context.      *)
(***************************************************************************)
Flushed(s) ==
  LET q == at[sess[s].slot] IN
  IF sess[s].what = NOTHING \/ q = NULL THEN wire
  ELSE [wire EXCEPT ![q] = Append(@, BodyPart(sess[s].response.text))]

StateAfter(r) == IF req[r].phase = "parsing" THEN "ready" ELSE sess[req[r].ses].state

Finish(r) ==
  LET s == req[r].ses IN
  /\ req[r].phase \in {"serving", "parsing"} /\ AllAsked(r)
  /\ req[r].seen = "kill" => IsDead(s, "kill")
  /\ wire' = Flushed(s)
  /\ sess' = [sess EXCEPT ![s] = [@ EXCEPT !.response = NULL,
                                           !.state = StateAfter(r)]]
  /\ req' = [req EXCEPT ![r].phase = "served"]
  /\ UNCHANGED <<at, body, printed>>

KillSession(r) ==               \* kill-session: destroySession flushes the buffer
  LET s == req[r].ses IN
  /\ req[r].seen = "kill" /\ Serves(r)
  /\ wire' = Flushed(s)
  /\ sess' = [sess EXCEPT ![s] = Destroyed(@)]
  /\ req' = [req EXCEPT ![r].phase = "served"]
  /\ UNCHANGED <<at, body, printed>>

Close(r) ==                     \* a session that never showed a page is destroyed again
  LET s == req[r].ses IN
  /\ req[r].phase = "served"
  /\ sess' = IF sess[s].state = "init" THEN [sess EXCEPT ![s] = Destroyed(@)] ELSE sess
  /\ body' = [body EXCEPT ![req[r].slot] = "none"]
  /\ req' = [req EXCEPT ![r].phase = "closed"]
  /\ at' = Left(r)
  /\ UNCHANGED <<wire, printed>>

(***************************************************************************)
(* The end of the process, by an access violation: a request without a     *)
(* session, or one whose session was destroyed and freed before it is      *)
(* through with it.  A freed session may also be read as it was left: then *)
(* the request goes on by Begin or Close.                                  *)
(***************************************************************************)
SessionFreed(r) == req[r].phase \in {"waiting", "served"} /\ sess[req[r].ses].state = "killed"

Crash(r) ==
  /\ NoSession(r) \/ SessionFreed(r)
  /\ crashed' = TRUE
  /\ UNCHANGED <<at, req, sess, body, wire, printed>>

Work(r) ==
  \/ SendFile(r) \/ FileUnreadable(r) \/ Forbid(r)
  \/ CreateOrGetSession(r) \/ DestroyIdleSessions(r) \/ Begin(r)
  \/ PrintText(r) \/ SendError(r) \/ ParsePage(r) \/ OpenHtml(r) \/ OpenHead(r)
  \/ LookUpField(r) \/ Finish(r) \/ KillSession(r) \/ Close(r)

Live(step) == ~crashed /\ crashed' = FALSE /\ step

Handle(r) == Live(Work(r)) \/ (~crashed /\ Crash(r))

Next == \E r \in Requests : Handle(r) \/ \E c \in Contexts : Live(Arrive(r, c))

Fairness == \A r \in Requests : WF_vars(Handle(r))   \* threads run, programs end
Spec == Init /\ [][Next]_vars /\ Fairness

(***************************************************************************)
(* Properties.                                                             *)
(***************************************************************************)
WellFormed ==
  /\ at \in [Contexts -> OrNull(Requests)]
  /\ req \in [Requests -> Request]
  /\ sess \in [Requests -> Session]
  /\ \A s \in Requests : sess[s].state # "none" => sess[s].id # NULL /\ sess[s].slot # NULL
  /\ body \in [Contexts -> Bytes]
  /\ wire \in [Requests -> Seq(Message)]
  /\ printed \in [Requests -> Seq(Item)]

(* The type invariant: what each variable is, and that a session in use    *)
(* has an id and a context.                                                *)
TypeOK == WellFormed /\ crashed \in BOOLEAN

(* The buffer always has room for what it holds and one byte more          *)
(* (responseWriteByte reserves sizeof(char) for a terminator).             *)
BufferHolds ==
  \A s \in Requests : sess[s].response # NULL =>
    sess[s].response.used + 1 <= sess[s].response.allocated

(* Every request of a session came in the context of the session's first   *)
(* request.  The program never looks whether it does (mkSession.c:64 is    *)
(* the only assignment of session->context).                               *)
Straight ==
  \A r \in Requests : req[r].ses # NULL => sess[req[r].ses].slot = req[r].slot

(* A client gets one answer: a head, then nothing or one body, and nothing *)
(* after the part that disconnects.                                        *)
AnsweredOnce ==
  Straight => \A r \in Requests :
    /\ Len(wire[r]) <= 2
    /\ \A i \in 1 .. Len(wire[r]) :
         wire[r][i].part = (IF i = 1 THEN "head" ELSE "body") /\ (i > 1 => ~wire[r][i - 1].last)

(* The body of an answer is all of what was printed while its request was  *)
(* worked on, in that order, and nothing else: buffers of two users never  *)
(* mix and no text is left over from an earlier request.                   *)
AnswerWhole ==
  Straight => \A r \in Requests : \A i \in 1 .. Len(wire[r]) :
    req[r].kind # "file" /\ wire[r][i].part = "body" => wire[r][i].text = printed[r]

(* A client gets one answer and all of it: both of the above.              *)
OneWholeAnswer == AnsweredOnce /\ AnswerWhole

(* On a page a rich error, a call of the client library, comes only after  *)
(* the library was printed on that same page, whatever step an earlier     *)
(* request of the session left in whatIsPrinted.                           *)
ErrorFitsPage ==
  \A r \in Requests : req[r].seen \in Gets => \A i \in 1 .. Len(printed[r]) :
    printed[r][i].what = "rich" => \E j \in 1 .. i : printed[r][j].what = "library"

(* The body of an upload is received once and then kept: a field that the  *)
(* form holds is found, unless an earlier one was asked for in vain.       *)
FieldsFound ==
  Straight => \A r \in Requests : req[r].kind = "upload" /\ req[r].seen # NULL =>
    \A f \in 1 .. req[r].asked :
      f \in req[r].got \/ req[r].absent \in 1 .. f

Ended(r) == \E i \in 1 .. Len(wire[r]) : wire[r][i].last

(* Who gets no end of an answer: a file that cannot be read, a session     *)
(* that is gone when it is the request's turn or was never ready for it,   *)
(* and an answer that went to another context.                             *)
Excused(r) ==
  \/ req[r].kind = "file"
  \/ req[r].ses # NULL /\ sess[req[r].ses].state = "killed" /\ printed[r] = <<>>
  \/ ~Straight

(* The process is gone, for a request with the cookie of another program   *)
(* or one that was left with a destroyed session.                          *)
Felled ==
  crashed /\ \E q \in Requests :
    req[q].cookie = FOREIGN \/ (req[q].ses # NULL /\ sess[req[q].ses].state = "killed")

(* Every request that arrives is answered to its end, but for those named  *)
(* in Excused and for the end of the process, which has the two causes of  *)
(* Felled and no other.                                                    *)
EveryRequestEnds ==
  \A r \in Requests :
    req[r].phase = "arrived" ~>
      (Ended(r) \/ (req[r].phase = "closed" /\ Excused(r)) \/ Felled)

(* response.c:184 "sends the content of the responseBuffer to the client": *)
(* what is sent to a client was printed for that client's request.         *)
AnswerToItsClient ==
  \A r \in Requests : \A i \in 1 .. Len(wire[r]) : \A j \in 1 .. Len(wire[r][i].text) :
    wire[r][i].text[j].by = r
=============================================================================
