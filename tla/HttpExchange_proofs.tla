------------------------ MODULE HttpExchange_proofs ------------------------
(***************************************************************************)
(* For every number of requests, contexts and printed texts: the response  *)
(* buffer holds what is written to it; a page's errors fit what the page   *)
(* has loaded; and as long as every session keeps to the context of its    *)
(* first request, every client gets one answer, the whole of its own, and  *)
(* the fields of an upload are found.                                      *)
(***************************************************************************)
EXTENDS HttpExchange, TLAPS

Active(r) == req[r].phase \notin {"new", "closed"}
Works(r)  == req[r].phase \in {"serving", "parsing", "served"}
Writes(r) == req[r].phase \in {"serving", "parsing"}

(* A context holds the one request that is being handled in it.            *)
SlotInv ==
  \A r \in Requests : Active(r) => req[r].slot \in Contexts /\ at[req[r].slot] = r

(* Which session a request has, and that nothing happens for it before.    *)
SesInv ==
  \A r \in Requests :
    /\ req[r].phase \in {"new", "arrived"} =>
         sess[r].state = "none" /\ sess[r].response = NULL /\ req[r].ses = NULL
    /\ req[r].phase \in {"new", "arrived", "accepted", "waiting"} =>
         req[r].seen = NULL /\ printed[r] = <<>> /\ req[r].asked = 0
    /\ req[r].phase \in {"accepted", "waiting"} \/ Works(r) => req[r].ses # NULL
    /\ req[r].ses # NULL => sess[req[r].ses].state # "none"
    /\ sess[r].state = "none" => sess[r].id = NULL

(* The mutex of a session.                                                 *)
MutexInv ==
  \A q, r \in Requests : Works(q) /\ Works(r) /\ req[q].ses = req[r].ses => q = r

(* The buffer holds what its request has printed.                          *)
TextInv ==
  \A r \in Requests : Writes(r) =>
    /\ sess[req[r].ses].response # NULL
    /\ sess[req[r].ses].response.text = printed[r]

LibraryInv ==
  \A r \in Requests :
    Writes(r) /\ req[r].seen \in Gets /\ sess[req[r].ses].what = LIBRARY =>
      \E i \in 1 .. Len(printed[r]) : printed[r][i].what = "library"

BeginOf(r) == <<HeadPart(FALSE)>>
WireOf(r) ==
  /\ req[r].phase \in {"new", "arrived"} => wire[r] = <<>>
  /\ req[r].phase \in {"accepted", "waiting", "serving", "parsing"} => wire[r] = BeginOf(r)
  /\ req[r].phase \in {"served", "closed"} =>
       \/ wire[r] \in {<<>>, <<HeadPart(TRUE)>>, BeginOf(r)}
       \/ req[r].kind = "file" /\ wire[r] = <<HeadPart(FALSE), BodyPart(<<>>)>>
       \/ wire[r] = <<HeadPart(FALSE), BodyPart(printed[r])>>

WireInv == Straight => \A r \in Requests : WireOf(r)

OverInv == \A r \in Requests : req[r].asked = 5 => req[r].over

UploadInv ==
  Straight => \A r \in Requests :
    req[r].kind = "upload" /\ req[r].phase \in {"accepted", "waiting", "serving"} =>
      /\ req[r].asked = 0 => body[req[r].slot] = "none"
      /\ req[r].asked # 0 /\ req[r].absent \notin 1 .. req[r].asked => body[req[r].slot] = "whole"

IInv ==
  /\ WellFormed /\ BufferHolds /\ SlotInv /\ SesInv /\ MutexInv /\ TextInv
  /\ LibraryInv /\ ErrorFitsPage /\ WireInv /\ OverInv /\ UploadInv /\ FieldsFound
-----------------------------------------------------------------------------
LEMMA FieldFacts ==
  /\ Len(Fields) = 5
  /\ Fields[1] # "filename"
  /\ \A f \in 1 .. 5 : Fields[f] = "filename" => f = 5
  BY DEF Fields

LEMMA TextsAndMessages ==
  /\ <<>> \in Seq(Item)
  /\ \A b \in BOOLEAN : HeadPart(b) \in Message
  /\ \A t \in Seq(Item) : BodyPart(t) \in Message
  BY DEF HeadPart, BodyPart, Message

LEMMA ShortAnswers ==
  ASSUME NEW S, NEW a \in S, NEW b \in S
  PROVE  /\ <<a>> \in Seq(S) /\ <<a, b>> \in Seq(S)
         /\ Append(<<>>, a) = <<a>> /\ Append(<<a>>, b) = <<a, b>>
         /\ <<>> \o <<a, b>> = <<a, b>>
         /\ Len(<<a>>) = 1 /\ Len(<<a, b>>) = 2
         /\ \A t \in Seq(S) : Append(t, a) \in Seq(S) /\ t \o <<a, b>> \in Seq(S)
  <1>1. <<a>> \in Seq(S) /\ <<a, b>> \in Seq(S) /\ Len(<<a>>) = 1 /\ Len(<<a, b>>) = 2
    OBVIOUS
  <1>2. \A t \in Seq(S) : Append(t, a) \in Seq(S) /\ t \o <<a, b>> \in Seq(S)
    BY <1>1
  <1>3. Append(<<>>, a) = <<a>>
    OBVIOUS
  <1>4. Append(<<a>>, b) = <<a, b>>
    <2> DEFINE t == Append(<<a>>, b)
    <2>1. t \in Seq(S) /\ Len(t) = 2 /\ t[1] = a /\ t[2] = b
      BY <1>1
    <2> HIDE DEF t
    <2>2. t = <<a, b>>
      BY <1>1, <2>1
    <2>3. QED
      BY <2>2 DEF t
  <1>5. <<>> \o <<a, b>> = <<a, b>>
    BY <1>1
  <1>6. QED
    BY <1>1, <1>2, <1>3, <1>4, <1>5

LEMMA RequestEdits ==
  ASSUME NEW z \in Request
  PROVE  /\ \A p \in Phases : [z EXCEPT !.phase = p] \in Request
         /\ \A p \in Phases, s \in Requests : [z EXCEPT !.phase = p, !.ses = s] \in Request
         /\ \A p \in Phases, k \in OrNull(Kinds) : [z EXCEPT !.phase = p, !.seen = k] \in Request
         /\ \A f \in 1 .. 5, o \in BOOLEAN, g \in SUBSET (1 .. 5) :
              [z EXCEPT !.asked = f, !.over = o, !.got = g] \in Request
  <1>1. Request = [phase : Phases, kind : Kinds, slot : OrNull(Contexts),
                   cookie : OrNull(Requests \cup {FOREIGN}), ses : OrNull(Requests), seen : OrNull(Kinds), absent : 0 .. 5, asked : 0 .. 5,
                   over : BOOLEAN, got : SUBSET (1 .. 5)]
    BY FieldFacts DEF Request
  <1>2. \A p \in Phases : [z EXCEPT !.phase = p] \in Request
    BY <1>1
  <1>4. \A p \in Phases, s \in Requests : [z EXCEPT !.phase = p, !.ses = s] \in Request
    BY <1>1 DEF OrNull
  <1>5. \A p \in Phases, k \in OrNull(Kinds) : [z EXCEPT !.phase = p, !.seen = k] \in Request
    BY <1>1
  <1>6. \A f \in 1 .. 5, o \in BOOLEAN, g \in SUBSET (1 .. 5) :
          [z EXCEPT !.asked = f, !.over = o, !.got = g] \in Request
    <2> TAKE f \in 1 .. 5, o \in BOOLEAN, g \in SUBSET (1 .. 5)
    <2>1. f \in 0 .. 5
      OBVIOUS
    <2>2. [z EXCEPT !.asked = f] \in Request
      BY <1>1, <2>1
    <2>3. [z EXCEPT !.asked = f, !.over = o] \in Request
      BY <1>1, <2>2
    <2>4. QED
      BY <1>1, <2>3
  <1>7. QED
    BY <1>2, <1>4, <1>5, <1>6

LEMMA SessionEdits ==
  ASSUME NEW z \in Session
  PROVE  /\ Destroyed(z) \in Session
         /\ \A t \in States : [z EXCEPT !.state = t] \in Session
         /\ \A w \in 0 .. 3 : [z EXCEPT !.what = w] \in Session
         /\ \A p \in OrNull(Response), w \in 0 .. 3 : [z EXCEPT !.response = p, !.what = w] \in Session
         /\ \A t \in States : [z EXCEPT !.response = NULL, !.state = t] \in Session
  BY DEF Session, OrNull, Destroyed, States, NOTHING, LIBRARY

LEMMA BufferEdits ==
  ASSUME NEW p \in Response, NEW item \in Item, NEW n \in Sizes
  PROVE  /\ CreateResponse \in Response
         /\ CreateResponse.used + 1 <= CreateResponse.allocated
         /\ Written(p, item, n) \in Response
         /\ Written(p, item, n).text = Append(p.text, item)
         /\ Written(p, item, n).used + 1 <= Written(p, item, n).allocated
  BY ExchangeAssumption DEF CreateResponse, Response, Written, Fits, Needed

LEMMA SessionForIs ==
  ASSUME NEW r \in Requests, WellFormed
  PROVE  /\ SessionFor(r) \in Requests
         /\ SessionFor(r) # r => /\ sess[SessionFor(r)].id = req[r].cookie
                                 /\ req[r].cookie # NULL
                                 /\ sess[SessionFor(r)].state # "killed"
  <1>1. CASE Found(req[r].cookie) = {}
    BY <1>1 DEF SessionFor
  <1>2. CASE Found(req[r].cookie) # {}
    <2>1. SessionFor(r) \in Found(req[r].cookie)
      BY <1>2 DEF SessionFor
    <2>2. QED
      BY <2>1 DEF Found
  <1>3. QED
    BY <1>1, <1>2

LEMMA PrintTypes ==
  ASSUME WellFormed, TextInv, BufferHolds, NEW r \in Requests, Writes(r), req[r].ses # NULL,
         NEW what \in {"text", "library", "poor", "rich"}, NEW n \in Sizes, NEW w \in 0 .. 3,
         Printing(r, what, n, w)
  PROVE  WellFormed' /\ BufferHolds'
  <1> DEFINE s == req[r].ses
             item == [by |-> r, what |-> what]
             new == Shown(sess[s], item, n, w)
  <1>1. s \in Requests
    BY DEF WellFormed, Request, OrNull
  <1>2. item \in Item
    BY DEF Item
  <1>3. sess[s] \in Session /\ sess[s].response # NULL /\ sess[s].response \in Response
    BY <1>1 DEF WellFormed, TextInv, Session, OrNull
  <1>4. Written(sess[s].response, item, n) \in Response
    BY <1>2, <1>3, BufferEdits
  <1>5. sess' = [sess EXCEPT ![s] = new]
    BY DEF Printing
  <1>6. new \in Session
    BY <1>3, <1>4, SessionEdits DEF OrNull, Shown
  <1>7. /\ new.response = Written(sess[s].response, item, n)
        /\ new.id = sess[s].id /\ new.slot = sess[s].slot /\ new.state = sess[s].state
    BY <1>3 DEF Session, Shown
  <1>8. sess \in [Requests -> Session]
    BY DEF WellFormed
  <1> HIDE DEF s, new, item
  <1>9. sess' \in [Requests -> Session] /\ sess'[s] = new
        /\ \A q \in Requests : q # s => sess'[q] = sess[q]
    BY <1>1, <1>5, <1>6, <1>8
  <1>10. printed' \in [Requests -> Seq(Item)]
    BY <1>2 DEF Printing, WellFormed, item
  <1>11. WellFormed'
    BY <1>7, <1>9, <1>10 DEF Printing, WellFormed
  <1>12. BufferHolds'
    BY <1>2, <1>3, <1>7, <1>9, BufferEdits DEF BufferHolds
  <1>13. QED
    BY <1>11, <1>12
(* A request for another file is handled in one step.                      *)
LEMMA OtherFiles ==
  ASSUME IInv, NEW r \in Requests, SendFile(r) \/ FileUnreadable(r) \/ Forbid(r)
  PROVE  IInv'
  <1>1. /\ req[r].phase = "arrived"
        /\ req' = [req EXCEPT ![r].phase = "closed"] /\ at' = Left(r)
        /\ UNCHANGED <<sess, body, printed>>
    BY DEF SendFile, FileUnreadable, Forbid
  <1>2. req \in [Requests -> Request] /\ wire \in [Requests -> Seq(Message)]
        /\ at \in [Contexts -> OrNull(Requests)]
    BY DEF IInv, WellFormed
  <1>3. req' \in [Requests -> Request]
    BY <1>1, <1>2, RequestEdits DEF Phases
  <1>4. /\ \A q \in Requests : q # r => req'[q] = req[q]
        /\ req'[r].phase = "closed" /\ req'[r].ses = req[r].ses /\ req'[r].seen = req[r].seen
        /\ req'[r].slot = req[r].slot /\ req'[r].kind = req[r].kind
        /\ req'[r].asked = req[r].asked /\ req'[r].over = req[r].over
    BY <1>1, <1>2 DEF Request
  <1>5. req[r].slot \in Contexts /\ at[req[r].slot] = r
    BY <1>1 DEF IInv, SlotInv, Active
  <1>6. /\ at' \in [Contexts -> OrNull(Requests)]
        /\ \A c \in Contexts : c # req[r].slot => at'[c] = at[c]
    BY <1>1, <1>2, <1>5 DEF Left, OrNull
  <1>7. /\ wire' \in [Requests -> Seq(Message)]
        /\ \A q \in Requests : q # r => wire'[q] = wire[q]
        /\ wire[r] = <<>> =>
             \/ wire'[r] \in {<<>>, <<HeadPart(TRUE)>>}
             \/ req[r].kind = "file" /\ wire'[r] = <<HeadPart(FALSE), BodyPart(<<>>)>>
    <2> DEFINE head == HeadPart(FALSE)
               end  == HeadPart(TRUE)
               file == BodyPart(<<>>)
    <2>1. head \in Message /\ end \in Message /\ file \in Message
      BY TextsAndMessages
    <2> HIDE DEF head, end, file
    <2>2. wire[r] \in Seq(Message)
      BY <1>2
    <2>3. CASE SendFile(r)
      <3>1. wire' = [wire EXCEPT ![r] = wire[r] \o <<head, file>>]
        BY <2>3 DEF SendFile, head, file
      <3>2. wire[r] \o <<head, file>> \in Seq(Message)
            /\ (wire[r] = <<>> => wire[r] \o <<head, file>> = <<head, file>>)
        BY <2>1, <2>2, ShortAnswers
      <3>3. req[r].kind = "file"
        BY <2>3 DEF SendFile
      <3>4. QED
        BY <1>2, <3>1, <3>2, <3>3 DEF head, file
    <2>4. CASE FileUnreadable(r)
      BY <1>2, <2>4 DEF FileUnreadable
    <2>5. CASE Forbid(r)
      <3>1. wire' = [wire EXCEPT ![r] = Append(wire[r], end)]
        BY <2>5 DEF Forbid, end
      <3>2. Append(wire[r], end) \in Seq(Message)
            /\ (wire[r] = <<>> => Append(wire[r], end) = <<end>>)
        BY <2>1, <2>2, ShortAnswers
      <3>3. QED
        BY <1>2, <3>1, <3>2 DEF end
    <2>6. QED
      BY <2>3, <2>4, <2>5
  <1>8. WellFormed'
    BY <1>1, <1>3, <1>6, <1>7 DEF IInv, WellFormed
  <1>9. BufferHolds'
    BY <1>1 DEF IInv, BufferHolds
  <1>10. SlotInv'
    BY <1>4, <1>5, <1>6 DEF IInv, SlotInv, Active
  <1>11. SesInv'
    BY <1>1, <1>4 DEF IInv, SesInv, Works
  <1>12. MutexInv' /\ TextInv' /\ LibraryInv'
    BY <1>1, <1>4 DEF IInv, MutexInv, TextInv, LibraryInv, Works, Writes
  <1>13. ErrorFitsPage' /\ OverInv'
    BY <1>1, <1>4 DEF IInv, ErrorFitsPage, OverInv
  <1>14. Straight' => Straight
    BY <1>1, <1>4 DEF Straight
  <1>15. WireInv'
    BY <1>1, <1>4, <1>7, <1>14 DEF IInv, WireInv, WireOf, BeginOf
  <1>16. UploadInv' /\ FieldsFound'
    BY <1>1, <1>4, <1>14 DEF IInv, UploadInv, FieldsFound, SesInv
  <1>17. QED
    BY <1>8, <1>9, <1>10, <1>11, <1>12, <1>13, <1>15, <1>16 DEF IInv

(* Arrival.                                                                *)
LEMMA Arrives ==
  ASSUME IInv, NEW r \in Requests, NEW c \in Contexts, Arrive(r, c)
  PROVE  IInv'
  <1>1. /\ req[r].phase = "new" /\ at[c] = NULL
        /\ at' = [at EXCEPT ![c] = r] /\ UNCHANGED <<sess, body, wire, printed>>
    BY DEF Arrive
  <1>2. PICK z : /\ z \in Request /\ req' = [req EXCEPT ![r] = z]
                 /\ z.phase = "arrived" /\ z.slot = c /\ z.ses = NULL /\ z.seen = NULL
                 /\ z.asked = 0 /\ ~z.over
    <2>1. PICK k \in Kinds, i \in Cookies, a \in Lacks \cup {0} :
            req' = [req EXCEPT ![r] = Fresh("arrived", k, c, i, a)]
      BY Zenon DEF Arrive
    <2>2. i \in OrNull(Requests \cup {FOREIGN})
      BY DEF Cookies, OrNull, IInv, WellFormed, Session
    <2>3. a \in 0 .. 5
      BY ExchangeAssumption
    <2>4. Fresh("arrived", k, c, i, a) \in Request
      BY <2>2, <2>3, FieldFacts DEF Fresh, Request, Phases, OrNull
    <2> DEFINE new == Fresh("arrived", k, c, i, a)
    <2>5. new.phase = "arrived" /\ new.slot = c /\ new.ses = NULL /\ new.seen = NULL
          /\ new.asked = 0 /\ ~new.over
      BY DEF Fresh
    <2>6. req' = [req EXCEPT ![r] = new] /\ new \in Request
      BY <2>1, <2>4
    <2> HIDE DEF new
    <2>7. QED
      BY <2>5, <2>6
  <1>3. req \in [Requests -> Request] /\ at \in [Contexts -> OrNull(Requests)]
    BY DEF IInv, WellFormed
  <1>4. /\ req' \in [Requests -> Request] /\ req'[r] = z
        /\ \A q \in Requests : q # r => req'[q] = req[q]
    BY <1>2, <1>3
  <1>5. /\ at' \in [Contexts -> OrNull(Requests)] /\ at'[c] = r
        /\ \A d \in Contexts : d # c => at'[d] = at[d]
    BY <1>1, <1>3 DEF OrNull
  <1>6. WellFormed'
    BY <1>1, <1>4, <1>5 DEF IInv, WellFormed
  <1>7. BufferHolds'
    BY <1>1 DEF IInv, BufferHolds
  <1>8. SlotInv'
    <2>1. \A q \in Requests : Active(q) => req[q].slot \in Contexts /\ req[q].slot # c
      BY <1>1, ExchangeAssumption DEF IInv, SlotInv
    <2>2. QED
      BY <1>2, <1>4, <1>5, <2>1 DEF IInv, SlotInv, Active
  <1>9. SesInv'
    BY <1>1, <1>2, <1>4 DEF IInv, SesInv, Works
  <1>10. MutexInv' /\ TextInv' /\ LibraryInv'
    BY <1>1, <1>2, <1>4 DEF IInv, MutexInv, TextInv, LibraryInv, Works, Writes
  <1>11. ErrorFitsPage' /\ OverInv'
    <2>2. printed[r] = <<>>
      BY <1>1 DEF IInv, SesInv
    <2>3. QED
      BY <1>1, <1>2, <1>4, <2>2 DEF IInv, ErrorFitsPage, OverInv
  <1>12. Straight' => Straight
    BY <1>1, <1>2, <1>4 DEF Straight, IInv, SesInv
  <1>13. WireInv'
    BY <1>1, <1>2, <1>4, <1>12 DEF IInv, WireInv, WireOf, BeginOf
  <1>14. UploadInv' /\ FieldsFound'
    BY <1>1, <1>2, <1>4, <1>12 DEF IInv, UploadInv, FieldsFound
  <1>15. QED
    BY <1>6, <1>7, <1>8, <1>9, <1>10, <1>11, <1>13, <1>14 DEF IInv

(* CreateOrGetSession.                                                     *)
LEMMA Accepts ==
  ASSUME IInv, NEW r \in Requests, CreateOrGetSession(r)
  PROVE  IInv'
  <1> DEFINE s == SessionFor(r)
  <1>1. /\ req[r].phase = "arrived" /\ UNCHANGED <<at, printed>>
        /\ body' = [body EXCEPT ![req[r].slot] = "none"]
        /\ req' = [req EXCEPT ![r] = [@ EXCEPT !.phase = "accepted", !.ses = s]]
        /\ sess' = IF s = r THEN [sess EXCEPT ![r] = Created(r)] ELSE sess
        /\ wire' = [wire EXCEPT ![r] = Append(@, HeadPart(FALSE))]
    BY DEF CreateOrGetSession, AsksForPage
  <1>2. /\ s \in Requests
        /\ s # r => sess[s].id = req[r].cookie /\ req[r].cookie # NULL
    BY SessionForIs DEF IInv
  <1>3. /\ req \in [Requests -> Request] /\ sess \in [Requests -> Session]
        /\ wire \in [Requests -> Seq(Message)] /\ body \in [Contexts -> Bytes]
    BY DEF IInv, WellFormed
  <1>4. req[r].slot \in Contexts /\ at[req[r].slot] = r /\ sess[r].state = "none" /\ req[r].ses = NULL
        /\ sess[r].response = NULL
    BY <1>1 DEF IInv, SlotInv, Active, SesInv
  <1> HIDE DEF s
  <1>5. [req[r] EXCEPT !.phase = "accepted", !.ses = s] \in Request
    BY <1>2, <1>3, RequestEdits DEF Phases
  <1>6. /\ req' \in [Requests -> Request]
        /\ \A q \in Requests : q # r => req'[q] = req[q]
        /\ req'[r].phase = "accepted" /\ req'[r].ses = s /\ req'[r].seen = req[r].seen
        /\ req'[r].slot = req[r].slot /\ req'[r].kind = req[r].kind
        /\ req'[r].asked = req[r].asked /\ req'[r].over = req[r].over
    BY <1>1, <1>3, <1>5 DEF Request
  <1>7. /\ Created(r) \in Session /\ Created(r).state = "init" /\ Created(r).id # NULL
        /\ Created(r).slot = req[r].slot /\ Created(r).slot # NULL /\ Created(r).response = NULL
    <2>1. req[r].cookie \in OrNull(Requests)
      BY <1>1, <1>3 DEF CreateOrGetSession, OrNull, Request
    <2>2. QED
      BY <1>3, <1>4, <2>1, ExchangeAssumption
         DEF Created, Session, States, OrNull, Request, NOTHING, LIBRARY
  <1>8. /\ sess' \in [Requests -> Session]
        /\ \A q \in Requests : q # r => sess'[q] = sess[q]
        /\ IF s = r THEN sess'[r] = Created(r) ELSE sess'[r] = sess[r]
    BY <1>1, <1>3, <1>7
  <1>9. /\ body' \in [Contexts -> Bytes] /\ body'[req[r].slot] = "none"
        /\ \A c \in Contexts : c # req[r].slot => body'[c] = body[c]
    BY <1>1, <1>3, <1>4 DEF Bytes
  <1>10. /\ wire' \in [Requests -> Seq(Message)]
         /\ \A q \in Requests : q # r => wire'[q] = wire[q]
         /\ wire[r] = <<>> => wire'[r] = BeginOf(r)
    <2>1. HeadPart(FALSE) \in Message
      BY TextsAndMessages
    <2>2. Append(wire[r], HeadPart(FALSE)) \in Seq(Message)
      BY <1>3, <2>1, ShortAnswers
    <2>3. Append(<<>>, HeadPart(FALSE)) = <<HeadPart(FALSE)>>
      BY <2>1, ShortAnswers
    <2>4. QED
      BY <1>1, <1>3, <2>2, <2>3 DEF BeginOf
  <1>11. WellFormed'
    BY <1>1, <1>6, <1>7, <1>8, <1>9, <1>10 DEF IInv, WellFormed
  <1>12. BufferHolds'
    BY <1>7, <1>8 DEF IInv, BufferHolds
  <1>13. SlotInv'
    BY <1>1, <1>4, <1>6 DEF IInv, SlotInv, Active
  <1>14. SesInv'
    <2>1. \A q \in Requests : req[q].ses # r
      BY <1>4, ExchangeAssumption DEF IInv, SesInv
    <2>2. s # r => sess[s].state # "none"
      BY <1>2 DEF IInv, SesInv
    <2>3. s # NULL
      BY <1>2, ExchangeAssumption
    <2>4. QED
      BY <1>1, <1>2, <1>6, <1>7, <1>8, <2>1, <2>2, <2>3 DEF IInv, SesInv, Works
  <1>15. \A q \in Requests : req[q].ses # NULL =>
           req[q].ses \in Requests /\ req[q].ses # r /\ sess'[req[q].ses] = sess[req[q].ses]
    BY <1>3, <1>4, <1>8 DEF IInv, SesInv, Request, OrNull
  <1>16. MutexInv'
    BY <1>6 DEF IInv, MutexInv, Works
  <1>17. TextInv' /\ LibraryInv'
    BY <1>1, <1>6, <1>15 DEF IInv, TextInv, LibraryInv, Writes, SesInv, Works
  <1>18. ErrorFitsPage' /\ OverInv'
    BY <1>1, <1>6 DEF IInv, ErrorFitsPage, OverInv
  <1>19. Straight' => Straight
    BY <1>4, <1>6, <1>15 DEF Straight
  <1>20. WireInv'
    BY <1>1, <1>6, <1>10, <1>19 DEF IInv, WireInv, WireOf, BeginOf
  <1>21. \A q \in Requests : q # r /\ Active(q) => req[q].slot \in Contexts /\ req[q].slot # req[r].slot
    BY <1>4 DEF IInv, SlotInv
  <1>22. req[r].asked = 0 /\ req[r].seen = NULL
    BY <1>1 DEF IInv, SesInv
  <1>23. UploadInv'
    BY <1>6, <1>9, <1>19, <1>21, <1>22 DEF IInv, UploadInv, Active
  <1>24. FieldsFound'
    <2>1. ASSUME NEW q \in Requests
          PROVE  /\ req'[q].kind = req[q].kind /\ req'[q].seen = req[q].seen
                 /\ req'[q].asked = req[q].asked /\ req'[q].got = req[q].got
                 /\ req'[q].absent = req[q].absent
      BY <1>1, <1>3, <1>6 DEF Request
    <2>2. QED
      BY <1>19, <2>1 DEF IInv, FieldsFound
  <1>25. QED
    BY <1>11, <1>12, <1>13, <1>14, <1>16, <1>17, <1>18, <1>20, <1>23, <1>24 DEF IInv

(* A session that is worked on is neither swept nor taken by another.      *)
LEMMA Sweeps ==
  ASSUME IInv, NEW r \in Requests, DestroyIdleSessions(r)
  PROVE  IInv'
  <1>1. /\ req[r].phase = "accepted" /\ UNCHANGED <<at, body, wire, printed>>
        /\ req' = [req EXCEPT ![r].phase = "waiting"]
    BY DEF DestroyIdleSessions
  <1>2. req \in [Requests -> Request] /\ sess \in [Requests -> Session]
    BY DEF IInv, WellFormed
  <1>3. req' \in [Requests -> Request]
    BY <1>1, <1>2, RequestEdits DEF Phases
  <1>4. /\ \A q \in Requests : q # r => req'[q] = req[q]
        /\ req'[r].phase = "waiting" /\ req'[r].ses = req[r].ses /\ req'[r].seen = req[r].seen
        /\ req'[r].slot = req[r].slot /\ req'[r].kind = req[r].kind /\ req'[r].absent = req[r].absent
        /\ req'[r].asked = req[r].asked /\ req'[r].over = req[r].over /\ req'[r].got = req[r].got
    BY <1>1, <1>2 DEF Request
  <1>5. /\ sess' \in [Requests -> Session]
        /\ \A s \in Requests :
             /\ sess'[s].id = sess[s].id /\ sess'[s].slot = sess[s].slot
             /\ sess'[s].state = "none" <=> sess[s].state = "none"
             /\ sess'[s].response = sess[s].response \/ sess'[s].response = NULL
             /\ Working(s) # {} => sess'[s] = sess[s]
    <2>1. CASE sess' = sess
      BY <1>2, <2>1
    <2>2. CASE sess' # sess
      <3>1. PICK s \in Requests : /\ sess[s].state = "ready" /\ Working(s) = {}
                                  /\ sess' = [sess EXCEPT ![s] = Destroyed(sess[s])]
        BY <2>2 DEF DestroyIdleSessions
      <3>2. /\ Destroyed(sess[s]) \in Session
            /\ Destroyed(sess[s]).id = sess[s].id /\ Destroyed(sess[s]).slot = sess[s].slot
            /\ Destroyed(sess[s]).state = "killed" /\ Destroyed(sess[s]).response = NULL
        BY <1>2, SessionEdits DEF Destroyed, Session
      <3>3. QED
        BY <1>2, <3>1, <3>2
    <2>3. QED
      BY <2>1, <2>2
  <1>6. WellFormed'
    BY <1>1, <1>3, <1>5 DEF IInv, WellFormed
  <1>7. BufferHolds'
    <2>1. ASSUME NEW s \in Requests, sess'[s].response # NULL
          PROVE  sess'[s].response = sess[s].response
      BY <1>5, <2>1
    <2>2. QED
      BY <2>1 DEF IInv, BufferHolds
  <1>8. SlotInv'
    BY <1>1, <1>4 DEF IInv, SlotInv, Active
  <1>9. \A q \in Requests : req[q].ses # NULL => req[q].ses \in Requests
    BY <1>2 DEF Request, OrNull
  <1>10. SesInv'
    BY <1>1, <1>4, <1>5, <1>9 DEF IInv, SesInv, Works
  <1>11. MutexInv'
    BY <1>4 DEF IInv, MutexInv, Works
  <1>12. \A q \in Requests : Works(q) => req[q].ses \in Requests /\ sess'[req[q].ses] = sess[req[q].ses]
    BY <1>5, <1>9 DEF IInv, SesInv, Works, Working
  <1>13. TextInv' /\ LibraryInv'
    BY <1>1, <1>4, <1>12 DEF IInv, TextInv, LibraryInv, Writes, Works
  <1>14. ErrorFitsPage' /\ OverInv'
    BY <1>1, <1>4 DEF IInv, ErrorFitsPage, OverInv
  <1>15. Straight' => Straight
    BY <1>4, <1>5, <1>9 DEF Straight
  <1>16. WireInv'
    BY <1>1, <1>4, <1>15 DEF IInv, WireInv, WireOf, BeginOf
  <1>17. UploadInv' /\ FieldsFound'
    BY <1>1, <1>4, <1>15 DEF IInv, UploadInv, FieldsFound
  <1>18. QED
    BY <1>6, <1>7, <1>8, <1>10, <1>11, <1>13, <1>14, <1>16, <1>17 DEF IInv

(* A request gets the mutex, and an empty buffer if its session lives.     *)
LEMMA Begins ==
  ASSUME IInv, NEW r \in Requests, Begin(r)
  PROVE  IInv'
  <1> DEFINE s == req[r].ses
  <1>1. /\ req[r].phase = "waiting" /\ Working(s) = {} /\ UNCHANGED <<at, body, wire, printed>>
    BY DEF Begin
  <1>2. req \in [Requests -> Request] /\ sess \in [Requests -> Session]
    BY DEF IInv, WellFormed
  <1>3. s \in Requests /\ printed[r] = <<>> /\ req[r].asked = 0 /\ sess[s].state # "none"
    BY <1>1, <1>2 DEF IInv, SesInv, Request, OrNull
  <1>4. PICK p \in {"served", "serving"}, k \in OrNull(Kinds) :
          /\ req' = [req EXCEPT ![r] = [@ EXCEPT !.phase = p, !.seen = k]]
          /\ p = "served" => k = NULL /\ sess' = sess
          /\ p = "serving" =>
               /\ k \in Kinds
               /\ sess' = [sess EXCEPT ![s] = [@ EXCEPT !.response = CreateResponse,
                                                        !.what = HeaderStep(s, k)]]
    <2>1. CASE sess[s].state = "killed"
      <3>1. req' = [req EXCEPT ![r].phase = "served"] /\ sess' = sess
        BY <2>1 DEF Begin
      <3>2. req[r].seen = NULL
        BY <1>1 DEF IInv, SesInv
      <3>3. [req[r] EXCEPT !.phase = "served"] = [req[r] EXCEPT !.phase = "served", !.seen = NULL]
        BY <1>2, <3>2 DEF Request
      <3>4. QED
        BY <3>1, <3>3 DEF OrNull
    <2>2. CASE sess[s].state # "killed"
      <3>1. PICK k \in Sees(s) :
              /\ req' = [req EXCEPT ![r] = [@ EXCEPT !.phase = "serving", !.seen = k]]
              /\ sess' = [sess EXCEPT ![s] = [@ EXCEPT !.response = CreateResponse,
                                                        !.what = HeaderStep(s, k)]]
        BY <2>2 DEF Begin
      <3>2. sess[s].slot \in Contexts
        BY <1>2, <1>3 DEF IInv, WellFormed, Session, OrNull
      <3>3. at[sess[s].slot] # NULL => at[sess[s].slot] \in Requests
        BY <3>2 DEF IInv, WellFormed, OrNull
      <3>4. k \in Kinds
        BY <1>2, <3>1, <3>3 DEF Sees, Kinds, Gets, Posts, Request
      <3>5. QED
        BY <3>1, <3>4 DEF OrNull
    <2>3. QED
      BY <2>1, <2>2
  <1>5. /\ req' \in [Requests -> Request]
        /\ \A q \in Requests : q # r => req'[q] = req[q]
        /\ req'[r].phase = p /\ req'[r].ses = s /\ req'[r].seen = k
        /\ req'[r].slot = req[r].slot /\ req'[r].kind = req[r].kind /\ req'[r].absent = req[r].absent
        /\ req'[r].asked = req[r].asked /\ req'[r].over = req[r].over /\ req'[r].got = req[r].got
    <2> DEFINE z == [req[r] EXCEPT !.phase = p, !.seen = k]
    <2>1. z \in Request
      BY <1>2, RequestEdits DEF Phases
    <2>2. /\ z.phase = p /\ z.ses = s /\ z.seen = k /\ z.slot = req[r].slot /\ z.kind = req[r].kind
          /\ z.absent = req[r].absent /\ z.asked = req[r].asked /\ z.over = req[r].over
          /\ z.got = req[r].got
      BY <1>2 DEF Request
    <2>3. req' = [req EXCEPT ![r] = z]
      BY <1>4
    <2> HIDE DEF z, s
    <2>4. QED
      BY <1>2, <2>1, <2>2, <2>3
  <1> DEFINE new == [sess[s] EXCEPT !.response = CreateResponse, !.what = HeaderStep(s, k)]
  <1>6. sess[s].what \in 0 .. 3 /\ HeaderStep(s, k) \in 0 .. 3
    BY <1>2, <1>3 DEF HeaderStep, Session, NOTHING, LIBRARY, HEADER
  <1>7. CreateResponse \in Response
    BY ExchangeAssumption DEF CreateResponse, Response
  <1>8. /\ new \in Session /\ new.id = sess[s].id /\ new.slot = sess[s].slot /\ new.state = sess[s].state
        /\ new.response = CreateResponse /\ new.what = HeaderStep(s, k)
    <2>1. sess[s] \in Session
      BY <1>2, <1>3
    <2>2. new \in Session
      BY <1>6, <1>7, <2>1, SessionEdits DEF OrNull
    <2>3. QED
      BY <2>1, <2>2 DEF Session
  <1>9. p = "serving" => sess' = [sess EXCEPT ![s] = new]
    BY <1>4
  <1> HIDE DEF new
  <1>10. /\ sess' \in [Requests -> Session]
         /\ \A q \in Requests : q # s => sess'[q] = sess[q]
         /\ p = "served" => sess' = sess
         /\ p = "serving" => sess'[s] = new
    BY <1>2, <1>3, <1>4, <1>8, <1>9
  <1>11. CreateResponse # NULL /\ CreateResponse.used + 1 <= CreateResponse.allocated
         /\ CreateResponse.text = <<>>
    BY ExchangeAssumption, NullAssumption, <1>7 DEF CreateResponse
  <1> HIDE DEF s
  <1>12. \A q \in Requests : /\ sess'[q].id = sess[q].id /\ sess'[q].slot = sess[q].slot
                             /\ sess'[q].state = sess[q].state
    BY <1>4, <1>8, <1>10
  <1>13. WellFormed'
    BY <1>1, <1>5, <1>10, <1>12 DEF IInv, WellFormed
  <1>14. BufferHolds'
    BY <1>4, <1>8, <1>10, <1>11 DEF IInv, BufferHolds
  <1>15. SlotInv'
    BY <1>1, <1>5 DEF IInv, SlotInv, Active
  <1>16. \A q \in Requests : req[q].ses # NULL => req[q].ses \in Requests
    BY <1>2 DEF Request, OrNull
  <1>17. \A q \in Requests : Works(q) => req[q].ses # s
    BY <1>1 DEF Working, Works
  <1>18. SesInv'
    <2>1. \A q \in Requests : req[q].phase \in {"new", "arrived"} => sess'[q].response = sess[q].response
      BY <1>3, <1>10, <1>16 DEF IInv, SesInv
    <2>2. ASSUME NEW q \in Requests
          PROVE  req'[q].ses = req[q].ses /\ (q # r => req'[q] = req[q])
      BY <1>5 DEF s
    <2>3. s # NULL
      BY <1>3, ExchangeAssumption
    <2>4. QED
      BY <1>1, <1>3, <1>5, <1>12, <1>16, <2>1, <2>2, <2>3 DEF IInv, SesInv, Works
  <1>19. MutexInv'
    BY <1>5, <1>17 DEF IInv, MutexInv, Works
  <1>20. \A q \in Requests : Writes(q) => sess'[req[q].ses] = sess[req[q].ses] /\ q # r
    BY <1>1, <1>10, <1>16, <1>17 DEF IInv, SesInv, Works, Writes
  <1>21. TextInv'
    BY <1>1, <1>3, <1>4, <1>5, <1>8, <1>10, <1>11, <1>20 DEF IInv, TextInv, Writes
  <1>22. k \in Gets => HeaderStep(s, k) # LIBRARY
    BY DEF HeaderStep, IsDead, Gets, HEADER, LIBRARY
  <1>23. LibraryInv'
    BY <1>1, <1>4, <1>5, <1>8, <1>10, <1>20, <1>22 DEF IInv, LibraryInv, Writes
  <1>24. ErrorFitsPage' /\ OverInv'
    BY <1>1, <1>3, <1>5 DEF IInv, ErrorFitsPage, OverInv
  <1>25. Straight' => Straight
    BY <1>3, <1>5, <1>12, <1>16 DEF Straight, s
  <1>26. WireInv'
    <2> SUFFICES ASSUME Straight', NEW q \in Requests
                 PROVE  WireOf(q)'
      BY DEF WireInv
    <2>1. WireOf(q)
      BY <1>25 DEF IInv, WireInv
    <2>2. CASE q = r
      BY <1>1, <1>5, <2>1, <2>2 DEF WireOf, BeginOf
    <2>3. CASE q # r
      BY <1>1, <1>5, <2>1, <2>3 DEF WireOf, BeginOf
    <2>4. QED
      BY <2>2, <2>3
  <1>27. UploadInv' /\ FieldsFound'
    BY <1>1, <1>3, <1>5, <1>25 DEF IInv, UploadInv, FieldsFound
  <1>28. QED
    BY <1>13, <1>14, <1>15, <1>18, <1>19, <1>21, <1>23, <1>24, <1>26, <1>27 DEF IInv

(* Printing: the step of a page is LIBRARY only after the library.         *)
LEMMA Prints ==
  ASSUME IInv, NEW r \in Requests, Writes(r),
         NEW what \in {"text", "library", "poor", "rich"}, NEW n \in Sizes, NEW w \in 0 .. 3,
         Printing(r, what, n, w),
         w = LIBRARY => what = "library" \/ sess[req[r].ses].what = LIBRARY,
         what = "rich" /\ req[r].seen \in Gets => sess[req[r].ses].what = LIBRARY
  PROVE  IInv'
  <1> DEFINE s == req[r].ses
             item == [by |-> r, what |-> what]
             new == Shown(sess[s], item, n, w)
  <1>1. /\ sess' = [sess EXCEPT ![s] = new] /\ printed' = [printed EXCEPT ![r] = Append(@, item)]
        /\ UNCHANGED <<at, req, body, wire>>
    BY DEF Printing
  <1>2. req[r].ses # NULL
    BY DEF IInv, SesInv, Writes, Works
  <1>3. WellFormed' /\ BufferHolds'
    BY <1>2, PrintTypes DEF IInv
  <1>4. s \in Requests /\ sess[s] \in Session
    BY <1>2 DEF IInv, WellFormed, Request, OrNull
  <1>5. /\ sess[s].response # NULL /\ sess[s].response.text = printed[r]
        /\ sess[s].response \in Response
    BY <1>4 DEF IInv, TextInv, Session, OrNull
  <1>6. item \in Item
    BY DEF Item
  <1>7. /\ Written(sess[s].response, item, n) \in Response
        /\ Written(sess[s].response, item, n).text = Append(printed[r], item)
    BY <1>5, <1>6, BufferEdits
  <1>8. /\ new.id = sess[s].id /\ new.slot = sess[s].slot /\ new.state = sess[s].state
        /\ new.what = w /\ new.response = Written(sess[s].response, item, n)
    BY <1>4 DEF Shown, Session
  <1>9. new.response # NULL /\ new.response.text = Append(printed[r], item)
    BY <1>7, <1>8, NullAssumption
  <1>10. item.what = what
    OBVIOUS
  <1> HIDE DEF item
  <1>11. printed \in [Requests -> Seq(Item)] /\ sess \in [Requests -> Session]
    BY DEF IInv, WellFormed
  <1> HIDE DEF new
  <1>12. /\ \A q \in Requests : q # s => sess'[q] = sess[q]
         /\ sess'[s] = new
         /\ \A q \in Requests : q # r => printed'[q] = printed[q]
         /\ printed'[r] = Append(printed[r], item)
    BY <1>1, <1>4, <1>11
  <1>13. /\ Len(printed'[r]) = Len(printed[r]) + 1 /\ Len(printed[r]) \in Nat
         /\ \A i \in 1 .. Len(printed[r]) : printed'[r][i] = printed[r][i]
         /\ printed'[r][Len(printed[r]) + 1] = item
    BY <1>6, <1>11, <1>12
  <1> HIDE DEF s
  <1>14. \A q \in Requests : /\ sess'[q].id = sess[q].id /\ sess'[q].slot = sess[q].slot
                             /\ sess'[q].state = sess[q].state
    BY <1>8, <1>12
  <1>15. \A q \in Requests : q # r /\ Writes(q) => req[q].ses # s
    BY DEF IInv, MutexInv, Works, Writes, s
  <1>16. \A q \in Requests : req[q].ses # NULL => req[q].ses \in Requests
    BY DEF IInv, WellFormed, Request, OrNull
  <1>17. SlotInv' /\ MutexInv' /\ OverInv'
    BY <1>1 DEF IInv, SlotInv, Active, MutexInv, Works, OverInv
  <1>18. SesInv'
    <2>1. \A q \in Requests : req[q].phase \in {"new", "arrived"} => q # s
      BY <1>2 DEF IInv, SesInv, s
    <2>2. \A q \in Requests : q = r => req[q].phase \notin {"new", "arrived", "accepted", "waiting"}
      BY DEF Writes
    <2>3. QED
      BY <1>1, <1>12, <1>14, <1>16, <2>1, <2>2 DEF IInv, SesInv, Works
  <1>19. \A q \in Requests : q # r /\ Writes(q) => sess'[req[q].ses] = sess[req[q].ses]
    BY <1>12, <1>15, <1>16 DEF IInv, SesInv, Works, Writes
  <1>20. TextInv'
    <2> SUFFICES ASSUME NEW q \in Requests, Writes(q)
                 PROVE  sess'[req[q].ses].response # NULL
                        /\ sess'[req[q].ses].response.text = printed'[q]
      BY <1>1 DEF TextInv, Writes
    <2>1. CASE q = r
      BY <1>9, <1>12, <2>1 DEF s
    <2>2. CASE q # r
      BY <1>12, <1>19, <2>2 DEF IInv, TextInv
    <2>3. QED
      BY <2>1, <2>2
  <1>21. LibraryInv'
    <2>1. ASSUME req[r].seen \in Gets, w = LIBRARY
          PROVE  \E i \in 1 .. Len(printed'[r]) : printed'[r][i].what = "library"
      <3>1. CASE what = "library"
        <4>1. Len(printed[r]) + 1 \in 1 .. Len(printed'[r])
          BY <1>13
        <4>2. QED
          BY <1>10, <1>13, <3>1, <4>1
      <3>2. CASE what # "library"
        <4>1. PICK i \in 1 .. Len(printed[r]) : printed[r][i].what = "library"
          BY <2>1, <3>2 DEF IInv, LibraryInv
        <4>2. i \in 1 .. Len(printed'[r])
          BY <1>13
        <4>3. QED
          BY <1>13, <4>1, <4>2
      <3>3. QED
        BY <3>1, <3>2
    <2>2. QED
      BY <1>1, <1>8, <1>12, <1>19, <2>1 DEF IInv, LibraryInv, Writes, s
  <1>22. ErrorFitsPage'
    <2> SUFFICES ASSUME NEW q \in Requests, req[q].seen \in Gets,
                        NEW i \in 1 .. Len(printed'[q]), printed'[q][i].what = "rich"
                 PROVE  \E j \in 1 .. i : printed'[q][j].what = "library"
      BY <1>1 DEF ErrorFitsPage
    <2>1. CASE q # r
      BY <1>12, <2>1 DEF IInv, ErrorFitsPage
    <2>2. CASE q = r /\ i <= Len(printed[r])
      <3>1. i \in 1 .. Len(printed[r])
        BY <1>13, <2>2
      <3>2. PICK j \in 1 .. i : printed[r][j].what = "library"
        BY <1>13, <2>2, <3>1 DEF IInv, ErrorFitsPage
      <3>3. QED
        BY <1>13, <2>2, <3>1, <3>2
    <2>3. CASE q = r /\ i = Len(printed[r]) + 1
      <3>1. what = "rich"
        BY <1>10, <1>13, <2>3
      <3>2. PICK j \in 1 .. Len(printed[r]) : printed[r][j].what = "library"
        BY <2>3, <3>1 DEF IInv, LibraryInv
      <3>3. j \in 1 .. i
        BY <1>13, <2>3, <3>2
      <3>4. QED
        BY <1>13, <2>3, <3>2, <3>3
    <2>4. QED
      BY <1>13, <2>1, <2>2, <2>3
  <1>23. Straight' => Straight
    BY <1>1, <1>14, <1>16 DEF Straight
  <1>24. WireInv'
    <2> SUFFICES ASSUME Straight', NEW q \in Requests
                 PROVE  WireOf(q)'
      BY DEF WireInv
    <2>1. WireOf(q)
      BY <1>23 DEF IInv, WireInv
    <2>2. q = r => req[q].phase \in {"serving", "parsing"}
      BY DEF Writes
    <2>3. QED
      BY <1>1, <1>12, <2>1, <2>2 DEF WireOf, BeginOf
  <1>25. UploadInv' /\ FieldsFound'
    BY <1>1, <1>23 DEF IInv, UploadInv, FieldsFound
  <1>26. QED
    BY <1>3, <1>17, <1>18, <1>20, <1>21, <1>22, <1>24, <1>25 DEF IInv

LEMMA PrintsAny ==
  ASSUME IInv, NEW r \in Requests, PrintText(r) \/ SendError(r) \/ OpenHead(r)
  PROVE  IInv'
  <1> DEFINE step == sess[req[r].ses].what
  <1>1. Writes(r)
    BY DEF PrintText, SendError, OpenHead, Serves, Writes
  <1>2. req[r].ses \in Requests
    BY <1>1 DEF IInv, WellFormed, SesInv, Works, Writes, Request, OrNull
  <1>3. step \in 0 .. 3
    BY <1>2 DEF IInv, WellFormed, Session, NOTHING, LIBRARY
  <1>4. CASE PrintText(r)
    <2>1. PICK n \in Sizes : Printing(r, "text", n, step)
      BY <1>4 DEF PrintText
    <2>2. QED
      BY <1>1, <1>3, <2>1, Prints
  <1>5. CASE SendError(r)
    <2>1. PICK n \in Sizes : Printing(r, ErrorKind(req[r].seen, step), n, step)
      BY <1>5 DEF SendError
    <2>2. ErrorKind(req[r].seen, step) \in {"text", "library", "poor", "rich"}
      BY DEF ErrorKind
    <2>3. ErrorKind(req[r].seen, step) = "rich" /\ req[r].seen \in Gets => step = LIBRARY
      BY <1>3 DEF ErrorKind, LIBRARY
    <2>4. QED
      BY <1>1, <1>3, <2>1, <2>2, <2>3, Prints
  <1>6. CASE OpenHead(r)
    <2>1. PICK n \in Sizes : Printing(r, "library", n, LIBRARY)
      BY <1>6 DEF OpenHead
    <2>2. LIBRARY \in 0 .. 3
      BY DEF LIBRARY
    <2>3. QED
      BY <1>1, <2>1, <2>2, Prints
  <1>7. QED
    BY <1>4, <1>5, <1>6

(* The page's own steps: its program begins, its document opens.           *)
LEMMA PageSteps ==
  ASSUME IInv, NEW r \in Requests, ParsePage(r) \/ OpenHtml(r)
  PROVE  IInv'
  <1> DEFINE s == req[r].ses
  <1>1. Writes(r) /\ UNCHANGED <<at, body, wire, printed>>
    BY DEF ParsePage, OpenHtml, Writes
  <1>2. req \in [Requests -> Request] /\ sess \in [Requests -> Session]
    BY DEF IInv, WellFormed
  <1>3. s \in Requests /\ s # NULL
    BY <1>1, <1>2 DEF IInv, SesInv, Works, Writes, Request, OrNull
  <1>4. /\ req' \in [Requests -> Request]
        /\ \A q \in Requests : q # r => req'[q] = req[q]
        /\ req'[r].phase \in {"serving", "parsing"}
        /\ req'[r].phase = "serving" => req[r].phase = "serving"
        /\ \A q \in Requests :
             /\ req'[q].ses = req[q].ses /\ req'[q].seen = req[q].seen /\ req'[q].slot = req[q].slot
             /\ req'[q].kind = req[q].kind /\ req'[q].absent = req[q].absent
             /\ req'[q].asked = req[q].asked /\ req'[q].over = req[q].over
             /\ req'[q].got = req[q].got
    <2>1. CASE ParsePage(r)
      <3>1. req' = [req EXCEPT ![r].phase = "parsing"]
        BY <2>1 DEF ParsePage
      <3>2. req' \in [Requests -> Request]
        BY <1>2, <3>1, RequestEdits DEF Phases
      <3>3. QED
        BY <1>2, <3>1, <3>2 DEF Request
    <2>2. CASE OpenHtml(r)
      BY <1>1, <1>2, <2>2 DEF OpenHtml, Writes
    <2>3. QED
      BY <2>1, <2>2
  <1>5. /\ sess' \in [Requests -> Session]
        /\ \A q \in Requests : q # s => sess'[q] = sess[q]
        /\ sess'[s].what = LIBRARY => sess[s].what = LIBRARY
        /\ sess'[s].state \in {sess[s].state, "progress"}
        /\ sess'[s].response = sess[s].response
        /\ sess'[s].id = sess[s].id /\ sess'[s].slot = sess[s].slot
    <2>1. CASE ParsePage(r)
      <3>1. sess' = [sess EXCEPT ![s] = [sess[s] EXCEPT !.state = "progress"]]
        BY <2>1 DEF ParsePage
      <3>2. [sess[s] EXCEPT !.state = "progress"] \in Session
        BY <1>2, <1>3, SessionEdits DEF States
      <3>3. QED
        BY <1>2, <1>3, <3>1, <3>2 DEF Session
    <2>2. CASE OpenHtml(r)
      <3>1. sess' = [sess EXCEPT ![s] = [sess[s] EXCEPT !.what = CONTENT]]
        BY <2>2 DEF OpenHtml
      <3>2. [sess[s] EXCEPT !.what = CONTENT] \in Session
        <4>1. CONTENT \in 0 .. 3
          BY DEF CONTENT
        <4>2. QED
          BY <1>2, <1>3, <4>1, SessionEdits
      <3>3. [sess[s] EXCEPT !.what = CONTENT].what # LIBRARY
        BY <1>2, <1>3 DEF CONTENT, LIBRARY, Session
      <3>4. QED
        BY <1>2, <1>3, <3>1, <3>2, <3>3 DEF Session
    <2>3. QED
      BY <2>1, <2>2
  <1> HIDE DEF s
  <1>6. \A q \in Requests :
          /\ sess'[q].id = sess[q].id /\ sess'[q].slot = sess[q].slot
          /\ sess'[q].response = sess[q].response
          /\ sess'[q].what = LIBRARY => sess[q].what = LIBRARY
          /\ sess'[q].state = "none" <=> sess[q].state = "none"
    <2>1. sess[s].state # "none"
      BY <1>3 DEF IInv, SesInv, s
    <2>2. QED
      BY <1>5, <2>1
  <1>7. \A q \in Requests : req[q].ses # NULL => req[q].ses \in Requests
    BY <1>2 DEF Request, OrNull
  <1>8. \A q \in Requests : /\ Works(q)' <=> Works(q)
                            /\ Writes(q)' <=> Writes(q)
                            /\ Active(q)' <=> Active(q)
    BY <1>1, <1>4 DEF Works, Writes, Active
  <1>9. WellFormed'
    <2>1. sess' \in [Requests -> Session] /\ req' \in [Requests -> Request]
      BY <1>4, <1>5
    <2>2. \A q \in Requests : sess'[q].state # "none" => sess'[q].id # NULL /\ sess'[q].slot # NULL
      BY <1>6 DEF IInv, WellFormed
    <2>3. QED
      BY <1>1, <2>1, <2>2 DEF IInv, WellFormed
  <1>10. BufferHolds'
    BY <1>6 DEF IInv, BufferHolds
  <1>11. SlotInv' /\ MutexInv' /\ OverInv'
    BY <1>1, <1>4, <1>8 DEF IInv, SlotInv, MutexInv, OverInv
  <1>12. SesInv'
    <2> SUFFICES ASSUME NEW q \in Requests
                 PROVE  /\ req'[q].phase \in {"new", "arrived"} =>
                             sess'[q].state = "none" /\ sess'[q].response = NULL /\ req'[q].ses = NULL
                        /\ req'[q].phase \in {"new", "arrived", "accepted", "waiting"} =>
                             req'[q].seen = NULL /\ printed'[q] = <<>> /\ req'[q].asked = 0
                        /\ req'[q].phase \in {"accepted", "waiting"} \/ Works(q)' => req'[q].ses # NULL
                        /\ req'[q].ses # NULL => sess'[req'[q].ses].state # "none"
                        /\ sess'[q].state = "none" => sess'[q].id = NULL
      BY DEF SesInv
    <2>1. req'[q].phase \in {"new", "arrived", "accepted", "waiting"} => req'[q].phase = req[q].phase
      BY <1>4
    <2>2. QED
      BY <1>1, <1>4, <1>6, <1>7, <1>8, <2>1 DEF IInv, SesInv
  <1>13. \A q \in Requests : Writes(q) => req[q].ses \in Requests
    BY <1>7 DEF IInv, SesInv, Works, Writes
  <1>14. TextInv' /\ LibraryInv'
    BY <1>1, <1>4, <1>6, <1>8, <1>13 DEF IInv, TextInv, LibraryInv
  <1>15. ErrorFitsPage'
    BY <1>1, <1>4 DEF IInv, ErrorFitsPage
  <1>16. Straight' => Straight
    BY <1>4, <1>6, <1>7 DEF Straight
  <1>17. WireInv'
    <2> SUFFICES ASSUME Straight', NEW q \in Requests
                 PROVE  WireOf(q)'
      BY DEF WireInv
    <2>1. WireOf(q)
      BY <1>16 DEF IInv, WireInv
    <2>2. q = r => req[q].phase \in {"serving", "parsing"}
      BY <1>1 DEF Writes
    <2>3. QED
      BY <1>1, <1>4, <2>1, <2>2 DEF WireOf, BeginOf
  <1>18. UploadInv'
    <2> SUFFICES ASSUME Straight', NEW q \in Requests, req'[q].kind = "upload",
                        req'[q].phase \in {"accepted", "waiting", "serving"}
                 PROVE  /\ req'[q].asked = 0 => body'[req'[q].slot] = "none"
                        /\ req'[q].asked # 0 /\ req'[q].absent \notin 1 .. req'[q].asked =>
                             body'[req'[q].slot] = "whole"
      BY DEF UploadInv
    <2>1. req[q].phase \in {"accepted", "waiting", "serving"}
      BY <1>4
    <2>2. QED
      BY <1>1, <1>4, <1>16, <2>1 DEF IInv, UploadInv
  <1>19. FieldsFound'
    BY <1>4, <1>16 DEF IInv, FieldsFound
  <1>20. QED
    BY <1>9, <1>10, <1>11, <1>12, <1>14, <1>15, <1>17, <1>18, <1>19 DEF IInv

(* A field of an upload is looked up in the body of the session's context. *)
LEMMA LooksUp ==
  ASSUME IInv, NEW r \in Requests, LookUpField(r)
  PROVE  IInv'
  <1> DEFINE c == sess[req[r].ses].slot
             f == req[r].asked + 1
             found == Holds(c, Lookup(c, f), f)
             new == IF found THEN {f} ELSE {}
             got == req[r].got \cup new
  <1>1. /\ req[r].phase = "serving" /\ req[r].seen = "upload" /\ ~req[r].over
        /\ body' = [body EXCEPT ![c] = Lookup(c, f)] /\ UNCHANGED <<at, sess, wire, printed>>
    BY DEF LookUpField, AllAsked
  <1>2. PICK o \in MayBeOver(f, found) :
          req' = [req EXCEPT ![r] = Asked(req[r], f, o, new)]
    BY DEF LookUpField
  <1>3. /\ req \in [Requests -> Request] /\ sess \in [Requests -> Session]
        /\ body \in [Contexts -> Bytes] /\ req[r] \in Request
    BY DEF IInv, WellFormed
  <1>4. f \in 1 .. 5 /\ req[r].asked \in 0 .. 4 /\ req[r].got \in SUBSET (1 .. 5)
    BY <1>1, <1>3, FieldFacts DEF IInv, OverInv, Request
  <1>5. req[r].ses \in Requests /\ c \in Contexts
    BY <1>1, <1>3 DEF IInv, SesInv, WellFormed, Works, Request, Session, OrNull
  <1>6. got \in SUBSET (1 .. 5) /\ req[r].got \subseteq got /\ (found => f \in got)
    BY <1>4 DEF new
  <1>7. o \in BOOLEAN /\ (f = 5 => o)
    <2>1. found \in BOOLEAN
      BY DEF Holds
    <2>2. f = 5 => Fields[f] \notin {"nativeproceduretorun", "datablockname"}
      BY DEF Fields
    <2> HIDE DEF found, f
    <2>3. QED
      BY <1>2, <1>4, <2>1, <2>2, FieldFacts DEF MayBeOver
  <1>8. Lookup(c, f) \in Bytes
    <2>1. body[c] \in Bytes
      BY <1>3, <1>5
    <2>2. Received(c) \in Bytes
      BY DEF Received, Bytes
    <2>3. QED
      BY <2>1, <2>2 DEF Lookup
  <1> DEFINE look == Lookup(c, f)
  <1>9. look \in Bytes /\ body' = [body EXCEPT ![c] = look]
    BY <1>1, <1>8
  <1> DEFINE z == [req[r] EXCEPT !.asked = f, !.over = o, !.got = got]
  <1> HIDE DEF new, got, found, look
  <1>10. z \in Request
    BY <1>3, <1>4, <1>6, <1>7, RequestEdits
  <1>11. /\ z.asked = f /\ z.over = o /\ z.got = got
         /\ z.phase = req[r].phase /\ z.ses = req[r].ses /\ z.seen = req[r].seen
         /\ z.slot = req[r].slot /\ z.kind = req[r].kind /\ z.absent = req[r].absent
    BY <1>3 DEF Request
  <1>12. req' = [req EXCEPT ![r] = z]
    BY <1>2 DEF Asked, z, got
  <1> HIDE DEF z, c, f
  <1>13. /\ req' \in [Requests -> Request] /\ req'[r] = z
         /\ \A q \in Requests : q # r => req'[q] = req[q]
         /\ \A q \in Requests :
              /\ req'[q].phase = req[q].phase /\ req'[q].ses = req[q].ses
              /\ req'[q].seen = req[q].seen /\ req'[q].slot = req[q].slot
              /\ req'[q].kind = req[q].kind /\ req'[q].absent = req[q].absent
    BY <1>3, <1>10, <1>11, <1>12
  <1>14. /\ body' \in [Contexts -> Bytes] /\ body'[c] = look
         /\ \A d \in Contexts : d # c => body'[d] = body[d]
    BY <1>3, <1>5, <1>9
  <1>15. WellFormed'
    BY <1>1, <1>13, <1>14 DEF IInv, WellFormed
  <1>16. BufferHolds'
    BY <1>1 DEF IInv, BufferHolds
  <1>17. SlotInv' /\ MutexInv'
    BY <1>1, <1>13 DEF IInv, SlotInv, Active, MutexInv, Works
  <1>18. SesInv'
    BY <1>1, <1>13 DEF IInv, SesInv, Works
  <1>19. TextInv' /\ LibraryInv' /\ ErrorFitsPage'
    BY <1>1, <1>13 DEF IInv, TextInv, LibraryInv, ErrorFitsPage, Writes
  <1>20. OverInv'
    BY <1>7, <1>11, <1>13 DEF IInv, OverInv
  <1>21. Straight' => Straight
    BY <1>1, <1>13 DEF Straight
  <1>22. WireInv'
    <2> SUFFICES ASSUME Straight', NEW q \in Requests
                 PROVE  WireOf(q)'
      BY DEF WireInv
    <2>1. WireOf(q)
      BY <1>21 DEF IInv, WireInv
    <2>2. QED
      BY <1>1, <1>13, <2>1 DEF WireOf, BeginOf
  <1>23. req[r].slot \in Contexts /\ at[req[r].slot] = r
    BY <1>1 DEF IInv, SlotInv, Active
  <1>24. ASSUME Straight, req[r].kind = "upload", req[r].absent \notin 1 .. f
         PROVE  look = "whole" /\ found
    <2>1. c = req[r].slot
      BY <1>5, <1>24, ExchangeAssumption DEF Straight, c
    <2>2. req[r].absent # f
      BY <1>4, <1>24
    <2>3. at[c] = r /\ r # NULL
      BY <1>23, <2>1, ExchangeAssumption
    <2>4. Holds(c, "whole", f)
      BY <1>24, <2>2, <2>3 DEF Holds
    <2>5. CASE req[r].asked = 0
      <3>1. body[c] = "none" /\ f = 1
        BY <1>1, <1>24, <2>1, <2>5 DEF IInv, UploadInv, f
      <3>2. look = "whole"
        BY <3>1, FieldFacts DEF look, Lookup, Holds, Received
      <3>3. QED
        BY <2>4, <3>2 DEF found, look
    <2>6. CASE req[r].asked # 0
      <3>1. req[r].absent \notin 1 .. req[r].asked
        BY <1>4, <1>24 DEF f
      <3>2. body[c] = "whole"
        BY <1>1, <1>24, <2>1, <2>6, <3>1 DEF IInv, UploadInv
      <3>3. look = "whole"
        BY <2>4, <3>2 DEF look, Lookup
      <3>4. QED
        BY <2>4, <3>3 DEF found, look
    <2>7. QED
      BY <2>5, <2>6
  <1>25. UploadInv'
    <2> SUFFICES ASSUME Straight, NEW q \in Requests, req[q].kind = "upload",
                        req[q].phase \in {"accepted", "waiting", "serving"}
                 PROVE  /\ req'[q].asked = 0 => body'[req[q].slot] = "none"
                        /\ req'[q].asked # 0 /\ req[q].absent \notin 1 .. req'[q].asked =>
                             body'[req[q].slot] = "whole"
      BY <1>13, <1>21 DEF UploadInv
    <2>0. c = req[r].slot
      BY <1>5, ExchangeAssumption DEF Straight, c
    <2>1. CASE q = r
      <3>1. req'[q].asked = f /\ f # 0
        BY <1>4, <1>11, <1>13, <2>1
      <3>2. QED
        BY <1>14, <1>24, <2>0, <2>1, <3>1
    <2>2. CASE q # r
      <3>1. req[q].slot \in Contexts /\ req[q].slot # c
        BY <1>23, <2>0, <2>2 DEF IInv, SlotInv, Active
      <3>2. QED
        BY <1>13, <1>14, <2>2, <3>1 DEF IInv, UploadInv
    <2>3. QED
      BY <2>1, <2>2
  <1>26. FieldsFound'
    <2> SUFFICES ASSUME Straight, NEW q \in Requests, req[q].kind = "upload", req[q].seen # NULL,
                        NEW g \in 1 .. req'[q].asked
                 PROVE  g \in req'[q].got \/ req[q].absent \in 1 .. g
      BY <1>13, <1>21 DEF FieldsFound
    <2>1. CASE q # r
      BY <1>13, <2>1 DEF IInv, FieldsFound
    <2>2. CASE q = r /\ g \in 1 .. req[r].asked
      <3>1. g \in req[r].got \/ req[r].absent \in 1 .. g
        BY <2>2 DEF IInv, FieldsFound
      <3>2. QED
        BY <1>6, <1>11, <1>13, <2>2, <3>1
    <2>3. CASE q = r /\ g = f
      <3>1. CASE req[r].absent \notin 1 .. f
        BY <1>6, <1>11, <1>13, <1>24, <2>3, <3>1
      <3>2. CASE req[r].absent \in 1 .. f
        BY <2>3, <3>2
      <3>3. QED
        BY <3>1, <3>2
    <2>4. QED
      BY <1>4, <1>11, <1>13, <2>1, <2>2, <2>3 DEF f
  <1>27. QED
    BY <1>15, <1>16, <1>17, <1>18, <1>19, <1>20, <1>22, <1>25, <1>26 DEF IInv

(* DestroyResponse: where sessions are straight, the buffer goes to the    *)
(* client of the request that printed it.                                  *)
LEMMA Flushes ==
  ASSUME IInv, NEW r \in Requests, Writes(r)
  PROVE  /\ Flushed(req[r].ses) \in [Requests -> Seq(Message)]
         /\ Straight => /\ \A q \in Requests : q # r => Flushed(req[r].ses)[q] = wire[q]
                        /\ Flushed(req[r].ses)[r] \in
                             {BeginOf(r), <<HeadPart(FALSE), BodyPart(printed[r])>>}
  <1> DEFINE s == req[r].ses
             c == sess[s].slot
             part == BodyPart(sess[s].response.text)
             head == HeadPart(FALSE)
  <1>1. s \in Requests /\ c \in Contexts /\ s # NULL
    BY DEF IInv, SesInv, WellFormed, Works, Writes, Request, Session, OrNull
  <1>2. sess[s].response \in Response /\ sess[s].response.text = printed[r]
    BY <1>1 DEF IInv, TextInv, WellFormed, Session, OrNull
  <1>3. part \in Message /\ head \in Message /\ part = BodyPart(printed[r])
    <2>1. sess[s].response.text \in Seq(Item)
      BY <1>2 DEF Response
    <2>2. QED
      BY <1>2, <2>1, TextsAndMessages
  <1>4. wire \in [Requests -> Seq(Message)] /\ at[c] \in OrNull(Requests)
    BY <1>1 DEF IInv, WellFormed
  <1>5. \/ Flushed(s) = wire
        \/ at[c] \in Requests /\ Flushed(s) = [wire EXCEPT ![at[c]] = Append(wire[at[c]], part)]
    BY <1>4 DEF Flushed, OrNull
  <1> HIDE DEF part, head
  <1>6. Flushed(s) \in [Requests -> Seq(Message)]
    <2>1. \A q \in Requests : Append(wire[q], part) \in Seq(Message)
      BY <1>3, <1>4, ShortAnswers
    <2>2. QED
      BY <1>4, <1>5, <2>1
  <1>7. ASSUME Straight
        PROVE  /\ \A q \in Requests : q # r => Flushed(s)[q] = wire[q]
               /\ Flushed(s)[r] \in {BeginOf(r), <<head, part>>}
    <2>1. at[c] = r
      BY <1>1, <1>7 DEF Straight, IInv, SlotInv, Active, Writes
    <2>2. wire[r] = <<head>>
      BY <1>7 DEF IInv, WireInv, WireOf, BeginOf, Writes, head
    <2>3. Append(<<head>>, part) = <<head, part>>
      BY <1>3, ShortAnswers
    <2>4. CASE Flushed(s) = wire
      BY <2>2, <2>4 DEF BeginOf, head
    <2>5. CASE Flushed(s) = [wire EXCEPT ![at[c]] = Append(wire[at[c]], part)]
      BY <1>4, <2>1, <2>2, <2>3, <2>5
    <2>6. QED
      BY <1>5, <2>4, <2>5
  <1>8. QED
    BY <1>3, <1>6, <1>7 DEF head

(* The handler is done with the page, or a client killed the session.      *)
LEMMA Ends ==
  ASSUME IInv, NEW r \in Requests, Finish(r) \/ KillSession(r)
  PROVE  IInv'
  <1> DEFINE s == req[r].ses
  <1>1. /\ Writes(r) /\ wire' = Flushed(s) /\ req' = [req EXCEPT ![r].phase = "served"]
        /\ UNCHANGED <<at, body, printed>>
    BY DEF Finish, KillSession, Serves, Writes
  <1>2. req \in [Requests -> Request] /\ sess \in [Requests -> Session]
    BY DEF IInv, WellFormed
  <1>3. s \in Requests /\ s # NULL /\ sess[s].state # "none"
    BY <1>1, <1>2 DEF IInv, SesInv, Works, Writes, Request, OrNull
  <1>4. /\ req' \in [Requests -> Request]
        /\ \A q \in Requests : q # r => req'[q] = req[q]
        /\ req'[r].phase = "served"
        /\ \A q \in Requests :
             /\ req'[q].ses = req[q].ses /\ req'[q].seen = req[q].seen /\ req'[q].slot = req[q].slot
             /\ req'[q].kind = req[q].kind /\ req'[q].absent = req[q].absent
             /\ req'[q].asked = req[q].asked /\ req'[q].over = req[q].over
             /\ req'[q].got = req[q].got
    <2>1. req' \in [Requests -> Request]
      BY <1>1, <1>2, RequestEdits DEF Phases
    <2>2. QED
      BY <1>1, <1>2, <2>1 DEF Request
  <1>5. /\ sess' \in [Requests -> Session]
        /\ \A q \in Requests : q # s => sess'[q] = sess[q]
        /\ sess'[s].state # "none" /\ sess'[s].response = NULL
        /\ sess'[s].id = sess[s].id /\ sess'[s].slot = sess[s].slot
    <2>1. PICK z \in Session : /\ sess' = [sess EXCEPT ![s] = z]
                               /\ z.state # "none" /\ z.response = NULL
                               /\ z.id = sess[s].id /\ z.slot = sess[s].slot
      <3>1. CASE Finish(r)
        <4> DEFINE t == IF req[r].phase = "parsing" THEN "ready" ELSE sess[s].state
        <4>1. sess' = [sess EXCEPT ![s] = [sess[s] EXCEPT !.response = NULL, !.state = t]]
          BY <3>1 DEF Finish, StateAfter
        <4>2. t \in States /\ t # "none"
          BY <1>2, <1>3 DEF Session, States
        <4> HIDE DEF t
        <4>3. [sess[s] EXCEPT !.response = NULL, !.state = t] \in Session
          BY <1>2, <1>3, <4>2, SessionEdits
        <4>4. QED
          BY <1>2, <1>3, <4>1, <4>2, <4>3 DEF Session
      <3>2. CASE KillSession(r)
        <4>1. sess' = [sess EXCEPT ![s] = Destroyed(sess[s])]
          BY <3>2 DEF KillSession
        <4>2. Destroyed(sess[s]) \in Session
          BY <1>2, <1>3, SessionEdits
        <4>3. QED
          BY <1>2, <1>3, <4>1, <4>2 DEF Session, Destroyed
      <3>3. QED
        BY <3>1, <3>2
    <2>2. QED
      BY <1>2, <1>3, <2>1
  <1> HIDE DEF s
  <1>6. \A q \in Requests : sess'[q].id = sess[q].id /\ sess'[q].slot = sess[q].slot
    BY <1>5
  <1>7. \A q \in Requests : req[q].ses # NULL => req[q].ses \in Requests
    BY <1>2 DEF Request, OrNull
  <1>8. WellFormed'
    <2>1. wire' \in [Requests -> Seq(Message)]
      BY <1>1, Flushes DEF s
    <2>2. \A q \in Requests : sess'[q].state # "none" => sess'[q].id # NULL /\ sess'[q].slot # NULL
      BY <1>3, <1>5, <1>6 DEF IInv, WellFormed
    <2>3. QED
      BY <1>1, <1>4, <1>5, <2>1, <2>2 DEF IInv, WellFormed
  <1>9. BufferHolds'
    BY <1>5 DEF IInv, BufferHolds
  <1>10. SlotInv' /\ OverInv' /\ ErrorFitsPage'
    BY <1>1, <1>4 DEF IInv, SlotInv, Active, Writes, OverInv, ErrorFitsPage
  <1>11. SesInv'
    <2>1. \A q \in Requests : req[q].phase \in {"new", "arrived"} => q # s
      BY <1>3 DEF IInv, SesInv
    <2>2. \A q \in Requests : req'[q].phase \in {"new", "arrived", "accepted", "waiting"} => q # r
      BY <1>4
    <2>3. \A q \in Requests : sess'[q].state = "none" => sess'[q].id = NULL
      BY <1>3, <1>5 DEF IInv, SesInv
    <2>4. \A q \in Requests : req[q].ses # NULL => sess'[req[q].ses].state # "none"
      BY <1>3, <1>5, <1>7 DEF IInv, SesInv
    <2>5. \A q \in Requests :
            req'[q].phase \in {"accepted", "waiting"} \/ Works(q)' => req'[q].ses # NULL
      BY <1>3, <1>4 DEF IInv, SesInv, Works, s
    <2>6. QED
      BY <1>1, <1>4, <1>5, <2>1, <2>2, <2>3, <2>4, <2>5 DEF IInv, SesInv
  <1>12. MutexInv'
    <2>1. \A q \in Requests : Works(q)' => Works(q)
      BY <1>1, <1>4 DEF Works, Writes
    <2>2. QED
      BY <1>4, <2>1 DEF IInv, MutexInv
  <1>13. \A q \in Requests : Writes(q)' =>
           /\ q # r /\ Writes(q) /\ req[q].ses \in Requests
           /\ sess'[req[q].ses] = sess[req[q].ses]
    BY <1>1, <1>4, <1>5, <1>7 DEF IInv, MutexInv, SesInv, Works, Writes, s
  <1>14. TextInv' /\ LibraryInv'
    BY <1>1, <1>4, <1>13 DEF IInv, TextInv, LibraryInv
  <1>15. Straight' => Straight
    BY <1>4, <1>6, <1>7 DEF Straight
  <1>16. WireInv'
    <2> SUFFICES ASSUME Straight', NEW q \in Requests
                 PROVE  WireOf(q)'
      BY DEF WireInv
    <2>1. WireOf(q)
      BY <1>15 DEF IInv, WireInv
    <2>2. CASE q # r
      <3>1. wire'[q] = wire[q]
        BY <1>1, <1>15, <2>2, Flushes DEF s
      <3>2. QED
        BY <1>1, <1>4, <2>1, <2>2, <3>1 DEF WireOf, BeginOf
    <2>3. CASE q = r
      <3>1. wire'[r] \in {BeginOf(r), <<HeadPart(FALSE), BodyPart(printed[r])>>}
        BY <1>1, <1>15, Flushes DEF s
      <3>2. QED
        BY <1>1, <1>4, <2>3, <3>1 DEF WireOf, BeginOf
    <2>4. QED
      BY <2>2, <2>3
  <1>17. UploadInv'
    BY <1>1, <1>4, <1>15 DEF IInv, UploadInv
  <1>18. FieldsFound'
    BY <1>4, <1>15 DEF IInv, FieldsFound
  <1>19. QED
    BY <1>8, <1>9, <1>10, <1>11, <1>12, <1>14, <1>16, <1>17, <1>18 DEF IInv

(* The handler returns.                                                    *)
LEMMA Closes ==
  ASSUME IInv, NEW r \in Requests, Close(r)
  PROVE  IInv'
  <1> DEFINE s == req[r].ses
  <1>1. /\ req[r].phase = "served" /\ req' = [req EXCEPT ![r].phase = "closed"]
        /\ at' = Left(r) /\ body' = [body EXCEPT ![req[r].slot] = "none"]
        /\ UNCHANGED <<wire, printed>>
    BY DEF Close
  <1>2. /\ req \in [Requests -> Request] /\ sess \in [Requests -> Session]
        /\ at \in [Contexts -> OrNull(Requests)] /\ body \in [Contexts -> Bytes]
    BY DEF IInv, WellFormed
  <1>3. s \in Requests /\ s # NULL /\ sess[s].state # "none"
    BY <1>1, <1>2 DEF IInv, SesInv, Works, Request, OrNull
  <1>4. /\ req' \in [Requests -> Request]
        /\ \A q \in Requests : q # r => req'[q] = req[q]
        /\ req'[r].phase = "closed"
        /\ \A q \in Requests :
             /\ req'[q].ses = req[q].ses /\ req'[q].seen = req[q].seen /\ req'[q].slot = req[q].slot
             /\ req'[q].kind = req[q].kind /\ req'[q].absent = req[q].absent
             /\ req'[q].asked = req[q].asked /\ req'[q].over = req[q].over
             /\ req'[q].got = req[q].got
    <2>1. req' \in [Requests -> Request]
      BY <1>1, <1>2, RequestEdits DEF Phases
    <2>2. QED
      BY <1>1, <1>2, <2>1 DEF Request
  <1>5. /\ sess' \in [Requests -> Session]
        /\ \A q \in Requests : q # s => sess'[q] = sess[q]
        /\ sess'[s].state # "none" /\ sess'[s].response \in {sess[s].response, NULL}
        /\ sess'[s].id = sess[s].id /\ sess'[s].slot = sess[s].slot
    <2>1. CASE sess[s].state = "init"
      <3>1. sess' = [sess EXCEPT ![s] = Destroyed(sess[s])]
        BY <2>1 DEF Close
      <3>2. Destroyed(sess[s]) \in Session
        BY <1>2, <1>3, SessionEdits
      <3>3. /\ Destroyed(sess[s]).state = "killed" /\ Destroyed(sess[s]).response = NULL
            /\ Destroyed(sess[s]).id = sess[s].id /\ Destroyed(sess[s]).slot = sess[s].slot
        BY <1>2, <1>3 DEF Session, Destroyed
      <3>4. QED
        BY <1>2, <1>3, <3>1, <3>2, <3>3
    <2>2. CASE sess[s].state # "init"
      BY <1>2, <1>3, <2>2 DEF Close
    <2>3. QED
      BY <2>1, <2>2
  <1> HIDE DEF s
  <1>6. \A q \in Requests : sess'[q].id = sess[q].id /\ sess'[q].slot = sess[q].slot
    BY <1>5
  <1>7. \A q \in Requests : req[q].ses # NULL => req[q].ses \in Requests
    BY <1>2 DEF Request, OrNull
  <1>8. req[r].slot \in Contexts /\ at[req[r].slot] = r
    BY <1>1 DEF IInv, SlotInv, Active
  <1>9. /\ at' \in [Contexts -> OrNull(Requests)] /\ body' \in [Contexts -> Bytes]
        /\ \A c \in Contexts : c # req[r].slot => at'[c] = at[c] /\ body'[c] = body[c]
    BY <1>1, <1>2, <1>8 DEF Left, OrNull, Bytes
  <1>10. WellFormed'
    <2>1. \A q \in Requests : sess'[q].state # "none" => sess'[q].id # NULL /\ sess'[q].slot # NULL
      BY <1>3, <1>5, <1>6 DEF IInv, WellFormed
    <2>2. QED
      BY <1>1, <1>4, <1>5, <1>9, <2>1 DEF IInv, WellFormed
  <1>11. BufferHolds'
    BY <1>5 DEF IInv, BufferHolds
  <1>12. \A q \in Requests : q # r /\ Active(q) =>
           /\ req[q].slot \in Contexts /\ req[q].slot # req[r].slot /\ at[req[q].slot] = q
    BY <1>8 DEF IInv, SlotInv
  <1>13. SlotInv'
    BY <1>4, <1>9, <1>12 DEF SlotInv, Active
  <1>14. OverInv' /\ ErrorFitsPage'
    BY <1>1, <1>4 DEF IInv, OverInv, ErrorFitsPage
  <1>15. SesInv'
    <2>1. \A q \in Requests : req[q].phase \in {"new", "arrived"} => q # s
      BY <1>3 DEF IInv, SesInv
    <2>2. \A q \in Requests : req'[q].phase # "closed" => q # r
      BY <1>4
    <2>3. \A q \in Requests : sess'[q].state = "none" => sess'[q].id = NULL
      BY <1>3, <1>5 DEF IInv, SesInv
    <2>4. \A q \in Requests : req[q].ses # NULL => sess'[req[q].ses].state # "none"
      BY <1>3, <1>5, <1>7 DEF IInv, SesInv
    <2>5. \A q \in Requests : Works(q)' => q # r /\ Works(q)
      BY <1>4 DEF Works
    <2>6. QED
      BY <1>1, <1>4, <1>5, <2>1, <2>2, <2>3, <2>4, <2>5 DEF IInv, SesInv
  <1>16. MutexInv'
    BY <1>4 DEF IInv, MutexInv, Works
  <1>17. \A q \in Requests : Writes(q)' =>
           /\ q # r /\ Writes(q) /\ req[q].ses \in Requests
           /\ sess'[req[q].ses] = sess[req[q].ses]
    BY <1>1, <1>4, <1>5, <1>7 DEF IInv, MutexInv, SesInv, Works, Writes, s
  <1>18. TextInv' /\ LibraryInv'
    BY <1>1, <1>4, <1>17 DEF IInv, TextInv, LibraryInv
  <1>19. Straight' => Straight
    BY <1>4, <1>6, <1>7 DEF Straight
  <1>20. WireInv'
    <2> SUFFICES ASSUME Straight', NEW q \in Requests
                 PROVE  WireOf(q)'
      BY DEF WireInv
    <2>1. WireOf(q)
      BY <1>19 DEF IInv, WireInv
    <2>2. CASE q = r
      BY <1>1, <1>4, <2>1, <2>2 DEF WireOf, BeginOf
    <2>3. CASE q # r
      BY <1>1, <1>4, <2>1, <2>3 DEF WireOf, BeginOf
    <2>4. QED
      BY <2>2, <2>3
  <1>21. UploadInv'
    BY <1>4, <1>9, <1>12, <1>19 DEF IInv, UploadInv, Active
  <1>22. FieldsFound'
    BY <1>4, <1>19 DEF IInv, FieldsFound
  <1>23. QED
    BY <1>10, <1>11, <1>13, <1>14, <1>15, <1>16, <1>18, <1>20, <1>21, <1>22 DEF IInv
-----------------------------------------------------------------------------
LEMMA Start == Init => IInv
  <1> SUFFICES ASSUME Init PROVE IInv
    OBVIOUS
  <1>1. Fresh("new", "page", NULL, NULL, 0) \in Request
    BY FieldFacts DEF Fresh, Request, Phases, Kinds, Gets, OrNull
  <1>2. Unmade \in Session
    BY DEF Unmade, Session, States, OrNull, NOTHING, LIBRARY
  <1> DEFINE z == Fresh("new", "page", NULL, NULL, 0)
  <1>3. z.phase = "new" /\ z.ses = NULL /\ z.seen = NULL /\ z.asked = 0 /\ ~z.over
    BY DEF Fresh
  <1>4. Unmade.state = "none" /\ Unmade.id = NULL /\ Unmade.response = NULL
    BY DEF Unmade
  <1> HIDE DEF z
  <1>5. \A r \in Requests : /\ req[r] = z /\ sess[r] = Unmade
                            /\ wire[r] = <<>> /\ printed[r] = <<>>
    BY DEF Init, z
  <1>6. WellFormed
    <2>1. at \in [Contexts -> OrNull(Requests)] /\ body \in [Contexts -> Bytes]
      BY DEF Init, OrNull, Bytes
    <2>2. req \in [Requests -> Request] /\ sess \in [Requests -> Session]
      BY <1>1, <1>2 DEF Init
    <2>3. wire \in [Requests -> Seq(Message)] /\ printed \in [Requests -> Seq(Item)]
      <3>1. <<>> \in Seq(Message) /\ <<>> \in Seq(Item)
        OBVIOUS
      <3>2. QED
        BY <3>1 DEF Init
    <2>4. QED
      BY <1>4, <1>5, <2>1, <2>2, <2>3 DEF WellFormed
  <1>7. BufferHolds /\ SlotInv /\ SesInv /\ MutexInv /\ TextInv /\ LibraryInv
    BY <1>3, <1>4, <1>5 DEF BufferHolds, SlotInv, SesInv, MutexInv, TextInv, LibraryInv,
                            Active, Works, Writes
  <1>8. ErrorFitsPage
    BY <1>3, <1>5, ExchangeAssumption, NullAssumption DEF ErrorFitsPage, Kinds
  <1>9. OverInv /\ UploadInv /\ FieldsFound
    BY <1>3, <1>5 DEF OverInv, UploadInv, FieldsFound
  <1>10. \A r \in Requests : WireOf(r)
    BY <1>3, <1>5 DEF WireOf
  <1>11. QED
    BY <1>6, <1>7, <1>8, <1>9, <1>10 DEF IInv, WireInv

LEMMA Step == IInv /\ [Next]_vars => IInv'
  <1> SUFFICES ASSUME IInv, [Next]_vars PROVE IInv'
    OBVIOUS
  <1>1. CASE UNCHANGED <<at, req, sess, body, wire, printed>>
    <2>1. UNCHANGED <<at, req, sess, body, wire, printed>>
      BY <1>1
    <2>2. WellFormed' /\ BufferHolds' /\ SlotInv' /\ SesInv' /\ MutexInv'
      BY <2>1 DEF IInv, WellFormed, BufferHolds, SlotInv, SesInv, MutexInv, Active, Works
    <2>3. TextInv' /\ LibraryInv' /\ ErrorFitsPage' /\ OverInv'
      BY <2>1 DEF IInv, TextInv, LibraryInv, ErrorFitsPage, OverInv, Writes
    <2>4. Straight' => Straight
      BY <2>1 DEF Straight
    <2>5. UploadInv' /\ FieldsFound'
      BY <2>1, <2>4 DEF IInv, UploadInv, FieldsFound
    <2>6. \A r \in Requests : WireOf(r) => WireOf(r)'
      BY <2>1 DEF WireOf, BeginOf
    <2>7. WireInv'
      BY <2>4, <2>6 DEF IInv, WireInv
    <2>8. QED
      BY <2>2, <2>3, <2>5, <2>7 DEF IInv
  <1>2. ASSUME NEW r \in Requests, NEW c \in Contexts, Arrive(r, c)
        PROVE  IInv'
    BY <1>2, Arrives
  <1>3. ASSUME NEW r \in Requests, Work(r)
        PROVE  IInv'
    BY <1>3, OtherFiles, Accepts, Sweeps, Begins, PrintsAny, PageSteps, LooksUp, Ends, Closes DEF Work
  <1>4. ASSUME NEW r \in Requests, Handle(r)
        PROVE  IInv'
    BY <1>1, <1>3, <1>4 DEF Handle, Live, Crash
  <1>5. QED
    BY <1>1, <1>2, <1>4 DEF Next, Live, vars

LEMMA Invariant == Spec => []IInv
  BY Start, Step, PTL DEF Spec

(* Types: every request, session, buffer and message is well formed.       *)
THEOREM Typed == Spec => []TypeOK
  <1>1. IInv => WellFormed
    BY DEF IInv
  <1>2. Init => crashed \in BOOLEAN
    BY DEF Init
  <1>3. crashed \in BOOLEAN /\ [Next]_vars => (crashed \in BOOLEAN)'
    BY DEF Next, Handle, Live, Crash, vars
  <1>4. QED
    BY <1>1, <1>2, <1>3, Invariant, PTL DEF Spec, TypeOK

(* The response buffer (response.c:96-120) never overflows, whatever is    *)
(* printed and however small the chunk by which it grows.                  *)
THEOREM BufferIsLargeEnough == Spec => []BufferHolds
  <1>1. IInv => BufferHolds
    BY DEF IInv
  <1>2. QED
    BY <1>1, Invariant, PTL

(* A page's errors use the client library only where the page has loaded   *)
(* it (mkError.c, SESSION_PRINT_STEP).                                     *)
THEOREM ErrorsFitPages == Spec => []ErrorFitsPage
  <1>1. IInv => ErrorFitsPage
    BY DEF IInv
  <1>2. QED
    BY <1>1, Invariant, PTL

(* Where sessions keep to one context, an upload's fields are found        *)
(* (dispatcherBig.c:24-49, 126-208).                                       *)
THEOREM UploadFieldsFound == Spec => []FieldsFound
  <1>1. IInv => FieldsFound
    BY DEF IInv
  <1>2. QED
    BY <1>1, Invariant, PTL

(* What WireInv says of one request: at most a head and a body.            *)
LEMMA WireCases ==
  ASSUME IInv, Straight, NEW r \in Requests
  PROVE  \/ wire[r] = <<>>
         \/ \E b \in BOOLEAN : wire[r] = <<HeadPart(b)>>
         \/ /\ req[r].kind = "file"
            /\ wire[r] = <<HeadPart(FALSE), BodyPart(<<>>)>>
         \/ wire[r] = <<HeadPart(FALSE), BodyPart(printed[r])>>
  <1>1. req[r].phase \in Phases
    BY DEF IInv, WellFormed, Request
  <1>2. QED
    BY <1>1 DEF IInv, WireInv, WireOf, BeginOf, Phases

LEMMA Parts ==
  /\ \A b \in BOOLEAN : HeadPart(b).part = "head" /\ HeadPart(b).last = b
  /\ \A t : BodyPart(t).part = "body" /\ BodyPart(t).text = t
  BY DEF HeadPart, BodyPart

(* Where sessions keep to one context, a client gets one answer            *)
(* (HandleFrmxRequest.c:83, response.c:187-205).                           *)
THEOREM AnswersComeOnce == Spec => []AnsweredOnce
  <1>1. IInv => AnsweredOnce
    <2> DEFINE Once(w) == /\ Len(w) <= 2
                          /\ \A i \in 1 .. Len(w) :
                               /\ w[i].part = (IF i = 1 THEN "head" ELSE "body")
                               /\ i > 1 => ~w[i - 1].last
    <2>1. Once(<<>>)
      OBVIOUS
    <2>2. ASSUME NEW b \in BOOLEAN
          PROVE  Once(<<HeadPart(b)>>)
      <3> DEFINE head == HeadPart(b)
      <3>1. head.part = "head"
        BY Parts
      <3> HIDE DEF head
      <3>2. Once(<<head>>)
        BY <3>1
      <3>3. QED
        BY <3>2 DEF head
    <2>3. ASSUME NEW t
          PROVE  Once(<<HeadPart(FALSE), BodyPart(t)>>)
      <3> DEFINE head == HeadPart(FALSE)
                 part == BodyPart(t)
      <3>1. head.part = "head" /\ ~head.last /\ part.part = "body"
        BY Parts
      <3> HIDE DEF head, part
      <3>2. \A i \in 1 .. 2 : i = 1 \/ i = 2
        OBVIOUS
      <3>3. Once(<<head, part>>)
        BY <3>1, <3>2
      <3>4. QED
        BY <3>3 DEF head, part
    <2> HIDE DEF Once
    <2>4. ASSUME IInv, Straight, NEW r \in Requests
          PROVE  Once(wire[r])
      BY <2>1, <2>2, <2>3, <2>4, WireCases
    <2>5. QED
      BY <2>4 DEF AnsweredOnce, Once
  <1>2. QED
    BY <1>1, Invariant, PTL

(* Where sessions keep to one context, the body of an answer is the whole  *)
(* of what was printed for its request (response.c:96-120, 187-205).       *)
THEOREM AnswersAreWhole == Spec => []AnswerWhole
  <1>1. IInv => AnswerWhole
    <2> SUFFICES ASSUME IInv, Straight, NEW r \in Requests, NEW i \in 1 .. Len(wire[r]),
                        req[r].kind # "file", wire[r][i].part = "body"
                 PROVE  wire[r][i].text = printed[r]
      BY DEF AnswerWhole
    <2>1. CASE wire[r] = <<>>
      BY <2>1
    <2>2. CASE \E b \in BOOLEAN : wire[r] = <<HeadPart(b)>>
      <3>1. PICK b \in BOOLEAN : wire[r] = <<HeadPart(b)>>
        BY <2>2
      <3>2. i = 1 /\ wire[r][1] = HeadPart(b)
        BY <3>1
      <3>3. QED
        BY <3>2, Parts
    <2>3. CASE wire[r] = <<HeadPart(FALSE), BodyPart(printed[r])>>
      <3>1. Len(wire[r]) = 2 /\ wire[r][1] = HeadPart(FALSE) /\ wire[r][2] = BodyPart(printed[r])
        BY <2>3
      <3>2. i = 1 \/ i = 2
        BY <3>1
      <3>3. QED
        BY <3>1, <3>2, Parts
    <2>4. QED
      BY <2>1, <2>2, <2>3, WireCases
  <1>2. QED
    BY <1>1, Invariant, PTL

(* As long as each session keeps to one context, a client gets exactly one *)
(* answer, which is what was printed for it.                               *)
THEOREM AnswersOnceAndWhole == Spec => []OneWholeAnswer
  BY AnswersComeOnce, AnswersAreWhole, PTL DEF OneWholeAnswer
=============================================================================
