---------------------------- MODULE FunctionBodies ----------------------------
(***************************************************************************)
(* How the text of an HTSQL function is run: the lexer's states, the text  *)
(* collected for if and while and parsed again, the counter that matches   *)
(* if, else and end if, the line number the debugger is told, and where a  *)
(* debugger that is attached stops.                                        *)
(*                                                                         *)
(* A text is a sequence of tokens; what is collected of it is a sequence   *)
(* of positions in the body of the function.  A parse is a record in       *)
(* scans: parses nest, and the innermost one moves.  The parser reduces a  *)
(* rule when the token after it arrives, so a loop runs when its end has   *)
(* been read and the next token too.                                       *)
(*                                                                         *)
(* Function f calls f + 1 only.  Values, arguments and triggers are        *)
(* FunctionCalls.  A body nests as the grammar has it (another is a syntax *)
(* error); a branch is not empty and loops do not nest: the lexer's LOOP   *)
(* state does not count them.                                              *)
(***************************************************************************)
EXTENDS Integers, Sequences, FiniteSets

CONSTANTS
  N,            \* functions 1 .. N
  Bodies,       \* programs: a body for each function
  Points,       \* places where a breakpoint may be set
  MaxLeft       \* bound on ifCounter: beyond it no request starts and no loop goes on

Functions == 1 .. N

Token == {"stmt", "call", "bad", "return", "nl", "comment", "test",
          "if", "then", "else", "endif", "while", "loop", "endloop"}

Steps == {"continue", "over", "in", "out"}                \* Debug_Step_Type

Point == [fn : Functions, line : Nat, temporary : BOOLEAN]

ASSUME BodiesAssumption ==
  /\ N \in Nat \ {0} /\ MaxLeft \in Nat
  /\ Bodies \subseteq [Functions -> Seq(Token)] /\ Points \subseteq Point

(* How bodies nest: the ifs open behind position p of b; a p that is        *)
(* followed by q, and by nothing else of the structure before it.          *)
Structure == {"if", "then", "else", "endif", "while", "loop", "endloop"}

Level(b, p) == Cardinality({k \in 1 .. p : b[k] = "if"}) - Cardinality({k \in 1 .. p : b[k] = "endif"})

Leads(b, p, q) == p < q /\ \A r \in p + 1 .. q - 1 : b[r] \notin Structure

IfsNest(b) ==
  /\ Level(b, Len(b)) = 0
  /\ \A p \in 1 .. Len(b) :
       /\ Level(b, p) >= 0
       /\ b[p] = "if" => \E q \in 1 .. Len(b) : b[q] = "then" /\ Leads(b, p, q)
       /\ b[p] = "then" => \E q \in 1 .. Len(b) : b[q] = "if" /\ Leads(b, q, p)
       /\ b[p] = "else" => \E q \in 1 .. p - 1 :
            /\ b[q] = "then" /\ Level(b, q) = Level(b, p)
            /\ \A r \in q + 1 .. p - 1 :
                 Level(b, r) >= Level(b, p) /\ (b[r] = "else" => Level(b, r) > Level(b, p))

LoopsNest(b) ==
  \A p \in 1 .. Len(b) :
    /\ b[p] = "while" => \E q \in 1 .. Len(b) : b[q] = "loop" /\ Leads(b, p, q)
    /\ b[p] = "loop" => \E q \in p + 1 .. Len(b) :
         /\ b[q] = "endloop" /\ Level(b, q) = Level(b, p)
         /\ \A r \in p + 1 .. q - 1 :
              /\ b[r] \notin {"while", "loop", "endloop"} /\ Level(b, r) >= Level(b, p)
              /\ b[r] = "else" => Level(b, r) > Level(b, p)

ASSUME NestingAssumption == \A bs \in Bodies, f \in Functions : IfsNest(bs[f]) /\ LoopsNest(bs[f])

VARIABLES
  body,          \* the program
  frames,        \* the call stack: function, lineNumberInner, functionDebugStepType
  scans,         \* the parses under way
  ifCounter,     \* of the page
  condition,     \* page->conditionEvaluationResult
  stopped,       \* page->stopParsing
  breakpoints,   \* those in state ACTIVE
  step,          \* sessionDebugStepType
  halted,        \* in OutputDebugString, at the debugger's mercy
  reach,         \* ghost: the depth the debugger asked to stop at
  torn           \* ghost: was a parse given up between if and end if?

debugger == <<breakpoints, step, halted, reach>>
vars == <<body, frames, scans, ifCounter, condition, stopped, debugger, torn>>

Side == {"yes", "no"}

Frame == [fn : Functions, inner : Nat, step : {"continue", "over"}, returned : BOOLEAN,
          announced : Nat, taken : SUBSET (Nat \X Side)]       \* ghosts: the line told, the sides

Modes == {"initial", "if", "then", "while", "loop", "pending"}
Uses  == {"body", "condition", "branch", "loop", "again"}     \* what a parse is made for

(* A parse: the depth of its function; its text and place in it; the        *)
(* condition and the branches or the loop it collects; the if it is in, and*)
(* the line there; the local backup of the condition; has the next if been *)
(* counted already?  As a ghost, the counter when the parse began.         *)
Scan == [use : Uses, depth : Nat, text : Seq(Nat), pos : Nat, mode : Modes, cond : Seq(Nat),
         yes : Seq(Nat), no : Seq(Nat), else : BOOLEAN, at : Nat, line : Nat,
         backup : BOOLEAN, counted : BOOLEAN, ifs : Int]

NewScan(use, depth, text) ==
  [use |-> use, depth |-> depth, text |-> text, pos |-> 1, mode |-> "initial", cond |-> <<>>, yes |-> <<>>,
   no |-> <<>>, else |-> FALSE, at |-> 0, line |-> 0, backup |-> FALSE,
   counted |-> FALSE, ifs |-> ifCounter']

Depth == Len(frames)
Frm   == frames[Depth]
Scn   == scans[Len(scans)]
Fn    == Frm.fn
Here  == IF Scn.pos <= Len(Scn.text) THEN Scn.text[Scn.pos] ELSE 0      \* 0: the end
Tok   == IF Here = 0 THEN "end" ELSE body[Fn][Here]

Whole(f)    == [k \in 1 .. Len(body[f]) |-> k]
Newlines(x) == Cardinality({k \in 1 .. Len(x) : body[Fn][x[k]] \in {"nl", "comment"}})

Parsing == frames # <<>> /\ ~halted
Going   == ~stopped /\ ~Frm.returned
Reads(modes, tokens) == Parsing /\ Going /\ Scn.mode \in modes /\ Tok \in tokens

WithScan(s) == [scans EXCEPT ![Len(scans)] = s]
Opened(s, use, text) == Append(WithScan(s), NewScan(use, Depth, text))   \* a parse inside a parse
Past(s) == [s EXCEPT !.pos = s.pos + 1]
Condition(s) == [s EXCEPT !.cond = Append(s.cond, Here), !.pos = s.pos + 1]
Collect(s) ==                  \* a line of a branch or loop
  IF s.else THEN [s EXCEPT !.no = Append(s.no, Here), !.pos = s.pos + 1]
            ELSE [s EXCEPT !.yes = Append(s.yes, Here), !.pos = s.pos + 1]
WithFrame(f) == [frames EXCEPT ![Depth] = f]

Init ==
  /\ body \in Bodies
  /\ frames = <<>> /\ scans = <<>>
  /\ ifCounter = 0 /\ condition = FALSE /\ stopped = FALSE
  /\ breakpoints \in SUBSET Points
  /\ step = "continue" /\ halted = FALSE /\ reach = 0
  /\ torn = FALSE

-----------------------------------------------------------------------------
(* The debugger: raiseBreakPointException.                                 *)

AllSteps(fs, st) == [i \in 1 .. Len(fs) |-> [fs[i] EXCEPT !.step = st]]

Settled(fs, st) ==             \* after the debugger had its say
  IF st = "continue" THEN AllSteps(fs, "continue")
  ELSE IF st = "out" THEN [fs EXCEPT ![Len(fs)] = [fs[Len(fs)] EXCEPT !.step = "continue"]]
  ELSE fs

Hits(f) == {b \in breakpoints : b.fn = f.fn /\ b.line = f.inner}

Raise(f, line) ==              \* lineNumberInner of f becomes line, and is looked up
  LET g  == [f EXCEPT !.inner = line, !.announced = line]
      fs == WithFrame(g)
  IN \/ \E b \in Hits(g) :
          /\ halted' = TRUE
          /\ frames' = AllSteps(fs, "over")
          /\ breakpoints' = IF b.temporary THEN breakpoints \ {b} ELSE breakpoints
     \/ /\ Hits(g) = {}
        /\ halted' = (g.step = "over")
        /\ frames' = IF g.step = "over" THEN fs ELSE Settled(fs, step)
        /\ UNCHANGED breakpoints

Asked(st) ==                   \* the depth down to which a command means to stop
  IF st = "continue" THEN 0
  ELSE IF st = "over" THEN Depth
  ELSE IF st = "out" THEN Depth - 1
  ELSE N

Resume(st) ==                  \* the debugger sets the step type and lets go
  /\ halted
  /\ step' = st /\ halted' = FALSE
  /\ frames' = Settled(frames, st)
  /\ reach' = Asked(st)
  /\ UNCHANGED <<body, scans, ifCounter, condition, stopped, breakpoints, torn>>

ClearAllBreakpoints ==         \* a command of the pipe's thread, at any time
  /\ breakpoints # {}
  /\ breakpoints' = {}
  /\ UNCHANGED <<body, frames, scans, ifCounter, condition, stopped, step, halted, reach, torn>>

-----------------------------------------------------------------------------
(* Calls: runPostFunctionFast.                                             *)

SteppedOver == IF step \in {"in", "over"} THEN "over" ELSE "continue"
SteppedInto == IF step = "in" THEN "over" ELSE "continue"

NewFrame(f) ==
  [fn |-> f, inner |-> 0, step |-> SteppedInto, returned |-> FALSE, announced |-> 0, taken |-> {}]

Start(f) ==                    \* a request or a trigger runs a function
  /\ frames = <<>> /\ ifCounter <= MaxLeft
  /\ frames' = <<NewFrame(f)>>
  /\ stopped' = FALSE /\ UNCHANGED ifCounter
  /\ scans' = <<NewScan("body", 1, Whole(f))>>
  /\ UNCHANGED <<body, condition, debugger, torn>>

Call ==
  /\ Reads({"initial"}, {"call"}) /\ Fn < N
  /\ frames' = Append(frames, NewFrame(Fn + 1))
  /\ UNCHANGED ifCounter
  /\ scans' = Append(WithScan(Past(Scn)), NewScan("body", Depth + 1, Whole(Fn + 1)))
  /\ UNCHANGED <<body, condition, stopped, debugger, torn>>

EndBody ==                     \* and cleanUpFunctionStack
  /\ frames' = SubSeq(frames, 1, Depth - 1)
  /\ step' = IF Depth = 1 THEN "continue" ELSE step
  /\ reach' = IF Depth = 1 THEN 0
              ELSE IF step = "in" \/ reach < Depth THEN reach
              ELSE Depth - 1
  /\ UNCHANGED <<condition, stopped, breakpoints, halted>>

-----------------------------------------------------------------------------
(* Tokens of a text in the lexer's initial state.                          *)

Newline ==
  /\ Reads({"initial", "pending"}, {"nl"})
  /\ scans' = WithScan(Past(Scn))
  /\ Raise(Frm, Frm.inner + 1)
  /\ UNCHANGED <<body, ifCounter, condition, stopped, step, reach, torn>>

Statement ==                   \* the newline of a comment is not counted
  /\ \/ Reads({"initial"}, {"stmt", "test", "comment"})
     \/ Reads({"initial"}, {"call"}) /\ Fn = N
  /\ scans' = WithScan(Past(Scn))
  /\ UNCHANGED <<body, frames, ifCounter, condition, stopped, debugger, torn>>

BadStatement ==                \* an unknown variable: stopPostParserWithMessage
  /\ Reads({"initial"}, {"bad"})
  /\ stopped' = TRUE
  /\ UNCHANGED <<body, frames, scans, ifCounter, condition, debugger, torn>>

Return ==
  /\ Reads({"initial"}, {"return"})
  /\ frames' = WithFrame([Frm EXCEPT !.returned = TRUE])
  /\ UNCHANGED <<body, scans, ifCounter, condition, stopped, debugger, torn>>

-----------------------------------------------------------------------------
(* if ... then ... else ... end if.                                        *)

NotCounted == ifCounter
NotEnded   == ifCounter
OneMore == ifCounter + 1
OneLess == ifCounter - 1

If ==
  /\ Reads({"initial"}, {"if"})
  /\ ifCounter' = IF Scn.counted THEN ifCounter ELSE OneMore
  /\ scans' = WithScan([Past(Scn) EXCEPT !.mode = "if", !.cond = <<>>, !.yes = <<>>, !.no = <<>>,
                                         !.else = FALSE, !.counted = FALSE])
  /\ UNCHANGED <<body, frames, condition, stopped, debugger, torn>>

ConditionChar ==               \* a newline matches no rule and is dropped
  /\ Reads({"if", "while"}, Token \ {"then", "loop"})
  /\ scans' = WithScan(IF Tok = "nl" THEN Past(Scn) ELSE Condition(Scn))
  /\ UNCHANGED <<body, frames, ifCounter, condition, stopped, debugger, torn>>

Then ==                        \* rawconditionstr is reduced: the condition is parsed
  /\ Reads({"if"}, {"then"})
  /\ UNCHANGED ifCounter
  /\ scans' = Opened([Past(Scn) EXCEPT !.mode = "then", !.at = Here], "condition", Scn.cond)
  /\ UNCHANGED <<body, frames, condition, stopped, debugger, torn>>

AnyElse == Tok = "else"
OwnElse == Tok = "else" /\ ifCounter = 1
OwnEnd  == Tok = "endif" /\ ifCounter = 1

IfLine ==                      \* collected; inner ifs are counted, newlines are not
  /\ Reads({"then"}, Token) /\ ~OwnElse /\ ~OwnEnd
  /\ ifCounter' = IF Tok = "if" THEN OneMore ELSE IF Tok = "endif" THEN OneLess ELSE ifCounter
  /\ scans' = WithScan(Collect(Scn))
  /\ UNCHANGED <<body, frames, condition, stopped, debugger, torn>>

Else ==
  /\ Reads({"then"}, Token) /\ OwnElse
  /\ scans' = WithScan([Past(Scn) EXCEPT !.else = TRUE])
  /\ UNCHANGED <<body, frames, ifCounter, condition, stopped, debugger, torn>>

EndIf == Reads({"then"}, Token) /\ OwnEnd /\ ifCounter' = OneLess

Taking(side) ==
  [Frm EXCEPT !.taken = {t \in Frm.taken : t[1] # Scn.at} \cup {<<Scn.at, side>>}]

AfterIf == [Past(Scn) EXCEPT !.mode = "initial", !.line = Frm.inner, !.backup = condition]

RunTrueBlock ==
  /\ EndIf /\ condition
  /\ scans' = Opened(AfterIf, "branch", Scn.yes)
  /\ frames' = WithFrame(Taking("yes"))
  /\ UNCHANGED <<body, condition, stopped, debugger, torn>>

SkipTrueBlock ==               \* no else: the lines are counted and told at once
  /\ EndIf /\ ~condition /\ ~Scn.else
  /\ scans' = WithScan(AfterIf)
  /\ Raise(Taking("no"), Frm.inner + Newlines(Scn.yes))
  /\ UNCHANGED <<body, condition, stopped, step, reach, torn>>

RunFalseBlock ==
  /\ EndIf /\ ~condition /\ Scn.else
  /\ scans' = Opened(AfterIf, "branch", Scn.no)
  /\ frames' = WithFrame([Taking("no") EXCEPT !.inner = Frm.inner + Newlines(Scn.yes)])
  /\ UNCHANGED <<body, condition, stopped, debugger, torn>>

Below == scans[Len(scans) - 1]        \* the parse that made this one

LineAfterYes == Below.line + Newlines(Below.yes)
LineAfter == Below.line + Newlines(Below.yes) + Newlines(Below.no)

EndBranch ==                   \* reduceifTrueAndFalseBlock and what follows it
  /\ condition' = Below.backup
  /\ IF Below.else /\ Below.backup THEN Raise(Frm, LineAfter)
                                   ELSE UNCHANGED <<frames, breakpoints, halted>>
  /\ UNCHANGED <<stopped, step, reach>>

-----------------------------------------------------------------------------
(* while ... loop ... end loop.                                            *)

While ==
  /\ Reads({"initial"}, {"while"})
  /\ scans' = WithScan([Past(Scn) EXCEPT !.mode = "while", !.cond = <<>>, !.yes = <<>>, !.else = FALSE])
  /\ UNCHANGED <<body, frames, ifCounter, condition, stopped, debugger, torn>>

Loop ==                        \* the condition is parsed
  /\ Reads({"while"}, {"loop"})
  /\ UNCHANGED ifCounter
  /\ scans' = Opened([Past(Scn) EXCEPT !.mode = "loop"], "condition", Scn.cond)
  /\ UNCHANGED <<body, frames, condition, stopped, debugger, torn>>

LoopLine ==
  /\ Reads({"loop"}, Token)
  /\ scans' = WithScan(IF Tok = "nl" THEN Past(Scn)
                       ELSE IF Tok = "endloop" THEN [Past(Scn) EXCEPT !.mode = "pending"]
                       ELSE Collect(Scn))
  /\ UNCHANGED <<body, frames, ifCounter, condition, stopped, debugger, torn>>

RunLoop ==                     \* loop1 is reduced when the next token is there
  /\ Reads({"pending"}, (Token \ {"nl"}) \cup {"end"})
  /\ ifCounter' = IF Tok = "if" THEN OneMore ELSE ifCounter
  /\ LET s == [Scn EXCEPT !.mode = "initial", !.counted = (Tok = "if")]
     IN scans' = IF condition THEN Opened(s, "loop", Scn.yes) ELSE WithScan(s)
  /\ UNCHANGED <<body, frames, condition, stopped, debugger, torn>>

-----------------------------------------------------------------------------
(* The end of a parse: of its text, by a return or by an error.            *)

Evaluated ==                   \* MaxLeft also bounds how often a loop goes on
  IF stopped THEN condition' = condition ELSE condition' \in {c \in BOOLEAN : c => ifCounter <= MaxLeft}

LeftOpen == scans
Closed == SubSeq(scans, 1, Len(scans) - 1)
InsteadOf(use, text) == Append(Closed, NewScan(use, Depth, text))

EndScan ==
  /\ Parsing /\ (Going => Tok = "end" /\ Scn.mode # "pending")
  /\ UNCHANGED <<body, ifCounter>>
  /\ torn' = (torn \/ (~Going /\ (Scn.mode = "then" \/ Scn.counted)))
  /\ \/ Scn.use = "body" /\ EndBody /\ scans' = Closed
     \/ Scn.use = "branch" /\ EndBranch /\ scans' = Closed
     \/ Scn.use = "condition" /\ Evaluated /\ scans' = Closed /\ UNCHANGED <<frames, stopped, debugger>>
     \/ /\ Scn.use = "loop" /\ Frm.returned
        /\ scans' = Closed
        /\ UNCHANGED <<frames, condition, stopped, debugger>>
     \/ /\ Scn.use = "loop" /\ ~Frm.returned
        /\ scans' = InsteadOf("again", Below.cond) /\ stopped' = FALSE
        /\ UNCHANGED <<frames, condition, debugger>>
     \/ /\ Scn.use = "again" /\ Evaluated
        /\ IF condition' THEN scans' = InsteadOf("loop", Below.yes) /\ stopped' = FALSE
                         ELSE scans' = Closed /\ UNCHANGED stopped
        /\ UNCHANGED <<frames, debugger>>

NewSession ==                  \* the old one is destroyed with its pages and breakpoints
  /\ frames = <<>>
  /\ ifCounter' = 0 /\ condition' = FALSE /\ stopped' = FALSE
  /\ breakpoints' = {} /\ torn' = FALSE
  /\ UNCHANGED <<body, frames, scans, step, halted, reach>>

-----------------------------------------------------------------------------
Next ==
  \/ \E f \in Functions : Start(f)
  \/ Call \/ Newline \/ Statement \/ BadStatement \/ Return
  \/ If \/ ConditionChar \/ Then \/ IfLine \/ Else \/ RunTrueBlock \/ SkipTrueBlock \/ RunFalseBlock
  \/ While \/ Loop \/ LoopLine \/ RunLoop \/ EndScan
  \/ \E st \in Steps : Resume(st)
  \/ ClearAllBreakpoints \/ NewSession

Spec == Init /\ [][Next]_vars

-----------------------------------------------------------------------------
(* Properties.                                                             *)

(* A scanner never leaves its text, and functions run only while a parse   *)
(* of their text does.                                                     *)
TypeOK ==
  /\ body \in [Functions -> Seq(Token)]
  /\ frames \in Seq(Frame) /\ Len(frames) <= N
  /\ scans \in Seq(Scan) /\ (scans = <<>> <=> frames = <<>>)
  /\ \A i \in 1 .. Len(scans) : scans[i].pos \in 1 .. Len(scans[i].text) + 1
  /\ ifCounter \in Int /\ condition \in BOOLEAN /\ stopped \in BOOLEAN
  /\ breakpoints \in SUBSET Point /\ step \in Steps /\ halted \in BOOLEAN
  /\ reach \in 0 .. N /\ torn \in BOOLEAN

(* The sides position p of a body stands on: of the thens before it whose  *)
(* if is open, the other one behind their else.                            *)
Sides(b, p) ==
  LET Around   == {k \in 1 .. p : b[k] = "then" /\ \A m \in k .. p : Level(b, m) >= Level(b, k)}
      Elsed(k) == \E e \in k .. p : b[e] = "else" /\ Level(b, e) = Level(b, k)
  IN {<<k, IF Elsed(k) THEN "no" ELSE "yes">> : k \in Around}

Running == frames # <<>> /\ Going /\ Scn.mode = "initial" /\ Here # 0

(* A statement runs only if every if around it took the side it stands on, *)
(* for all the texts cut out, nested and parsed again, and whatever        *)
(* functions, loops and conditions did to the shared counter and the shared*)
(* condition meanwhile (lexer.post.ll:543, lemon.post.yy:1187).            *)
RunsChosenSides ==
  Running => Sides(body[Fn], Here) \subseteq Frm.taken

(* No statement is silently lost: a parse gets to the end of its text      *)
(* while it still collects an if only if the counter was not 0 when it     *)
(* began (the text is that of a function called in an if's condition, or of*)
(* a loop an if follows), or an earlier parse was given up inside an if,   *)
(* without which the counter is 0 again between requests; it is never      *)
(* negative, after which no else would be found (page.ds.h:131).           *)
IfsMatched ==
  /\ frames # <<>> /\ Going /\ Here = 0 /\ Scn.mode = "then" => Scn.ifs # 0 \/ torn
  /\ frames = <<>> /\ ~torn => ifCounter = 0
  /\ ifCounter >= 0

Plain(b) ==
  /\ \A k \in 1 .. Len(b) : b[k] \notin {"comment", "while"}
  /\ \A k \in 1 .. Len(b) : b[k] = "nl" => \A i \in 1 .. k - 1 :
       b[i] = "if" => \E j \in i .. k - 1 : b[j] = "then"

TrueLine(b, p) == Cardinality({k \in 1 .. p : b[k] = "nl"})
OnLineOfElse(b, p) == \E k \in 1 .. p : b[k] = "else" /\ TrueLine(b, k) = TrueLine(b, p)

(* The debugger is told each line before its first statement runs, and the *)
(* number is right behind every branch run or skipped, if the function has *)
(* no comment, no loop and no newline in a condition, and no parse was     *)
(* given up inside an if (then a branch may lose its end, lines included); *)
(* a statement right behind an else has the right number and is not        *)
(* announced (lemon.post.yy:1198).                                         *)
LinesAnnounced ==
  Running /\ Tok # "nl" /\ Scn.use \in {"body", "branch"} /\ Plain(body[Fn]) /\ ~torn =>
    /\ Frm.inner = TrueLine(body[Fn], Here)
    /\ Frm.announced = Frm.inner \/ OnLineOfElse(body[Fn], Here)

(* A running program will stop at the next line exactly of the functions   *)
(* the last command meant: step over those on the stack then, step in any, *)
(* step out all but the one it was given in, continue none.                *)
StepsAsCommanded ==
  ~halted => \A i \in 1 .. Depth : frames[i].step = "over" <=> i <= reach
=============================================================================
