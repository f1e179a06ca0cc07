---------------------------- MODULE FunctionCalls ----------------------------
(***************************************************************************)
(* Calls of HTSQL functions of one page: the call stack, return values,    *)
(* the nested parses of if and while blocks, the stop of a parse after an  *)
(* error, and the active database connection.                              *)
(*                                                                         *)
(* A function's body is interpreted while it is parsed: an if or while     *)
(* block and its condition are parsed again as texts of their own, inside  *)
(* the parse of the body.  The program is arbitrary: at each place any     *)
(* statement may come next.  Values, SQL texts and the arguments of calls  *)
(* are abstract.                                                           *)
(***************************************************************************)
EXTENDS Integers, Sequences

CONSTANTS
  Functions,       \* HTSQL functions of the page, its triggers included
  Trigger,         \* connection_not_found, or NULL if the page has none
  HomeOf,          \* connection of the data block a function's name begins with
  Declares,        \* functions declared with a return value
  Values,          \* values of expressions, NULL apart
  Conns,           \* names of connections
  NULL,
  MaxDepth, MaxNest, MaxSteps     \* bounds: frames, blocks of a frame, statements

ASSUME ConstantsAssumption ==
  /\ HomeOf \in [Functions -> Conns \cup {NULL}]
  /\ Declares \subseteq Functions
  /\ Trigger \in Functions => HomeOf[Trigger] = NULL
  /\ Trigger \in Functions \cup {NULL}
  /\ NULL \notin Functions \cup Values \cup Conns
  /\ {MaxDepth, MaxNest, MaxSteps} \subseteq Nat

VARIABLES
  frames,      \* page->currentCallStack, the innermost call last
  stop,        \* page->stopParsing
  test,        \* page->conditionEvaluationResult
  active,      \* session->activeTAGConnection
  root,        \* session->rootTAGConnection, the connection made first
  handle,      \* mkDBConnection: "none" (no such connection), "open", "dangling"
  depth,       \* session->currentFunctionCallDepth
  crashed,     \* the process followed a NULL or freed pointer
  told,        \* ghost: what the last call gave, and what its function returned
  overtaken,   \* ghost: was a request accepted while these functions run?
  steps

pageVars == <<stop, test>>
connVars == <<active, root, handle>>
ghosts   == <<told, overtaken>>
vars == <<frames, pageVars, connVars, depth, crashed, ghosts, steps>>

OrNull(S) == S \cup {NULL}

Kinds == {"body", "if", "loop",               \* parses of statements
          "ifCond", "loopCond", "again",      \* parses of a condition
          "return",                           \* the rest of a return statement
          "handler"}                          \* a statement whose C code runs triggers

Block == [kind : Kinds, saved : BOOLEAN]

Frame ==
  [fn        : Functions,
   by        : {"engine", "htsql", "connect"},   \* who reads the result
   used      : {"no", "plain", "args"},          \* an operand? without or with arguments
   phase     : {"enter", "connect", "run"},
   slot      : OrNull(Values),                   \* preObjectFunctionReturnValue
   returning : BOOLEAN,                          \* returnStatementActive
   backup    : OrNull(Conns),                    \* backupOfActiveTAGConnection
   blocks    : Seq(Block),                       \* parses running, the innermost last
   returned  : OrNull(Values),                   \* ghost: the value of its own return
   conn      : OrNull(Conns)]                    \* ghost: the connection it works on

NoResult == [value |-> NULL, returned |-> NULL, reported |-> FALSE]

Top       == frames[Len(frames)]
Caller    == frames[Len(frames) - 1]
Innermost == Top.blocks[Len(Top.blocks)]

SetTop(fr) == [frames EXCEPT ![Len(frames)] = fr]
Popped     == SubSeq(frames, 1, Len(frames) - 1)

Open(kind) ==                \* a parse inside the innermost one
  [Top EXCEPT !.blocks = Append(@, [kind |-> kind, saved |-> FALSE])]
Close == [Top EXCEPT !.blocks = SubSeq(@, 1, Len(@) - 1)]
TurnInto(kind, saved) ==     \* the innermost parse ends and another begins
  [Top EXCEPT !.blocks = [Top.blocks EXCEPT ![Len(Top.blocks)] = [kind |-> kind, saved |-> saved]]]

Quiet == told' = NoResult /\ UNCHANGED overtaken
Count == steps < MaxSteps /\ steps' = steps + 1

-----------------------------------------------------------------------------
(* Calling.                                                                *)

NewFrame(f, by, used) ==     \* createANewFunctionCallStackStartPoint
  [fn |-> f, by |-> by, used |-> used, phase |-> "enter", slot |-> NULL,
   returning |-> FALSE, backup |-> NULL, blocks |-> <<>>,
   returned |-> NULL, conn |-> NULL]

Room(f) == Len(frames) + (IF HomeOf[f] = NULL THEN 1 ELSE 2) <= MaxDepth

Start(f) ==                  \* a handler of a request runs a trigger or a procedure
  /\ ~crashed /\ frames = <<>> /\ Room(f) /\ Count
  /\ frames' = <<NewFrame(f, "engine", "no")>>
  /\ Quiet
  /\ UNCHANGED <<pageVars, connVars, depth, crashed>>

Known(f)     == HomeOf[f] # NULL /\ handle[HomeOf[f]] # "none"
Missing(f)   == HomeOf[f] # NULL /\ handle[HomeOf[f]] = "none" /\ Trigger # NULL
ConnFor(f)   == IF Known(f) THEN HomeOf[f] ELSE active

BeginAtOnce(fr, conn) == [fr EXCEPT !.phase = "run", !.conn = conn]
Begin(fr, conn) ==
  [fr EXCEPT !.phase = "run", !.conn = conn,
             !.blocks = <<[kind |-> "body", saved |-> FALSE]>>]

BackedUpLate(f) == ConnFor(f)
BackedUp(f) == active

Enter ==                     \* runPostFunctionFast, up to the parse of the body
  /\ ~crashed /\ frames # <<>> /\ Top.phase = "enter" /\ ~Missing(Top.fn)
  /\ depth' = depth + 1
  /\ active' = ConnFor(Top.fn)
  /\ frames' = SetTop(Begin([Top EXCEPT !.backup = BackedUp(Top.fn)], active'))
  /\ stop' = FALSE
  /\ Quiet
  /\ UNCHANGED <<test, root, handle, crashed, steps>>

EnterMissing ==              \* findTAGConnectionByName runs the trigger first
  /\ ~crashed /\ frames # <<>> /\ Top.phase = "enter" /\ Missing(Top.fn)
  /\ depth' = depth + 1
  /\ frames' = Append(SetTop([Top EXCEPT !.backup = active, !.phase = "connect"]),
                      NewFrame(Trigger, "connect", "no"))
  /\ Quiet
  /\ UNCHANGED <<pageVars, connVars, crashed, steps>>

Connected ==                 \* ... and looks for the connection once more
  /\ ~crashed /\ frames # <<>> /\ Top.phase = "connect"
  /\ active' = ConnFor(Top.fn)
  /\ frames' = SetTop(Begin(Top, active'))
  /\ stop' = FALSE
  /\ Quiet
  /\ UNCHANGED <<test, root, handle, depth, crashed, steps>>

RestoredAlways    == Top.backup
RestoredForgotten == active
Restored == IF Top.backup # NULL THEN Top.backup ELSE active

(* What the operand of an expression becomes, and whether the error "must  *)
(* return a value" is printed: both are read from the frame of the caller. *)
Operand(caller, used, returned) ==
  [value    |-> caller.slot,
   returned |-> returned,
   reported |-> caller.slot = NULL /\ (used = "plain" \/ caller.fn \in Declares)]

Answer ==                    \* of a trigger: read from its own frame
  [value |-> Top.slot, returned |-> Top.returned, reported |-> Top.slot = NULL]

Running == ~crashed /\ frames # <<>> /\ Top.phase = "run"

CountedDownAtEnd == IF Top.returning THEN depth ELSE depth - 1
CountedDown == depth - 1

Finish ==                    \* the rest of runPostFunctionFast, cleanUpFunctionStack
  /\ Running /\ Innermost.kind = "body"
  /\ depth' = CountedDown
  /\ active' = Restored
  /\ frames' = Popped
  /\ told' = CASE Top.by = "engine" -> Answer
               [] Top.by = "htsql" /\ Top.used # "no" -> Operand(Caller, Top.used, Top.returned)
               [] OTHER -> NoResult
  /\ UNCHANGED overtaken
  /\ UNCHANGED <<pageVars, root, handle, crashed, steps>>

-----------------------------------------------------------------------------
(* Statements.                                                             *)

StatementKinds == {"body", "if", "loop"}

(* Expressions are evaluated where no return and no stop ended the parse.  *)
(* The rest of a return statement is parsed up to its end even after a stop. *)
Evaluating ==
  /\ Running /\ ~Top.returning /\ Innermost.kind # "handler"
  /\ stop => Innermost.kind = "return"
  /\ Count
InStatements  == Evaluating /\ Innermost.kind \in StatementKinds
MayNest       == Len(Top.blocks) < MaxNest

Call(f, used) ==             \* callUserFunction
  /\ Evaluating /\ Room(f)
  /\ used = "no" => Innermost.kind \in StatementKinds
  /\ frames' = Append(frames, NewFrame(f, "htsql", used))
  /\ Quiet
  /\ UNCHANGED <<pageVars, connVars, depth, crashed>>

CallRefused(used) ==         \* no such function, or a wrong number of arguments
  /\ Evaluating
  /\ told' = Operand(Top, used, NULL)
  /\ UNCHANGED overtaken
  /\ UNCHANGED <<frames, pageVars, connVars, depth, crashed>>

UnknownVariable ==           \* getVariableValue stops the parse
  /\ Evaluating
  /\ stop' = TRUE
  /\ Quiet
  /\ UNCHANGED <<frames, test, connVars, depth, crashed>>

BeginReturn ==               \* the parse ends at the word return, whatever follows
  /\ InStatements
  /\ frames' = SetTop(Open("return"))
  /\ Quiet
  /\ UNCHANGED <<pageVars, connVars, depth, crashed>>

Returning == [Close EXCEPT !.returning = TRUE]

OwnResultOnly(v) == SetTop([Returning EXCEPT !.slot = v, !.returned = v])
WithResult(v) ==             \* setCurrentUserFunctionReturnValue
  [i \in DOMAIN frames |->
     IF i = Len(frames) THEN [Returning EXCEPT !.slot = v, !.returned = v]
     ELSE IF i = Len(frames) - 1 THEN [frames[i] EXCEPT !.slot = v]
     ELSE frames[i]]

Return(v) ==                 \* return; or return e; with the value of e
  /\ Running /\ Innermost.kind = "return"
  /\ frames' = IF v # NULL /\ Top.fn \in Declares THEN WithResult(v) ELSE SetTop(Returning)
  /\ Quiet
  /\ UNCHANGED <<pageVars, connVars, depth, crashed, steps>>

If ==
  /\ InStatements /\ MayNest
  /\ frames' = SetTop(Open("ifCond"))
  /\ Quiet
  /\ UNCHANGED <<pageVars, connVars, depth, crashed>>

While ==
  /\ InStatements /\ MayNest
  /\ frames' = SetTop(Open("loopCond"))
  /\ Quiet
  /\ UNCHANGED <<pageVars, connVars, depth, crashed>>

Operation ==                 \* commit, delete, refresh_block, ...
  /\ InStatements /\ MayNest
  /\ frames' = SetTop(Open("handler"))
  /\ Quiet
  /\ UNCHANGED <<pageVars, connVars, depth, crashed>>

RunTrigger(f) ==             \* whatever the trigger before it did
  /\ Running /\ Innermost.kind = "handler" /\ Room(f) /\ Count
  /\ frames' = Append(frames, NewFrame(f, "engine", "no"))
  /\ Quiet
  /\ UNCHANGED <<pageVars, connVars, depth, crashed>>

(* create_..._connection: a connection that exists is closed and opened    *)
(* again; if that fails the closed handle is left in its place.            *)
Connect(c, works) ==
  /\ Evaluating
  /\ LET new == handle[c] = "none"
     IN /\ handle' = [handle EXCEPT ![c] = IF works THEN "open"
                                           ELSE IF new THEN "none" ELSE "dangling"]
        /\ IF new /\ works /\ root = NULL
           THEN root' = c /\ active' = c /\ frames' = SetTop([Top EXCEPT !.conn = c])
           ELSE UNCHANGED <<frames, root, active>>
  /\ Quiet
  /\ UNCHANGED <<pageVars, depth, crashed>>

(* insert, update and delete: the object made for LastDMLCursor has a type  *)
(* createPostObjectGeneric does not know, so it holds a NULL pointer, which *)
(* the parse that evaluates the text follows.  Or a statement uses or       *)
(* closes a handle that was freed; that may pass unnoticed.                 *)
Dies ==
  /\ \/ InStatements
     \/ Evaluating /\ \E c \in Conns : handle[c] = "dangling"
  /\ crashed' = TRUE
  /\ Quiet
  /\ UNCHANGED <<frames, pageVars, connVars, depth>>

-----------------------------------------------------------------------------
(* The end of a parse: its text is over, or a return or a stop ended it.   *)
(* The result of a condition that was stopped is that of any part of it.   *)

EndIf ==                     \* reduceifTrueAndFalseBlock restores the result
  /\ Running /\ Innermost.kind = "if"
  /\ frames' = SetTop(Close)
  /\ test' = Innermost.saved
  /\ Quiet
  /\ UNCHANGED <<stop, connVars, depth, crashed, steps>>

EndHandler ==
  /\ Running /\ Innermost.kind = "handler"
  /\ frames' = SetTop(Close)
  /\ Quiet
  /\ UNCHANGED <<pageVars, connVars, depth, crashed, steps>>

EndIfCondition(result, block) ==     \* is there a block to parse for the result?
  /\ Running /\ Innermost.kind = "ifCond"
  /\ test' = result
  /\ frames' = SetTop(IF ~stop /\ block THEN TurnInto("if", result) ELSE Close)
  /\ Quiet
  /\ UNCHANGED <<stop, connVars, depth, crashed, steps>>

EndLoopCondition(result) ==
  /\ Running /\ Innermost.kind = "loopCond"
  /\ test' = result
  /\ frames' = SetTop(IF ~stop /\ result THEN TurnInto("loop", FALSE) ELSE Close)
  /\ Quiet
  /\ UNCHANGED <<stop, connVars, depth, crashed, steps>>

LoopLeftNever == FALSE
LoopLeft == Top.returning    \* a parse returns at once after a return

EndLoop ==                   \* the body is over: the condition is parsed again
  /\ Running /\ Innermost.kind = "loop"
  /\ IF LoopLeft
     THEN frames' = SetTop(Close) /\ UNCHANGED stop
     ELSE frames' = SetTop(TurnInto("again", FALSE)) /\ stop' = FALSE
  /\ Quiet
  /\ UNCHANGED <<test, connVars, depth, crashed, steps>>

EndAgain(result) ==
  /\ Running /\ Innermost.kind = "again"
  /\ test' = result
  /\ IF test'
     THEN frames' = SetTop(TurnInto("loop", FALSE)) /\ stop' = FALSE
     ELSE frames' = SetTop(Close) /\ UNCHANGED stop
  /\ Quiet
  /\ UNCHANGED <<connVars, depth, crashed, steps>>

-----------------------------------------------------------------------------
(* A request of the session is accepted: InitCallstack comes before the    *)
(* wait for the session's mutex.                                           *)
Accept ==
  /\ ~crashed
  /\ depth' = 0 /\ overtaken' = (frames # <<>>)
  /\ told' = NoResult
  /\ UNCHANGED <<frames, pageVars, connVars, crashed, steps>>

Init ==
  /\ frames = <<>> /\ stop = FALSE /\ test = FALSE
  /\ active = NULL /\ root = NULL /\ handle = [c \in Conns |-> "none"]
  /\ depth = 0 /\ crashed = FALSE
  /\ told = NoResult /\ overtaken = FALSE /\ steps = 0

CallStep ==
  \/ Enter \/ EnterMissing \/ Connected \/ Finish
  \/ \E f \in Functions : Start(f) \/ RunTrigger(f) \/ \E u \in {"no", "plain", "args"} : Call(f, u)
  \/ \E u \in {"plain", "args"} : CallRefused(u)

StatementStep ==
  \/ UnknownVariable \/ BeginReturn \/ If \/ While \/ Operation \/ Dies
  \/ \E v \in OrNull(Values) : Return(v)
  \/ \E c \in Conns, works \in BOOLEAN : Connect(c, works)

BlockStep ==
  \/ EndIf \/ EndHandler \/ EndLoop
  \/ \E result \in BOOLEAN :
       \/ EndLoopCondition(result) \/ EndAgain(result)
       \/ \E block \in BOOLEAN : EndIfCondition(result, block)

Next == CallStep \/ StatementStep \/ BlockStep \/ Accept

Spec == Init /\ [][Next]_vars

-----------------------------------------------------------------------------
(* Every variable has its type, and a function that runs has a parse.      *)
TypeOK ==
  /\ frames \in Seq(Frame)
  /\ stop \in BOOLEAN /\ test \in BOOLEAN /\ crashed \in BOOLEAN
  /\ active \in OrNull(Conns) /\ root \in OrNull(Conns)
  /\ handle \in [Conns -> {"none", "open", "dangling"}]
  /\ depth \in Int /\ steps \in Nat
  /\ told \in [value : OrNull(Values), returned : OrNull(Values), reported : BOOLEAN]
  /\ overtaken \in BOOLEAN
  /\ \A i \in DOMAIN frames : frames[i].blocks # <<>> <=> frames[i].phase = "run"

(* A function's statements find the same active connection before and      *)
(* after each call they make, whatever the called functions, the triggers  *)
(* and connection_not_found did: the connection it began on, or the first  *)
(* one of the session if the function itself made that.                    *)
ActiveOfFunction == Running /\ Top.conn # NULL => active = Top.conn

(* A session that has a connection always has an active one: the restoring *)
(* of the caller's connection never takes away the first one, made by a    *)
(* function that was called before there was any.                          *)
ActiveWhenOpen == active = NULL <=> root = NULL

(* A value that a function returns is the value its caller gets, through   *)
(* the calls that function made, loops and early returns, and the caller   *)
(* is not told that it must return one.                                    *)
ReturnedValueArrives ==
  told.returned # NULL => told.value = told.returned /\ ~told.reported

(* After a return a function only unwinds: no block of it is entered or    *)
(* repeated, no function is called, until the function has ended.          *)
Unwinds ==
  frames # <<>> /\ Top.returning =>
    \/ Len(frames') < Len(frames)
    \/ Len(frames') = Len(frames) /\ Len(frames'[Len(frames)].blocks) < Len(Top.blocks)
    \/ UNCHANGED <<frames, pageVars, connVars, steps>>
ReturnUnwinds == [][Unwinds]_vars

(* The count of nested calls that the log is indented by is the number of  *)
(* functions that run, through triggers and stops, unless another request  *)
(* of the session was accepted meanwhile (SodiumSession.h:89).             *)
DepthCountsFrames ==
  ~overtaken =>
    depth = IF frames # <<>> /\ Top.phase = "enter" THEN Len(frames) - 1 ELSE Len(frames)
=============================================================================
