--------------------------- MODULE HtsqlVariables ---------------------------
(***************************************************************************)
(* The variables of HTSQL programs of one session: local variables of a    *)
(* function, global ones of a page and of controller.sqlx, items of data   *)
(* blocks, control block variables, which come with a request, and session *)
(* variables.  A name is looked up in one scope after the other.           *)
(*                                                                         *)
(* A local object list is a function from names to the first object of the *)
(* name: a second one, which only a select makes, is never found.  A name  *)
(* not found, or declared twice, is an error that changes nothing; it may  *)
(* stop the parse, which a program that ends anywhere covers.              *)
(***************************************************************************)
EXTENDS Integers, Sequences

CONSTANTS
  Functions, Variables, Items,   \* names: of functions, plain, and :block.item
  ParamsOf,                      \* parameters a function declares; of two with
                                 \* one name the second is refused
  Pages, Controller,             \* URLs, and controller.frmx, page->rootPage
  GlobalsOf,                     \* global variables that a page's file declares
  Blocks, BlockOf,               \* names of blocks, and that of each item
  DataBlocks,                    \* data blocks of a page
  Inputs,                        \* items for which a data block has an input
  Controls,                      \* items of a page's control blocks
  Values, NULL, Absent,
  Defaults,                      \* :Session.user and the others
  MaxDepth, MaxSteps             \* bounds: frames, requests and statements

OrNull(S) == S \cup {NULL}
OrAbsent(S) == S \cup {Absent}
Names == Functions \cup Variables \cup Items
Scopes == Pages \cup {Controller}
Cell == OrAbsent(OrNull(Values))          \* a variable's value, or no variable

(* What an object's union holds: a text, perhaps NULL, or a record set,    *)
(* here the number of the select that fetched it.                          *)
Text(v) == [is |-> "text", of |-> v]
Rows(k) == [is |-> "rows", of |-> k]
Held == [is : {"text"}, of : OrNull(Values)] \cup [is : {"rows"}, of : Nat]

ASSUME ConstantsAssumption ==
  /\ Functions \cap Variables = {} /\ (Functions \cup Variables) \cap Items = {}
  /\ ParamsOf \in [Functions -> SUBSET Variables]
  /\ Controller \notin Pages
  /\ GlobalsOf \in [Scopes -> SUBSET Variables]
  /\ \A p \in Pages : GlobalsOf[p] \cap GlobalsOf[Controller] = {}
  /\ BlockOf \in [Items -> Blocks]
  /\ DataBlocks \in [Pages -> SUBSET Blocks]
  /\ Inputs \in [Pages -> SUBSET Items] /\ Controls \in [Pages -> SUBSET Items]
  /\ \A p \in Pages : /\ \A n \in Inputs[p] : BlockOf[n] \in DataBlocks[p]
                      /\ \A n \in Controls[p] : BlockOf[n] \notin DataBlocks[p]
  /\ NULL \notin Values /\ Absent \notin OrNull(Values) \cup Held /\ NULL \notin Pages
  /\ Defaults \in [Items -> Cell]
  /\ {MaxDepth, MaxSteps} \subseteq Nat

VARIABLES
  page,        \* session->currentPage
  serving,     \* the request in hand: none, a page, an ajax request before and
               \* after its function was started
  form,        \* page->formDataStructureSmall
  blocks,      \* page->rootTAGDataBlock: blocks parsed so far
  inputs,      \* TAGInput->value of the current rows
  globals,     \* page->rootPreObjectGeneric
  control,     \* page->rootCBVariable
  session,     \* session->rootSessionObjectGeneric
  frames,      \* page->currentCallStack, the innermost call last
  crashed,     \* memory was used as something it is not
  assigned,    \* ghost: control variables assigned in this request
  kept,        \* ghost: value given to an item as a session variable last
  steps

pageVars == <<page, serving, form>>
dataVars == <<blocks, inputs>>
vars == <<pageVars, dataVars, globals, control, session, frames, crashed, assigned, kept, steps>>

Frame ==
  [objects : [Names -> OrAbsent(Held)],
   wrote   : [Names -> Cell],            \* ghost: value given to a name last,
                                         \*   in this function or in its callees
   picked  : [Names -> OrAbsent(Nat)]]   \* ghost: its last select

NoCells == [n \in Items |-> Absent]
Top == frames[Len(frames)]
Running == frames # <<>> /\ ~crashed
Between == frames = <<>> /\ ~crashed
Count == steps < MaxSteps /\ steps' = steps + 1

-----------------------------------------------------------------------------
(* Look-up. *)

GlobalScope(n) == IF globals[page][n] # Absent THEN page ELSE Controller
Global(n) == globals[GlobalScope(n)][n]
InBlock(n) == BlockOf[n] \in blocks[page]
AnyItem(n) == InBlock(n)                  \* mutant: is there such an input?
IsInput(n) == InBlock(n) /\ n \in Inputs[page]

SessionFirst(n) ==                        \* mutant: the scopes swapped
  IF IsInput(n) THEN inputs[page][n]
  ELSE IF session[n] # Absent THEN session[n]
  ELSE control[page][n]

(* getBlockVariableValue, after the local objects. *)
ItemValue(n) ==
  IF IsInput(n) THEN inputs[page][n]
  ELSE IF control[page][n] # Absent THEN control[page][n]
  ELSE session[n]

Value(fr, n) ==
  IF fr.objects[n] # Absent THEN fr.objects[n].of
  ELSE IF n \in Items THEN ItemValue(n)
  ELSE IF n \in Variables THEN Global(n)
  ELSE Absent                             \* a function is no variable

-----------------------------------------------------------------------------
(* Requests. *)

(* What is declared by a file that is parsed (again). *)
Fresh(p) == [n \in Variables |-> IF n \in GlobalsOf[p] THEN NULL ELSE Absent]

GetPage(p) ==
  /\ serving = "none" /\ Between /\ Count
  /\ page' = p /\ serving' = "page" /\ form' = NoCells
  /\ globals' = [globals EXCEPT ![p] = Fresh(p)]
  /\ blocks' = [blocks EXCEPT ![p] = {}]
  /\ inputs' = [inputs EXCEPT ![p] = NoCells]
  /\ UNCHANGED <<control, session, frames, crashed, assigned, kept>>

(* A data block of the page is parsed and shows a row.  Triggers may run   *)
(* before the next one.                                                    *)
AddBlock(b, row) ==
  /\ serving = "page" /\ Between
  /\ b \in DataBlocks[page] \ blocks[page]
  /\ blocks' = [blocks EXCEPT ![page] = blocks[page] \cup {b}]
  /\ inputs' = [inputs EXCEPT ![page] = [n \in Items |->
                  IF n \in Inputs[page] /\ BlockOf[n] = b THEN row[n] ELSE inputs[page][n]]]
  /\ UNCHANGED <<pageVars, globals, control, session, frames, crashed, assigned, kept, steps>>

WithAll(p, f) ==                          \* mutant: empty variables for what was
  [n \in Items |-> IF n \notin Controls[p] THEN control[p][n]    \* not sent
                   ELSE IF f[n] = Absent THEN NULL ELSE f[n]]

(* addControlBlockDataItemsToLocalStack: a variable that exists is kept.   *)
WithSent(p, f) ==
  [n \in Items |-> IF control[p][n] = Absent /\ n \in Controls[p] THEN f[n] ELSE control[p][n]]

(* The form of a page: its control blocks and the items of one data block. *)
(* The page may have been loaded into a session that is gone since.        *)
Ajax(p, f) ==
  /\ serving = "none" /\ Between /\ Count
  /\ page' = p /\ serving' = "ajax" /\ form' = f
  /\ control' = [control EXCEPT ![p] = WithSent(p, f)]
  /\ UNCHANGED <<dataVars, globals, session, frames, crashed, assigned, kept>>

NotDestroyed == control[page]             \* mutant: they stay

Destroyed == [n \in Items |-> Absent]

EndRequest ==
  /\ serving # "none" /\ Between
  /\ serving' = "none" /\ form' = NoCells /\ assigned' = {}
  /\ control' = IF serving \in {"ajax", "called"}
                THEN [control EXCEPT ![page] = Destroyed] ELSE control
  /\ UNCHANGED <<page, dataVars, globals, session, frames, crashed, kept, steps>>

-----------------------------------------------------------------------------
(* Functions.  The first object of each has its name and no value. *)

Began(objects) ==
  [objects |-> objects, wrote |-> [n \in Names |-> Absent], picked |-> [n \in Names |-> Absent]]

OwnName(f) == [n \in Names |-> IF n = f THEN Text(NULL) ELSE Absent]

WithArguments(f, args) ==
  [n \in Names |-> IF n \in ParamsOf[f] THEN Text(args[n]) ELSE OwnName(f)[n]]

(* addDataBlockDataItemsToLocalStack *)
WithForm(f) ==
  [n \in Names |-> IF n \in Inputs[page] /\ form[n] # Absent THEN Text(form[n]) ELSE OwnName(f)[n]]

Push(objects) ==
  /\ Len(frames) < MaxDepth
  /\ frames' = Append(frames, Began(objects))
  /\ UNCHANGED <<form, page, dataVars, globals, control, session, crashed, assigned, kept>>

CallFromPage(f) ==            \* __sendHTSQLResponse
  /\ serving = "ajax" /\ Between /\ Count
  /\ serving' = "called"
  /\ Push(WithForm(f))

RunTrigger(f) ==              \* by the engine, or by a statement that runs it
  /\ serving # "none" /\ ~crashed /\ Count
  /\ Push(OwnName(f))
  /\ UNCHANGED serving

Call(f, args) ==
  /\ Running /\ Count
  /\ Push(WithArguments(f, args))
  /\ UNCHANGED serving

Return ==                     \* cleanUpFunctionStack
  /\ Running
  /\ frames' = SubSeq(frames, 1, Len(frames) - 1)
  /\ UNCHANGED <<pageVars, dataVars, globals, control, session, crashed, assigned, kept, steps>>

-----------------------------------------------------------------------------
(* Statements. *)

Put(store, p, n, v) == [store EXCEPT ![p] = [store[p] EXCEPT ![n] = v]]

SetTop(fr) == [frames EXCEPT ![Len(frames)] = fr]

(* Ghost: what functions know of the name when its value changes to v.     *)
(* Those below the top see it too unless they have an object of the name.  *)
Noted(n, v) ==
  [i \in DOMAIN frames |->
     IF i = Len(frames) \/ frames[i].objects[n] = Absent
     THEN [frames[i] EXCEPT !.wrote = [frames[i].wrote EXCEPT ![n] = v]] ELSE frames[i]]

WithLocal(n, o, v) ==
  [Top EXCEPT !.objects = [Top.objects EXCEPT ![n] = o], !.wrote = [Top.wrote EXCEPT ![n] = v]]

Declare(n, v) ==
  /\ Running /\ Count
  /\ Top.objects[n] = Absent
  /\ frames' = SetTop(WithLocal(n, Text(v), v))
  /\ UNCHANGED <<pageVars, dataVars, globals, control, session, crashed, assigned, kept>>

(* Any object can be assigned a text, that of a record set too. *)
AssignLocal(n, v) ==
  /\ Running /\ Count
  /\ Top.objects[n] # Absent
  /\ frames' = SetTop(WithLocal(n, Text(v), v))
  /\ UNCHANGED <<pageVars, dataVars, globals, control, session, crashed, assigned, kept>>

AssignGlobal(n, v) ==
  /\ Running /\ Count
  /\ Top.objects[n] = Absent /\ Global(n) # Absent
  /\ globals' = Put(globals, GlobalScope(n), n, v)
  /\ frames' = Noted(n, v)
  /\ UNCHANGED <<pageVars, dataVars, control, session, crashed, assigned, kept>>

(* The object found is the function's declaration. *)
AssignFunction(f) ==
  /\ Running /\ Count
  /\ Top.objects[f] = Absent
  /\ crashed' = TRUE
  /\ UNCHANGED <<pageVars, dataVars, globals, control, session, frames, assigned, kept>>

(* setBlockVariableValue does not look at the local objects. *)
AssignInput(n, v) ==
  /\ Running /\ Count
  /\ IsInput(n)
  /\ inputs' = Put(inputs, page, n, v)
  /\ frames' = Noted(n, v)
  /\ UNCHANGED <<pageVars, blocks, globals, control, session, crashed, assigned, kept>>

AssignControl(n, v) ==
  /\ Running /\ Count
  /\ ~InBlock(n) /\ control[page][n] # Absent
  /\ control' = Put(control, page, n, v)
  /\ assigned' = assigned \cup {n}
  /\ frames' = Noted(n, v)
  /\ UNCHANGED <<pageVars, dataVars, globals, session, crashed, kept>>

(* Did the request bring a control variable of this name? *)
Sent(n) == serving \in {"ajax", "called"} /\ n \in Controls[page] /\ form[n] # Absent

AssignSession(n, v) ==        \* one that does not exist is created
  /\ Running /\ Count
  /\ ~InBlock(n) /\ control[page][n] = Absent
  /\ session' = [session EXCEPT ![n] = v]
  /\ kept' = IF Sent(n) THEN kept ELSE [kept EXCEPT ![n] = v]
  /\ frames' = Noted(n, v)
  /\ UNCHANGED <<pageVars, dataVars, globals, control, crashed, assigned>>

(* refresh_block and the like: the current rows are others. *)
MoveRows(rows) ==
  /\ Running /\ Count
  /\ inputs' = [inputs EXCEPT ![page] = [n \in Items |-> IF IsInput(n) THEN rows[n] ELSE Absent]]
  /\ frames' = [i \in DOMAIN frames |->
       [frames[i] EXCEPT !.wrote = [n \in Names |-> IF n \in Items THEN Absent ELSE frames[i].wrote[n]]]]
  /\ UNCHANGED <<pageVars, blocks, globals, control, session, crashed, assigned, kept>>

(* n = select: a new object for n is put at the end of the list, but the   *)
(* text is evaluated into the first object of the name.  Only if that is   *)
(* the new one it is the new one's that is executed.                       *)
Selected(n, k) == IF Top.objects[n] = Absent THEN Rows(k) ELSE Top.objects[n]

Select(n) ==
  /\ Running /\ Count
  /\ Top.objects[n] # Absent /\ Top.objects[n].is = "text" => Top.objects[n].of = NULL
  /\ frames' = SetTop([Top EXCEPT !.objects = [Top.objects EXCEPT ![n] = Selected(n, steps')],
                                  !.picked = [Top.picked EXCEPT ![n] = steps'],
                                  !.wrote = [Top.wrote EXCEPT ![n] = Absent]])
  /\ UNCHANGED <<pageVars, dataVars, globals, control, session, crashed, assigned, kept>>

(* A text, or nothing, is used as a record set. *)
Dies ==
  /\ Running /\ Count
  /\ \E n \in Variables : Top.objects[n] # Absent => Top.objects[n].is = "text"
  /\ crashed' = TRUE
  /\ UNCHANGED <<pageVars, dataVars, globals, control, session, frames, assigned, kept>>

-----------------------------------------------------------------------------
Init ==
  /\ page = NULL /\ serving = "none" /\ form = NoCells
  /\ blocks = [p \in Pages |-> {}] /\ inputs = [p \in Pages |-> NoCells]
  /\ globals = [p \in Scopes |-> IF p = Controller THEN Fresh(p) ELSE [n \in Variables |-> Absent]]
  /\ control = [p \in Pages |-> NoCells]
  /\ session = Defaults /\ kept = Defaults
  /\ frames = <<>> /\ crashed = FALSE /\ assigned = {} /\ steps = 0

(* Values of a row's inputs, and forms of a page. *)
RowsOf(S) == {r \in [Items -> Cell] : \A n \in Items : r[n] # Absent <=> n \in S}

FormsOf(p) ==
  {f \in [Items -> OrAbsent(Values)] :
     \E b \in Blocks : \A n \in Items :
        f[n] # Absent => n \in Controls[p] \/ (n \in Inputs[p] /\ BlockOf[n] = b)}

Request ==
  \/ \E p \in Pages : GetPage(p) \/ \E f \in FormsOf(p) : Ajax(p, f)
  \/ page # NULL /\ \E b \in Blocks, row \in RowsOf(Inputs[page]) : AddBlock(b, row)
  \/ EndRequest

Frames ==
  \/ \E f \in Functions :
       \/ CallFromPage(f) \/ RunTrigger(f)
       \/ \E args \in [ParamsOf[f] -> OrNull(Values)] : Call(f, args)
  \/ Return

Statement ==
  \/ \E n \in Variables, v \in OrNull(Values) : Declare(n, v) \/ AssignGlobal(n, v)
  \/ \E n \in Variables \cup Functions, v \in OrNull(Values) : AssignLocal(n, v)
  \/ \E f \in Functions : AssignFunction(f)
  \/ \E n \in Items, v \in OrNull(Values) : AssignInput(n, v) \/ AssignControl(n, v) \/ AssignSession(n, v)
  \/ Running /\ \E rows \in RowsOf(Inputs[page]) : MoveRows(rows)
  \/ \E n \in Variables : Select(n)
  \/ Dies

Next == Request \/ Frames \/ Statement

Spec == Init /\ [][Next]_vars

-----------------------------------------------------------------------------
(* The variables keep their types; a page has values for the items of the  *)
(* blocks parsed so far and for no others; functions run in a request.     *)
TypeOK ==
  /\ page \in OrNull(Pages) /\ serving \in {"none", "page", "ajax", "called"}
  /\ serving # "none" => page # NULL
  /\ frames # <<>> => serving # "none"
  /\ form \in [Items -> OrAbsent(Values)]
  /\ blocks \in [Pages -> SUBSET Blocks]
  /\ inputs \in [Pages -> [Items -> Cell]]
  /\ \A p \in Pages, n \in Items : inputs[p][n] # Absent <=> n \in Inputs[p] /\ BlockOf[n] \in blocks[p]
  /\ globals \in [Scopes -> [Variables -> Cell]]
  /\ control \in [Pages -> [Items -> Cell]]
  /\ session \in [Items -> Cell] /\ kept \in [Items -> Cell]
  /\ frames \in Seq(Frame) /\ crashed \in BOOLEAN
  /\ assigned \subseteq Items /\ steps \in Nat

(* A function reads back what it, or a function it called, wrote last      *)
(* under a name, whatever happened to the scopes meanwhile; except that an *)
(* item that came with the form is read from the form's copy for as long   *)
(* as the function runs, although it is written to the block, the control  *)
(* block or the session (getBlockVariableValue, setBlockVariableValue).    *)
FormHides(fr, n) == n \in Items /\ fr.objects[n] # Absent

WritesStay ==
  \A i \in DOMAIN frames, n \in Names :
    \/ frames[i].wrote[n] = Absent
    \/ Value(frames[i], n) = frames[i].wrote[n]
    \/ FormHides(frames[i], n)

(* A control block variable belongs to the request that brought it: it has *)
(* the value sent or one assigned since, and none outlives its request     *)
(* (serveAsAjaxRequest, createControlBlockVariable).                       *)
ControlsOfRequest ==
  \A p \in Pages, n \in Items :
    control[p][n] # Absent =>
      /\ p = page /\ Sent(n)
      /\ n \notin assigned => control[p][n] = form[n]

(* Wherever the page has no block of its name and the request brought no   *)
(* control variable, an item is the session variable: each function reads  *)
(* what was assigned to it so last, on whatever page and in whatever       *)
(* request that was (getBlockVariableValue, setBlockVariableValue).        *)
SessionKept ==
  \A i \in DOMAIN frames, n \in Items :
    ~InBlock(n) /\ ~Sent(n) /\ frames[i].objects[n] = Absent => Value(frames[i], n) = kept[n]

(* A select into a variable is what the variable's columns are read from   *)
(* afterwards (lemon.post.yy:1332).                                        *)
SelectReplaces ==
  \A i \in DOMAIN frames, n \in Variables :
    frames[i].picked[n] # Absent /\ frames[i].objects[n] # Absent =>
      frames[i].objects[n] = Rows(frames[i].picked[n])
=============================================================================
