---------------------------- MODULE DataBlockRows ----------------------------
(***************************************************************************)
(* The data blocks of one page of one session: the current row that each   *)
(* TAGDataBlock keeps, the edits that wait in it (valueState DIRTY), and   *)
(* the database transaction they are flushed into.                         *)
(*                                                                         *)
(* A browser shows several rows of a block; the server keeps one.  A       *)
(* request names the row the user is on; select-row moves the server's row *)
(* to it, item-modified only marks an input of whatever row the server is  *)
(* on.  Waiting edits are written by updateOrInsertAllDataBlocksCurrentRow *)
(* before a row change, a commit or an HTSQL call.                         *)
(*                                                                         *)
(* The requests of a session run one at a time (SodiumSessions), so a      *)
(* handler is a sequence of steps; a step is what one call of the database *)
(* decides, or one statement of an HTSQL procedure.  Handlers run such     *)
(* procedures as triggers of a block, which may edit other blocks, delete, *)
(* roll back and commit, and so begin a flush within a flush.              *)
(***************************************************************************)
EXTENDS Naturals, Sequences

CONSTANTS
  NBlocks,    \* the blocks of the page are 1..NBlocks, in page order
  Conns,      \* the session's database connections
  ConnOf,     \* the connection of each block; blocks of one share its table
  Writable,   \* blocks with isSchemaObjectWritable
  KeyShown,   \* blocks that have the key column among their inputs
  Triggers,   \* pairs: a block and a trigger procedure that it has
  RowIdItem,  \* per block: the input whose column is named rowid, or NULL
  Before,     \* per input: the inputs that come before it on the page
  Rows,       \* key values of database rows
  NewIds,     \* row ids generated for empty rows ("NEWROW-...")
  ReadOnlyIds,\* row ids generated for read only blocks ("READONLY-...")
  Items,      \* the inputs of a block that have a column
  AutoItems,  \* those filled from a master item or a sequence
  Values,     \* what a user can type
  NULL,
  MaxSteps    \* bound: requests and HTSQL statements in a behaviour

Blocks == 1..NBlocks
RowIds == Rows \cup NewIds \cup ReadOnlyIds
Record == [Items -> Values \cup {NULL}]
Table  == [Rows -> Record \cup {NULL}]

TriggerNames == {"item", "row_selected", "access", "post_query", "pre_update", "post_update",
                 "pre_insert", "post_insert", "pre_delete", "post_delete"}

ASSUME ConstantsAssumption ==
  /\ NBlocks \in Nat \ {0}
  /\ ConnOf \in [Blocks -> Conns]
  /\ Writable \subseteq Blocks /\ KeyShown \subseteq Blocks
  /\ Triggers \subseteq Blocks \X TriggerNames
  /\ AutoItems \subseteq Items
  /\ RowIdItem \in [Blocks -> Items \cup {NULL}] /\ NULL \notin Items
  /\ Before \in [Items -> SUBSET Items]
  /\ Rows \cap NewIds = {} /\ Rows \cap ReadOnlyIds = {} /\ NewIds \cap ReadOnlyIds = {}
  /\ NULL \notin RowIds \cup Record \cup Conns \cup Blocks
  /\ NewIds # {} /\ ReadOnlyIds # {}
  /\ MaxSteps \in Nat

VARIABLES
  committed, working,  \* per connection: the table, and what the transaction sees
  key, value, dirty,   \* per block: keyColumnValue, input values, DIRTY inputs
  current,             \* currentDatablockName and currentRowId of the page
  pc,                  \* the step of the handler that comes next
  at,                  \* flush: the block reached
  after,               \* flush: what it was called for
  calls,               \* where the running HTSQL procedures return to
  body,                \* is an HTSQL procedure still to run after the selection?
  req,                 \* block and row of the request, values of its form
  target,              \* connections to commit
  reply,               \* the last answer printed by the step
  home, strayed,       \* history: the row the waiting edits were made on, and
                       \* whether the block has left it without a flush
  late,                \* history: how many procedures ran when they were made
  steps

dbVars    == <<committed, working>>
blockVars == <<key, value, dirty>>
flowVars  == <<pc, at, after, target, calls>>
ghostVars == <<home, strayed, late>>
vars == <<dbVars, blockVars, current, flowVars, body, req, reply, ghostVars, steps>>

Blank   == [i \in Items |-> NULL]
Here    == [block |-> NULL, row |-> NULL]
NoReply == [type |-> "none", block |-> NULL, row |-> NULL]
Replies == {"none", "itemModified", "selectRowSuccessful", "refreshed",
            "updateSuccessful", "updateRejected", "updateRejectedUnread",
            "insertSuccessful", "insertRejected", "deleteSuccessful", "deleteRejected"}
Say(type, b, r) == reply' = [type |-> type, block |-> b, row |-> r]

Present(c)   == {r \in Rows : working[c][r] # NULL}
Displayed(b) == key[b] # NULL   \* printed once: the browser has row ids to send

(***************************************************************************)
(* The flow of control: the step a handler is at, and trigger procedures,  *)
(* which run on top of it (createANewFunctionCallStackStartPoint ...       *)
(* cleanUpFunctionStack).                                                  *)
(***************************************************************************)
Steps == {"idle", "flush", "update", "insert", "move", "selected", "called", "procedure",
          "refresh", "allow", "erase", "commit"}
Purposes == {"commit", "move", "again", "body"}
Frame == [pc : Steps, at : Blocks, after : Purposes, target : SUBSET Conns]

StepTo(p) == [pc |-> p, at |-> at, after |-> after, target |-> target]

Become(f) == pc' = f.pc /\ at' = f.at /\ after' = f.after /\ target' = f.target
GoOn(f)   == Become(f) /\ UNCHANGED calls

RunProcedure(f) ==               \* and go on at f when it returns
  /\ calls' = Append(calls, f)
  /\ pc' = "procedure" /\ UNCHANGED <<at, after, target>>

RunTrigger(b, name, f) ==
  IF <<b, name>> \in Triggers THEN RunProcedure(f) ELSE GoOn(f)

-----------------------------------------------------------------------------
(* SetTAGDatablockCurrentRowRowIdTAGInputValue: the row ids a block may    *)
(* get when it moves to row r, NULL being an empty row.                    *)
KeysForAny(b, r) == IF r = NULL THEN NewIds ELSE {r}
KeysFor(b, r) ==
  IF b \notin Writable THEN ReadOnlyIds ELSE IF r = NULL THEN NewIds ELSE {r}

(* The key is looked for among the columns read, those of the inputs.      *)
KeyRead(b, r) == IF b \in KeyShown THEN r ELSE NULL

(* setTAGDataBlockCurrentRowValues: the inputs take the row's values; the  *)
(* value states are left as they are.                                      *)
Stored(b, r)  == IF r = NULL THEN Blank ELSE working[ConnOf[b]][r]

ShowRow(b, r) ==
  /\ \E k \in KeysFor(b, KeyRead(b, r)) : key' = [key EXCEPT ![b] = k]
  /\ value' = [value EXCEPT ![b] = Stored(b, r)]

(* setBlockItemsValueStateToClear *)
ClearStateForgotten(b) == UNCHANGED <<dirty, ghostVars>>
ClearState(b) ==
  /\ dirty' = [dirty EXCEPT ![b] = {}]
  /\ home' = [home EXCEPT ![b] = NULL]
  /\ strayed' = [strayed EXCEPT ![b] = FALSE]
  /\ late' = [late EXCEPT ![b] = 0]

(* History: block b is moved without a flush, perhaps with edits waiting.  *)
Stray(b) ==
  /\ strayed' = [strayed EXCEPT ![b] = strayed[b] \/ dirty[b] # {}]
  /\ UNCHANGED <<home, late>>

(* modifyTAGDatablockCurrentRowItemValue, for an edit made on row r.       *)
Modify(b, r, i, v) ==
  /\ value' = [value EXCEPT ![b][i] = v]
  /\ dirty' = [dirty EXCEPT ![b] = dirty[b] \cup {i}]
  /\ home' = [home EXCEPT ![b] = IF dirty[b] = {} THEN r ELSE home[b]]
  /\ strayed' = [strayed EXCEPT ![b] = strayed[b] \/ r # key[b]]
  /\ late' = [late EXCEPT ![b] = Len(calls)]

-----------------------------------------------------------------------------
(* updateOrInsertAllDataBlocksCurrentRow: one block per step.              *)
StartFlush(for, conns) ==       \* the procedures that made the waiting edits have ended
  /\ GoOn([pc |-> "flush", at |-> 1, after |-> for, target |-> conns])
  /\ late' = [b \in Blocks |-> IF late[b] < Len(calls) THEN late[b] ELSE Len(calls)]
  /\ UNCHANGED <<home, strayed>>

FlushTo ==
  CASE after = "commit" -> "commit"
    [] after = "move"   -> "move"
    [] after = "again"  -> "flush"
    [] after = "body"   -> "called"

LastBlockMissed == at > NBlocks
LastBlockEarly  == at + 1 >= NBlocks
LastBlock == at = NBlocks

NextBlock ==
  [pc     |-> IF LastBlock THEN FlushTo ELSE "flush",
   at     |-> IF LastBlock THEN 1 ELSE at + 1,
   after  |-> IF LastBlock /\ after = "again" THEN "move" ELSE after,
   target |-> target]

(* Only the first edited input is looked at, and a block is left out when  *)
(* that input's column is named rowid.                                     *)
Skipped(b) == RowIdItem[b] \in dirty[b] /\ Before[RowIdItem[b]] \cap dirty[b] = {}

Modified(b) == dirty[b] # {} /\ ~Skipped(b)

FlushClean ==
  /\ pc = "flush" /\ ~Modified(at)
  /\ reply' = NoReply
  /\ GoOn(NextBlock)
  /\ UNCHANGED <<dbVars, blockVars, current, body, req, ghostVars, steps>>

FlushModified ==                 \* the pre_ trigger
  /\ pc = "flush" /\ Modified(at)
  /\ IF key[at] \in NewIds THEN RunTrigger(at, "pre_insert", StepTo("insert"))
                           ELSE RunTrigger(at, "pre_update", StepTo("update"))
  /\ reply' = NoReply
  /\ UNCHANGED <<dbVars, blockVars, current, body, req, ghostVars, steps>>

(* updateDataBlockCurrentRow.  A row id that names no row updates nothing  *)
(* and is no error for the database.                                       *)
Edited(b, rec) == [i \in Items |-> IF i \in dirty[b] THEN value[b][i] ELSE rec[i]]

UpdateWorks ==                   \* no edits left, no statement: see UpdateFails
  /\ pc = "update" /\ dirty[at] # {}
  /\ working' = IF key[at] \in Present(ConnOf[at])
                THEN [working EXCEPT ![ConnOf[at]][key[at]] = Edited(at, @)]
                ELSE working
  /\ ClearState(at)
  /\ Say("updateSuccessful", at, key[at])
  /\ RunTrigger(at, "post_update", NextBlock)
  /\ UNCHANGED <<committed, key, value, current, body, req, steps>>

(* updateRejectionOccured, after the pre_update trigger or the database    *)
(* refused: the row is read again (read), unless that fails too.           *)
RereadSkipped(b, read) == UNCHANGED <<key, value>>
Reread(b, read) ==
  IF read THEN ShowRow(b, IF key[b] \in Present(ConnOf[b]) THEN key[b] ELSE NULL)
          ELSE UNCHANGED <<key, value>>

UpdateFails(read) ==
  /\ pc = "update"
  /\ ClearState(at)
  /\ Reread(at, read)
  /\ Say(IF read THEN "updateRejected" ELSE "updateRejectedUnread", at, key[at])
  /\ GoOn(NextBlock)
  /\ UNCHANGED <<dbVars, current, body, req, steps>>

(* insertDataBlockCurrentRow.  The key is the one the database generates   *)
(* or the one in the key column's input; the block keeps its NEWROW id.    *)
Filled(b) == dirty[b] \cup AutoItems
Inserted(b) == [i \in Items |-> IF i \in Filled(b) THEN value[b][i] ELSE NULL]

InsertWorks(r) ==
  /\ pc = "insert" /\ Filled(at) # {}
  /\ r \notin Present(ConnOf[at])
  /\ working' = [working EXCEPT ![ConnOf[at]][r] = Inserted(at)]
  /\ ClearState(at)
  /\ IF at \in KeyShown THEN Say("insertSuccessful", at, r) ELSE reply' = NoReply
  /\ RunTrigger(at, "post_insert", NextBlock)
  /\ UNCHANGED <<committed, key, value, current, body, req, steps>>

(* insertRejectionOccured: the block becomes another empty row.            *)
InsertFails ==
  /\ pc = "insert"
  /\ ClearState(at)
  /\ ShowRow(at, NULL)
  /\ Say("insertRejected", at, key[at])
  /\ GoOn(NextBlock)
  /\ UNCHANGED <<dbVars, current, body, req, steps>>

-----------------------------------------------------------------------------
(* Requests: serveAsAjaxRequestTypeNative, serveAsAjaxRequestTypeHTSQL.    *)
CanStart == pc = "idle" /\ steps < MaxSteps
Count    == steps' = steps + 1

(* The rows a browser can name for block b: those it was given for it, or  *)
(* for another block of the table.                                         *)
Nameable(b) == IF b \in Writable THEN Rows \cup NewIds ELSE ReadOnlyIds

(* __itemModifiedNativeResponse: row r is only echoed.  The item's HTSQL   *)
(* trigger runs afterwards.                                                *)
ItemModified(b, r, i, v) ==
  /\ CanStart /\ Count /\ Displayed(b) /\ r \in Nameable(b)
  /\ Modify(b, r, i, v)
  /\ RunTrigger(b, "item", StepTo("idle"))
  /\ Say("itemModified", b, r)
  /\ UNCHANGED <<dbVars, key, current, body, req>>

(* __selectRowNativeResponse.  The form brings the browser's values of the *)
(* row; a value from a sequence or a master item replaces one of them.     *)
SelectRow(b, r, form) ==
  /\ CanStart /\ Count /\ Displayed(b) /\ r \in Nameable(b)
  /\ StartFlush("move", target)
  /\ req' = [block |-> b, row |-> r, form |-> form]
  /\ reply' = NoReply
  /\ UNCHANGED <<dbVars, blockVars, current, body>>

(* A button of a data block: flush, select the row (which flushes again),  *)
(* run the procedure.                                                      *)
CallOnRow(b, r, form) ==
  /\ CanStart /\ Count /\ Displayed(b) /\ r \in Nameable(b)
  /\ StartFlush("again", target)
  /\ body' = TRUE
  /\ req' = [block |-> b, row |-> r, form |-> form]
  /\ reply' = NoReply
  /\ UNCHANGED <<dbVars, blockVars, current>>

(* A button of a control block. *)
Call ==
  /\ CanStart /\ Count
  /\ StartFlush("body", target)
  /\ reply' = NoReply
  /\ UNCHANGED <<dbVars, blockVars, current, body, req>>

RunBody ==                       \* __sendHTSQLResponse
  /\ pc = "called"
  /\ RunProcedure(StepTo("idle"))
  /\ body' = FALSE
  /\ reply' = NoReply
  /\ UNCHANGED <<dbVars, blockVars, current, req, ghostVars, steps>>

SameRow == current.block = req.block /\ current.row = req.row

(* What follows the selection: nothing, or the procedure of the button.    *)
AfterSelect == GoOn(StepTo(IF body THEN "called" ELSE "idle"))

SameRowRevisited ==
  /\ pc = "move" /\ SameRow
  /\ AfterSelect
  /\ Say("selectRowSuccessful", req.block, req.row)
  /\ UNCHANGED <<dbVars, blockVars, current, body, req, ghostVars, steps>>

Move ==
  /\ pc = "move" /\ ~SameRow
  /\ \E k \in KeysFor(req.block, req.row) : key' = [key EXCEPT ![req.block] = k]
  /\ value' = [value EXCEPT ![req.block] = req.form]
  /\ Stray(req.block)
  /\ RunTrigger(req.block, "row_selected", StepTo("selected"))
  /\ reply' = NoReply
  /\ UNCHANGED <<dbVars, dirty, current, body, req, steps>>

Selected ==
  /\ pc = "selected"
  /\ current' = [block |-> req.block, row |-> key[req.block]]
  /\ AfterSelect
  /\ Say("selectRowSuccessful", req.block, key[req.block])
  /\ UNCHANGED <<dbVars, blockVars, body, req, ghostVars, steps>>

(* __sendRefreshBlockNativeResponse: refresh-block, cancel-query, create-  *)
(* record and the page requests.  The block is left on the last row it     *)
(* printed, which is empty when the query has too few rows.                *)
Refresh(b) ==
  /\ CanStart /\ Count
  /\ RunTrigger(b, "access", StepTo("refresh"))
  /\ req' = [block |-> b, row |-> NULL, form |-> Blank]
  /\ reply' = NoReply
  /\ UNCHANGED <<dbVars, blockVars, current, body, ghostVars>>

ShowBlock ==
  /\ pc = "refresh"
  /\ \E r \in Present(ConnOf[req.block]) \cup {NULL} : ShowRow(req.block, r)
  /\ Stray(req.block)
  /\ \E p \in {"refresh", "idle"} :      \* another row, or the last one
       RunTrigger(req.block, "post_query", StepTo(p))
  /\ Say("refreshed", req.block, NULL)
  /\ UNCHANGED <<dbVars, dirty, current, body, req, steps>>

ShowRefused ==         \* the access trigger, or the query failed
  /\ pc = "refresh"
  /\ GoOn(StepTo("idle"))
  /\ reply' = NoReply
  /\ UNCHANGED <<dbVars, blockVars, current, body, req, ghostVars, steps>>

(* __sendDeleteNativeResponse: __selectInternalRow moves the block without *)
(* a flush, then the pre_delete trigger decides.                           *)
Delete(b, r, form) ==
  /\ CanStart /\ Count /\ Displayed(b) /\ r \in Nameable(b)
  /\ value' = [value EXCEPT ![b] = form]
  /\ Stray(b)
  /\ req' = [block |-> b, row |-> r, form |-> form]
  /\ \E k \in KeysFor(b, r) :
       /\ key' = [key EXCEPT ![b] = k]
       /\ current' = [block |-> b, row |-> k]
  /\ RunTrigger(b, "pre_delete", StepTo("allow"))
  /\ reply' = NoReply
  /\ UNCHANGED <<dbVars, dirty, body>>

DeleteAllowed(allowed) ==
  /\ pc = "allow" /\ (allowed \/ <<req.block, "pre_delete">> \in Triggers)
  /\ GoOn(StepTo(IF allowed THEN "erase" ELSE "idle"))
  /\ IF allowed THEN reply' = NoReply ELSE Say("deleteRejected", req.block, key[req.block])
  /\ UNCHANGED <<dbVars, blockVars, current, body, req, ghostVars, steps>>

(* deleteDatablockCurrentRow; clientMessage is never set, so a failure of  *)
(* the database is answered like a success.                                *)
WithoutAny(c, k) == [working EXCEPT ![c] = [r \in Rows |-> NULL]]
Without(c, k)    == [working EXCEPT ![c][k] = NULL]

Erase(works) ==
  LET c == ConnOf[req.block]
      k == key[req.block]
  IN /\ pc = "erase"
     /\ working' = IF works /\ k \in Rows THEN Without(c, k) ELSE working
     /\ IF works THEN RunTrigger(req.block, "post_delete", StepTo("refresh"))
                 ELSE GoOn(StepTo("refresh"))
     /\ Say("deleteSuccessful", req.block, k)
     /\ UNCHANGED <<committed, blockVars, current, body, req, ghostVars, steps>>

(* __commit and __rollback, requested by the browser for every connection. *)
Commit ==
  /\ CanStart /\ Count
  /\ StartFlush("commit", Conns)
  /\ reply' = NoReply
  /\ UNCHANGED <<dbVars, blockVars, current, body, req>>

Published(cs) == [c \in Conns |-> IF c \in cs THEN working[c] ELSE committed[c]]
Restored(cs)  == [c \in Conns |-> IF c \in cs THEN committed[c] ELSE working[c]]

(* __commitSingleConnection for each target; some may fail.                *)
CommitAll ==
  /\ pc = "commit"
  /\ \E works \in SUBSET target : committed' = Published(works)
  /\ GoOn(StepTo(IF calls = <<>> THEN "idle" ELSE "procedure"))
  /\ reply' = NoReply
  /\ UNCHANGED <<working, blockVars, current, body, req, ghostVars, steps>>

(* __rollback, then the named block (if any) is refreshed.  The waiting    *)
(* edits and the rows shown stay as they are.                              *)
Rollback(b) ==
  /\ CanStart /\ Count
  /\ \E works \in SUBSET Conns : working' = Restored(works)
  /\ IF b = NULL THEN GoOn(StepTo("idle")) ELSE RunTrigger(b, "access", StepTo("refresh"))
  /\ req' = [block |-> b, row |-> NULL, form |-> Blank]
  /\ reply' = NoReply
  /\ UNCHANGED <<committed, blockVars, current, body, ghostVars>>

-----------------------------------------------------------------------------
(* Statements of a running HTSQL procedure or trigger.                     *)
InProcedure == pc = "procedure" /\ steps < MaxSteps

(* setBlockVariableValue: an edit of the server's own current row.         *)
Assign(b, i, v) ==
  /\ InProcedure /\ Count /\ Displayed(b)
  /\ Modify(b, key[b], i, v)
  /\ reply' = NoReply
  /\ UNCHANGED <<dbVars, key, current, flowVars, body, req>>

CommitOn(c) ==               \* commit(name): flushes all, commits one
  /\ InProcedure /\ Count
  /\ StartFlush("commit", {c})
  /\ reply' = NoReply
  /\ UNCHANGED <<dbVars, blockVars, current, body, req>>

RollbackOn(c) ==
  /\ InProcedure /\ Count
  /\ working' = Restored({c})
  /\ reply' = NoReply
  /\ UNCHANGED <<committed, blockVars, current, flowVars, body, req, ghostVars>>

DeleteOn(b) ==               \* delete: no refresh, but the post_delete trigger
  /\ InProcedure /\ Count /\ key[b] \in Rows
  /\ working' = Without(ConnOf[b], key[b])
  /\ RunTrigger(b, "post_delete", StepTo("procedure"))
  /\ reply' = NoReply
  /\ UNCHANGED <<committed, blockVars, current, body, req, ghostVars>>

Outer == SubSeq(calls, 1, Len(calls) - 1)

Return ==
  /\ pc = "procedure"
  /\ Become(calls[Len(calls)]) /\ calls' = Outer
  /\ reply' = NoReply
  /\ UNCHANGED <<dbVars, blockVars, current, body, req, ghostVars, steps>>

-----------------------------------------------------------------------------
Init ==
  /\ committed \in [Conns -> Table] /\ working = committed
  /\ key = [b \in Blocks |-> NULL]
  /\ value = [b \in Blocks |-> Blank]
  /\ dirty = [b \in Blocks |-> {}]
  /\ current = Here
  /\ pc = "idle" /\ at = 1 /\ after = "move" /\ target = {} /\ calls = <<>> /\ body = FALSE
  /\ req = [block |-> NULL, row |-> NULL, form |-> Blank]
  /\ reply = NoReply
  /\ home = [b \in Blocks |-> NULL] /\ strayed = [b \in Blocks |-> FALSE]
  /\ late = [b \in Blocks |-> 0]
  /\ steps = 0

FlushStep ==
  \/ FlushClean \/ FlushModified \/ UpdateWorks \/ InsertFails
  \/ \E read \in BOOLEAN : UpdateFails(read)
  \/ \E r \in Rows : InsertWorks(r)

Request ==
  \/ Call \/ Commit
  \/ \E b \in Blocks \cup {NULL} : Rollback(b)
  \/ \E b \in Blocks :
       \/ Refresh(b)
       \/ \E r \in RowIds :
            \/ \E i \in Items, v \in Values : ItemModified(b, r, i, v)
            \/ \E form \in Record :
                 SelectRow(b, r, form) \/ CallOnRow(b, r, form) \/ Delete(b, r, form)

HandlerStep ==
  \/ SameRowRevisited \/ Move \/ Selected \/ RunBody \/ ShowBlock \/ ShowRefused \/ CommitAll
  \/ \E yes \in BOOLEAN : DeleteAllowed(yes) \/ Erase(yes)

Statement ==
  \/ Return
  \/ \E c \in Conns : CommitOn(c) \/ RollbackOn(c)
  \/ \E b \in Blocks : DeleteOn(b) \/ \E i \in Items, v \in Values : Assign(b, i, v)

Next == FlushStep \/ Request \/ HandlerStep \/ Statement

Spec == Init /\ [][Next]_vars
-----------------------------------------------------------------------------
TypeOK ==
  /\ committed \in [Conns -> Table] /\ working \in [Conns -> Table]
  /\ key \in [Blocks -> RowIds \cup {NULL}]
  /\ value \in [Blocks -> Record]
  /\ dirty \in [Blocks -> SUBSET Items]
  /\ current \in [block : Blocks \cup {NULL}, row : RowIds \cup {NULL}]
  /\ pc \in Steps /\ at \in Blocks /\ after \in Purposes /\ target \in SUBSET Conns
  /\ calls \in Seq(Frame) /\ (pc = "procedure" => calls # <<>>)
  /\ body \in BOOLEAN
  /\ req \in [block : Blocks \cup {NULL}, row : RowIds \cup {NULL}, form : Record]
  /\ reply \in [type : Replies, block : Blocks \cup {NULL}, row : RowIds \cup {NULL}]
  /\ home \in [Blocks -> RowIds \cup {NULL}]
  /\ strayed \in [Blocks -> BOOLEAN]
  /\ late \in [Blocks -> Nat]
  /\ steps \in Nat

(* A flush writes an edit to the row the user made it on, or, for an edit  *)
(* of an empty row, to a row that did not exist; it touches no other row   *)
(* and no other connection, whatever rows are selected in between and      *)
(* whatever triggers do.  The block must not have strayed: it does when it *)
(* is printed again, a delete moves it or a row change finds late edits in *)
(* it, and when an item-modified names another row than the server's       *)
(* current one.                                                            *)
WritesHome ==
  pc \in {"update", "insert"} /\ dirty[at] # {} /\ ~strayed[at] =>
    \A c \in Conns, r \in Rows :
      working'[c][r] # working[c][r] =>
        /\ c = ConnOf[at]
        /\ r = home[at] \/ (home[at] \in NewIds /\ working[c][r] = NULL)
FlushWritesHome == [][WritesHome]_vars

(* When a transaction is committed, the page moves to another row or the   *)
(* procedure of a button begins, no edit that was there when the flush for *)
(* it began is still waiting: nothing is left out of the commit and        *)
(* nothing follows the block to its next row                               *)
(* (updateOrInsertAllDataBlocksCurrentRow visits every block).  What may   *)
(* wait are the edits that triggers of this very flush made (late), and a  *)
(* block whose first edited input is the row id.                           *)
FlushedBefore ==
  pc \in {"commit", "move"} \/ (pc = "called" /\ ~body) =>
    \A b \in Blocks : dirty[b] # {} => late[b] > Len(calls) \/ Skipped(b)

(* todo.h:80: when a pre_ trigger returns false the changed row goes back  *)
(* to its former values.  The rejected edits are neither written nor kept, *)
(* an updated row shows the database's values and an inserted one is empty *)
(* (updateRejectionOccured, insertRejectionOccured).  The block stays on   *)
(* its row only if the key is among the columns read: otherwise it shows   *)
(* the row under the id of a new one.                                      *)
Restores ==
  pc \in {"update", "insert"} /\ reply'.type \in {"updateRejected", "insertRejected"} =>
    /\ working' = working /\ dirty'[at] = {}
    /\ IF reply'.type = "updateRejected" /\ key[at] \in Present(ConnOf[at])
       THEN /\ value'[at] = working[ConnOf[at]][key[at]]
            /\ IF at \in KeyShown THEN key'[at] = key[at] ELSE key'[at] \in NewIds
       ELSE value'[at] = Blank
RejectionRestores == [][Restores]_vars

(* A table shown by read only blocks alone never changes, although edits,  *)
(* deletes and their flushes are not checked against insertAllowed,        *)
(* updateAllowed or deleteAllowed: the READONLY row id matches no row.     *)
ReadOnly(c) == \A b \in Writable : ConnOf[b] # c
ReadOnlyKept ==
  \A c \in Conns :
    ReadOnly(c) /\ working[c] = committed[c]
      => working'[c] = working[c] /\ committed'[c] = committed[c]
ReadOnlyTables == [][ReadOnlyKept]_vars

(* The blocks keep what the row store promises about the databases: a step *)
(* changes one row of one transaction, or commits or rolls back whole      *)
(* transactions; no handler writes half a transaction.                     *)
Store == INSTANCE RowStore
ImplementsStore == Store!Spec
=============================================================================
