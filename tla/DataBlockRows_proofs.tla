------------------------ MODULE DataBlockRows_proofs ------------------------
(***************************************************************************)
(* Theorems about DataBlockRows for any blocks, connections, triggers, row *)
(* ids, inputs and values and any number of requests, HTSQL statements and *)
(* flushes within flushes.                                                 *)
(***************************************************************************)
EXTENDS DataBlockRows, SequenceTheorems, TLAPS

(***************************************************************************)
(* The stages: where each running procedure returns to, and the step that  *)
(* comes next, the last of them.                                           *)
(***************************************************************************)
InFlush(f) == f.pc \in {"flush", "update", "insert"}
Depth == Len(calls) + 1

(* A stage of the request's own handler, not of a commit in a procedure.   *)
Own(f) ==
  \/ f.pc \in {"idle", "move", "selected", "called", "refresh", "allow", "erase"}
  \/ InFlush(f) /\ f.after # "commit"

(* A stage that ends in a row change, and one that works on the block of   *)
(* the request.                                                            *)
ToMove(f)  == f.pc = "move" \/ (InFlush(f) /\ f.after \in {"move", "again"})
OnBlock(f) == f.pc \in {"selected", "refresh", "allow", "erase"} \/ ToMove(f)

(* The flush of a stage has passed block b.                                *)
Passed(f, b) ==
  \/ InFlush(f) /\ b < f.at
  \/ f.pc \in {"commit", "move"} \/ (f.pc = "called" /\ ~body)

(* What waits in block b was edited by procedures on top of stage i, or    *)
(* the block is left out.                                                  *)
Settled(b, i) == dirty[b] = {} \/ late[b] >= i \/ Skipped(b)

(* What holds of the stage f at place i.                                   *)
Good(f, i) ==
  /\ Own(f) => i = 1
  /\ f.pc = "procedure" => i > 1
  /\ OnBlock(f) => req.block \in Blocks
  /\ ToMove(f) => req.row \in Nameable(req.block)
  /\ f.pc = "insert" => key[f.at] \in NewIds
  /\ \A b \in Blocks : Passed(f, b) => Settled(b, i)

StagesGood ==
  /\ \A i \in 1 .. Len(calls) : Good(calls[i], i)
  /\ Good(StepTo(pc), Depth)

(* A block that has not strayed is still on the row of its edits. *)
EditsAtHome ==
  \A b \in Blocks : dirty[b] # {} /\ ~strayed[b] => key[b] = home[b]

(* A row id names a row or a new row in a writable block, and neither in a *)
(* read only one.                                                          *)
KeyKinds == \A b \in Blocks : key[b] \in Nameable(b) \cup {NULL}

(* The types of the flow of control and of the rest.                       *)
FlowTypes ==
  /\ pc \in Steps /\ at \in Blocks /\ after \in Purposes /\ target \in SUBSET Conns
  /\ calls \in Seq(Frame)

DataTypes ==
  /\ committed \in [Conns -> Table] /\ working \in [Conns -> Table]
  /\ key \in [Blocks -> RowIds \cup {NULL}]
  /\ value \in [Blocks -> Record]
  /\ dirty \in [Blocks -> SUBSET Items]
  /\ current \in [block : Blocks \cup {NULL}, row : RowIds \cup {NULL}]
  /\ body \in BOOLEAN
  /\ req \in [block : Blocks \cup {NULL}, row : RowIds \cup {NULL}, form : Record]
  /\ reply \in [type : Replies, block : Blocks \cup {NULL}, row : RowIds \cup {NULL}]
  /\ home \in [Blocks -> RowIds \cup {NULL}]
  /\ strayed \in [Blocks -> BOOLEAN]
  /\ late \in [Blocks -> Nat]
  /\ steps \in Nat

(* The inductive invariant.                                                *)
IInv == FlowTypes /\ DataTypes /\ StagesGood /\ KeyKinds /\ EditsAtHome

-----------------------------------------------------------------------------
(* The stack: what is pushed is returned to.                               *)
LEMMA StackFacts ==
  ASSUME NEW S, NEW s \in Seq(S), NEW x \in S
  PROVE  /\ Append(s, x) \in Seq(S) /\ Len(Append(s, x)) = Len(s) + 1
         /\ \A i \in 1 .. Len(s) : Append(s, x)[i] = s[i]
         /\ Append(s, x)[Len(s) + 1] = x
         /\ s # <<>> => /\ SubSeq(s, 1, Len(s) - 1) \in Seq(S)
                        /\ Len(SubSeq(s, 1, Len(s) - 1)) = Len(s) - 1
                        /\ Len(s) \in 1 .. Len(s) /\ s[Len(s)] \in S
                        /\ \A i \in 1 .. Len(s) - 1 : SubSeq(s, 1, Len(s) - 1)[i] = s[i]
<1>1. Len(s) \in Nat /\ (s # <<>> => Len(s) > 0)
  OBVIOUS
<1>2. /\ Append(s, x) \in Seq(S) /\ Len(Append(s, x)) = Len(s) + 1
      /\ \A i \in 1 .. Len(s) : Append(s, x)[i] = s[i]
      /\ Append(s, x)[Len(s) + 1] = x
  OBVIOUS
<1>3. ASSUME s # <<>>
      PROVE  /\ SubSeq(s, 1, Len(s) - 1) \in Seq(S)
             /\ Len(SubSeq(s, 1, Len(s) - 1)) = Len(s) - 1
             /\ Len(s) \in 1 .. Len(s) /\ s[Len(s)] \in S
             /\ \A i \in 1 .. Len(s) - 1 : SubSeq(s, 1, Len(s) - 1)[i] = s[i]
  <2>1. PICK n \in Nat : n = Len(s) /\ n > 0 /\ n - 1 \in Int /\ 1 \in Int
    BY <1>1, <1>3
  <2>2. \A i \in 1 .. n : s[i] \in S
    BY <2>1
  <2>3. /\ SubSeq(s, 1, n - 1) \in Seq(S)
        /\ Len(SubSeq(s, 1, n - 1)) = IF 1 <= n - 1 THEN n - 1 - 1 + 1 ELSE 0
        /\ \A i \in 1 .. n - 1 - 1 + 1 : SubSeq(s, 1, n - 1)[i] = s[1 + i - 1]
    BY <2>1, <2>2, SubSeqProperties
  <2>4. \A i \in 1 .. n - 1 : SubSeq(s, 1, n - 1)[i] = s[i]
    BY <2>1, <2>3
  <2> QED BY <2>1, <2>2, <2>3, <2>4
<1> QED BY <1>2, <1>3

(* What a step leaves of a stage at place i or below.                      *)
Quiet(i) ==
  /\ req' = req /\ body' = body
  /\ \A b \in Blocks : key[b] \in NewIds => key'[b] \in NewIds
  /\ \A b \in Blocks :
       \/ dirty'[b] = {} \/ late'[b] >= i
       \/ dirty'[b] = dirty[b] /\ (late[b] >= i => late'[b] >= i)

(* A quiet step keeps what holds of a stage.                               *)
LEMMA GoodKept ==
  ASSUME NEW f \in Frame, NEW i \in Nat, Good(f, i), Quiet(i)
  PROVE  Good(f, i)'
<1>1. f.at \in Blocks
  BY DEF Frame
<1>2. ASSUME NEW b \in Blocks, Settled(b, i)  PROVE Settled(b, i)'
  BY <1>2 DEF Quiet, Settled, Skipped
<1>3. \A b \in Blocks : Passed(f, b)' => Passed(f, b)
  BY DEF Quiet, Passed, InFlush
<1> QED BY <1>1, <1>2, <1>3 DEF Good, Quiet, Own, OnBlock, ToMove, InFlush

(* A step that goes on at f, or runs a procedure first, keeps the stages.  *)
LEMMA Continues ==
  ASSUME FlowTypes, StagesGood, \A i \in 1 .. Len(calls) : Quiet(i),
         NEW f \in Frame, NEW d \in Nat, d = Depth, Good(f, d)',
         GoOn(f) \/ RunProcedure(f)
  PROVE  FlowTypes' /\ StagesGood'
<1>1. /\ f.pc \in Steps /\ f.at \in Blocks /\ f.after \in Purposes /\ f.target \in SUBSET Conns
      /\ f = [pc |-> f.pc, at |-> f.at, after |-> f.after, target |-> f.target]
  BY DEF Frame
<1>2. PICK n \in Nat : n = Len(calls) /\ d = n + 1
  BY DEF FlowTypes, Depth
<1>3. ASSUME NEW i \in 1 .. n, NEW g, g = calls[i]
      PROVE  Good(g, i)'
  <2>1. g \in Frame /\ Good(g, i) /\ Quiet(i) /\ i \in Nat
    BY <1>2, <1>3 DEF FlowTypes, StagesGood
  <2> QED BY <2>1, GoodKept
<1>4. CASE GoOn(f)
  <2>1. FlowTypes'
    BY <1>1, <1>4 DEF FlowTypes, GoOn, Become
  <2>2. Len(calls') = n /\ \A i \in 1 .. n : calls'[i] = calls[i]
    BY <1>2, <1>4 DEF GoOn
  <2>3. \A i \in 1 .. Len(calls') : Good(calls[i], i)'
    <3> SUFFICES ASSUME NEW i \in 1 .. n  PROVE Good(calls[i], i)'
      BY <2>2
    <3>1. PICK g : g = calls[i]
      OBVIOUS
    <3>2. Good(g, i)' /\ calls'[i] = g
      BY <1>3, <2>2, <3>1
    <3> QED BY <3>2
  <2>4. Good(StepTo(pc), Depth)'
    <3>1. StepTo(pc)' = f /\ Depth' = d
      BY <1>1, <1>2, <1>4, <2>2 DEF GoOn, Become, StepTo, Depth
    <3> QED BY <3>1
  <2> QED BY <2>1, <2>3, <2>4 DEF StagesGood
<1>5. CASE RunProcedure(f)
  <2>1. calls' = Append(calls, f) /\ pc' = "procedure" /\ UNCHANGED <<at, after, target>>
    BY <1>5 DEF RunProcedure
  <2>2. /\ calls' \in Seq(Frame) /\ Len(calls') = n + 1
        /\ \A i \in 1 .. n : calls'[i] = calls[i]
        /\ calls'[n + 1] = f
    BY <1>2, <2>1, StackFacts DEF FlowTypes
  <2>3. FlowTypes'
    BY <2>1, <2>2 DEF FlowTypes, Steps
  <2>4. \A i \in 1 .. Len(calls') : Good(calls[i], i)'
    <3> SUFFICES ASSUME NEW i \in 1 .. n + 1  PROVE Good(calls[i], i)'
      BY <2>2
    <3>1. CASE i \in 1 .. n
      <4>1. PICK g : g = calls[i]
        OBVIOUS
      <4>2. Good(g, i)' /\ calls'[i] = g
        BY <1>3, <2>2, <3>1, <4>1
      <4> QED BY <4>2
    <3>2. CASE i = n + 1
      <4>1. calls'[i] = f /\ d = i
        BY <1>2, <2>2, <3>2
      <4> QED BY <4>1
    <3> QED BY <3>1, <3>2
  <2>5. Good(StepTo(pc), Depth)'
    <3>1. Depth' = n + 2
      BY <2>2 DEF Depth
    <3> QED BY <2>1, <3>1 DEF Good, StepTo, Own, OnBlock, ToMove, InFlush, Passed
  <2> QED BY <2>3, <2>4, <2>5 DEF StagesGood
<1> QED BY <1>4, <1>5

(* A return goes on at the stage below.                                    *)
LEMMA Returns ==
  ASSUME FlowTypes, StagesGood, \A i \in 1 .. Len(calls) : Quiet(i),
         calls # <<>>, Become(calls[Len(calls)]), calls' = Outer
  PROVE  FlowTypes' /\ StagesGood'
<1>1. PICK n \in Nat : n = Len(calls)
  BY DEF FlowTypes
<1>2. /\ calls' \in Seq(Frame) /\ Len(calls') = n - 1 /\ n \in 1 .. n
      /\ \A i \in 1 .. n - 1 : calls'[i] = calls[i]
  <2>1. PICK x : x \in Frame
    BY StackFacts DEF FlowTypes
  <2> QED BY <1>1, <2>1, StackFacts DEF FlowTypes, Outer
<1>3. PICK f \in Frame : f = calls[n]
  BY <1>1, <1>2 DEF FlowTypes
<1>4. /\ f.pc \in Steps /\ f.at \in Blocks /\ f.after \in Purposes /\ f.target \in SUBSET Conns
      /\ f = [pc |-> f.pc, at |-> f.at, after |-> f.after, target |-> f.target]
  BY DEF Frame
<1>5. ASSUME NEW i \in 1 .. n, NEW g, g = calls[i]
      PROVE  Good(g, i)'
  <2>1. g \in Frame /\ Good(g, i) /\ Quiet(i) /\ i \in Nat
    BY <1>1, <1>5 DEF FlowTypes, StagesGood
  <2> QED BY <2>1, GoodKept
<1>6. FlowTypes'
  BY <1>1, <1>2, <1>3, <1>4 DEF FlowTypes, Become
<1>7. \A i \in 1 .. Len(calls') : Good(calls[i], i)'
  <2> SUFFICES ASSUME NEW i \in 1 .. n - 1  PROVE Good(calls[i], i)'
    BY <1>2
  <2>1. PICK g : g = calls[i]
    OBVIOUS
  <2>2. Good(g, i)' /\ calls'[i] = g
    BY <1>2, <1>5, <2>1
  <2> QED BY <2>2
<1>8. Good(StepTo(pc), Depth)'
  <2>1. StepTo(pc)' = f /\ Depth' = n /\ Good(f, n)'
    BY <1>1, <1>2, <1>3, <1>4, <1>5 DEF Become, StepTo, Depth
  <2> QED BY <2>1
<1> QED BY <1>6, <1>7, <1>8 DEF StagesGood

(* A statement of the running procedure keeps the stages below it.         *)
LEMMA Stays ==
  ASSUME FlowTypes, StagesGood, \A i \in 1 .. Len(calls) : Quiet(i),
         pc = "procedure", UNCHANGED flowVars
  PROVE  FlowTypes' /\ StagesGood'
<1>1. FlowTypes' /\ Depth' = Depth
  BY DEF FlowTypes, flowVars, Depth
<1>2. \A i \in 1 .. Len(calls') : Good(calls[i], i)'
  <2> SUFFICES ASSUME NEW i \in 1 .. Len(calls)  PROVE Good(calls[i], i)'
    BY DEF flowVars
  <2>1. PICK g \in Frame : g = calls[i]
    BY DEF FlowTypes
  <2>2. Good(g, i) /\ Quiet(i) /\ i \in Nat
    BY <2>1 DEF FlowTypes, StagesGood
  <2>3. Good(g, i)' /\ calls'[i] = g
    BY <2>1, <2>2, GoodKept DEF flowVars
  <2> QED BY <2>3
<1>3. Good(StepTo(pc), Depth)'
  BY <1>1 DEF StagesGood, flowVars, Good, StepTo, Own, OnBlock, ToMove, InFlush, Passed
<1> QED BY <1>1, <1>2, <1>3 DEF StagesGood

(* A step of the request's own handler has no procedure below it.          *)
LEMMA OwnAlone ==
  ASSUME FlowTypes, StagesGood,
         pc \in {"idle", "move", "selected", "called", "refresh", "allow", "erase"}
  PROVE  calls = <<>> /\ Depth = 1 /\ \A i \in 1 .. Len(calls) : Quiet(i)
<1>1. PICK n \in Nat : n = Len(calls) /\ Depth = n + 1
  BY DEF FlowTypes, Depth
<1>2. Depth = 1
  BY DEF StagesGood, Good, StepTo, Own
<1> QED BY <1>1, <1>2 DEF FlowTypes

(* A handler that works on the block of its request has one.               *)
LEMMA HasBlock ==
  ASSUME StagesGood, pc \in {"move", "selected", "refresh", "allow", "erase"}
  PROVE  /\ req.block \in Blocks
         /\ pc = "move" => req.row \in Nameable(req.block)
BY DEF StagesGood, Good, StepTo, OnBlock, ToMove

(* The flush goes on when the present block is settled.                    *)
LEMMA NextGood ==
  ASSUME FlowTypes, pc \in {"flush", "update", "insert"},
         NEW d \in Nat, Good(StepTo(pc), d), req' = req, body' = body,
         NEW a \in Blocks, a = at, Settled(a, d)',
         \A b \in Blocks \ {a} : dirty'[b] = dirty[b] /\ late'[b] = late[b],
         NEW f, f = NextBlock
  PROVE  f \in Frame /\ Good(f, d)'
<1> USE ConstantsAssumption
<1>1. a \in Nat /\ a <= NBlocks /\ NBlocks \in Nat /\ 1 \in Blocks
  BY DEF Blocks
<1>2. f \in Frame
  BY <1>1 DEF FlowTypes, NextBlock, LastBlock, FlushTo, Frame, Steps, Purposes, Blocks
<1>3. \A b \in Blocks : InFlush(StepTo(pc)) /\ b < a => Settled(b, d)
  BY DEF Good, Passed, StepTo
<1>4. \A b \in Blocks : b < a => Settled(b, d)'
  BY <1>1, <1>3 DEF InFlush, StepTo, Settled, Skipped, Blocks
<1>5. \A b \in Blocks : b <= a => Settled(b, d)'
  BY <1>1, <1>4 DEF Blocks
<1>6. \A b \in Blocks : Passed(f, b)' => b <= a
  <2> TAKE b \in Blocks
  <2>1. b \in Nat /\ b <= NBlocks
    BY DEF Blocks
  <2>2. CASE LastBlock
    BY <1>1, <2>1, <2>2 DEF LastBlock
  <2>3. CASE ~LastBlock
    BY <1>1, <2>1, <2>3 DEF NextBlock, Passed, InFlush
  <2> QED BY <2>2, <2>3
<1>7. Own(f) => d = 1
  BY DEF Good, Own, StepTo, InFlush, NextBlock, FlushTo, FlowTypes, Purposes
<1>8. /\ (OnBlock(f) => req.block \in Blocks)
      /\ (ToMove(f) => req.row \in Nameable(req.block))
  BY DEF Good, OnBlock, ToMove, StepTo, InFlush, NextBlock, FlushTo, FlowTypes, Purposes
<1>9. f.pc # "procedure" /\ f.pc # "insert"
  BY DEF NextBlock, FlushTo, FlowTypes, Purposes
<1> QED BY <1>2, <1>5, <1>6, <1>7, <1>8, <1>9 DEF Good, Own, OnBlock, ToMove, InFlush

-----------------------------------------------------------------------------
(* Replacing one row of one table gives tables again. *)
LEMMA PutTyped ==
  ASSUME NEW f \in [Conns -> Table], NEW c \in Conns, NEW r \in Rows,
         NEW rec \in Record \cup {NULL}
  PROVE  [f EXCEPT ![c][r] = rec] \in [Conns -> Table]
BY DEF Table

(* An empty row is a record. *)
LEMMA BlankTyped == Blank \in Record
BY DEF Blank, Record

(* The edited and the inserted record are records. *)
LEMMA RowsTyped ==
  ASSUME DataTypes, NEW b \in Blocks
  PROVE  /\ \A rec \in Record : Edited(b, rec) \in Record
         /\ Inserted(b) \in Record
         /\ Blank \in Record
BY DEF DataTypes, Edited, Inserted, Record, Blank

(* The row ids a block may get are row ids. *)
LEMMA KeysTyped ==
  ASSUME NEW b, NEW r \in RowIds \cup {NULL}
  PROVE  KeysFor(b, r) \subseteq RowIds
BY DEF KeysFor, RowIds

(* Showing a row of the table, or an empty one, keeps ids and records.     *)
LEMMA ShowTyped ==
  ASSUME DataTypes, NEW b \in Blocks, NEW r \in Present(ConnOf[b]) \cup {NULL},
         ShowRow(b, r)
  PROVE  key' \in [Blocks -> RowIds \cup {NULL}] /\ value' \in [Blocks -> Record]
<1>1. Blank \in Record
  BY BlankTyped
<1>2. ASSUME r # NULL  PROVE working[ConnOf[b]][r] \in Record
  BY <1>2, ConstantsAssumption DEF DataTypes, Table, Present
<1>3. Stored(b, r) \in Record
  BY <1>1, <1>2 DEF Stored
<1>4. KeyRead(b, r) \in RowIds \cup {NULL}
  BY DEF KeyRead, RowIds, Present
<1>5. KeysFor(b, KeyRead(b, r)) \subseteq RowIds
  BY <1>4, KeysTyped
<1> QED BY <1>3, <1>5 DEF DataTypes, ShowRow

(* So does reading a rejected row again. *)
LEMMA RereadTyped ==
  ASSUME DataTypes, NEW b \in Blocks, NEW read \in BOOLEAN, Reread(b, read)
  PROVE  key' \in [Blocks -> RowIds \cup {NULL}] /\ value' \in [Blocks -> Record]
<1>1. CASE read
  <2> DEFINE r == IF key[b] \in Present(ConnOf[b]) THEN key[b] ELSE NULL
  <2>1. ShowRow(b, r)
    BY <1>1 DEF Reread
  <2>2. r \in Present(ConnOf[b]) \cup {NULL}
    OBVIOUS
  <2> HIDE DEF r
  <2> QED BY <2>1, <2>2, ShowTyped
<1>2. CASE ~read
  BY <1>2 DEF Reread, DataTypes
<1> QED BY <1>1, <1>2

(* An edit keeps records, sets of inputs and the history of the block.     *)
LEMMA ModifyTyped ==
  ASSUME FlowTypes, DataTypes, NEW b \in Blocks, NEW r \in RowIds \cup {NULL},
         NEW i \in Items, NEW v \in Values, Modify(b, r, i, v)
  PROVE  /\ value' \in [Blocks -> Record]
         /\ dirty' \in [Blocks -> SUBSET Items]
         /\ home' \in [Blocks -> RowIds \cup {NULL}]
         /\ strayed' \in [Blocks -> BOOLEAN]
         /\ late' \in [Blocks -> Nat]
<1>1. [value[b] EXCEPT ![i] = v] \in Record
  BY DEF DataTypes, Record
<1>2. value' \in [Blocks -> Record]
  BY <1>1 DEF DataTypes, Modify
<1>3. strayed' \in [Blocks -> BOOLEAN]
  BY DEF DataTypes, Modify
<1>4. Len(calls) \in Nat
  BY DEF FlowTypes
<1>5. late' \in [Blocks -> Nat]
  BY <1>4 DEF DataTypes, Modify
<1> QED BY <1>2, <1>3, <1>5 DEF DataTypes, Modify

(* A flush that begins forgets who is above it.                            *)
LEMMA StartTyped ==
  ASSUME FlowTypes, DataTypes, NEW for, NEW conns, StartFlush(for, conns)
  PROVE  /\ home' = home /\ strayed' = strayed /\ late' \in [Blocks -> Nat]
         /\ \A b \in Blocks, i \in Nat :
              i <= Len(calls) /\ late[b] >= i => late'[b] >= i
<1>1. PICK n \in Nat : n = Len(calls)
  BY DEF FlowTypes
<1>2. late' = [b \in Blocks |-> IF late[b] < n THEN late[b] ELSE n]
  BY <1>1 DEF StartFlush
<1> QED BY <1>1, <1>2 DEF DataTypes, StartFlush

(* Clearing a block, or letting it stray, keeps the history.               *)
LEMMA ClearTyped ==
  ASSUME DataTypes, NEW b \in Blocks, ClearState(b)
  PROVE  /\ dirty' \in [Blocks -> SUBSET Items] /\ home' \in [Blocks -> RowIds \cup {NULL}]
         /\ strayed' \in [Blocks -> BOOLEAN] /\ late' \in [Blocks -> Nat]
         /\ dirty'[b] = {} /\ \A o \in Blocks \ {b} : dirty'[o] = dirty[o] /\ late'[o] = late[o]
         /\ \A o \in Blocks \ {b} : home'[o] = home[o] /\ strayed'[o] = strayed[o]
BY DEF DataTypes, ClearState

(* Every step keeps the data in their types. *)
LEMMA DataStep ==
  ASSUME FlowTypes, DataTypes, StagesGood, [Next]_vars
  PROVE  DataTypes'
<1> USE ConstantsAssumption DEF dbVars, blockVars, ghostVars, NoReply, Replies, DataTypes
<1>0. at \in Blocks
  BY DEF FlowTypes
<1>1. CASE FlushStep
  <2>1. CASE UpdateWorks
    <3>1. working' \in [Conns -> Table]
      BY <1>0, <2>1, PutTyped, RowsTyped DEF UpdateWorks, Present, Table
    <3>2. ClearState(at)
      BY <2>1 DEF UpdateWorks
    <3> QED BY <1>0, <2>1, <3>1, <3>2, ClearTyped DEF UpdateWorks, Say
  <2>2. ASSUME NEW read \in BOOLEAN, UpdateFails(read)
        PROVE  DataTypes'
    <3>1. key' \in [Blocks -> RowIds \cup {NULL}] /\ value' \in [Blocks -> Record]
      BY <1>0, <2>2, RereadTyped DEF UpdateFails
    <3>2. ClearState(at)
      BY <2>2 DEF UpdateFails
    <3> QED BY <1>0, <2>2, <3>1, <3>2, ClearTyped DEF UpdateFails, Say
  <2>3. ASSUME NEW r \in Rows, InsertWorks(r)
        PROVE  DataTypes'
    <3>1. working' \in [Conns -> Table]
      BY <1>0, <2>3, PutTyped, RowsTyped DEF InsertWorks
    <3>2. reply' \in [type : Replies, block : Blocks \cup {NULL}, row : RowIds \cup {NULL}]
      BY <1>0, <2>3 DEF InsertWorks, Say, RowIds
    <3>3. ClearState(at)
      BY <2>3 DEF InsertWorks
    <3> QED BY <1>0, <2>3, <3>1, <3>2, <3>3, ClearTyped DEF InsertWorks
  <2>4. CASE InsertFails
    <3>1. key' \in [Blocks -> RowIds \cup {NULL}] /\ value' \in [Blocks -> Record]
      BY <1>0, <2>4, ShowTyped DEF InsertFails
    <3>2. ClearState(at)
      BY <2>4 DEF InsertFails
    <3> QED BY <1>0, <2>4, <3>1, <3>2, ClearTyped DEF InsertFails, Say
  <2>5. CASE FlushClean \/ FlushModified
    BY <2>5 DEF FlushClean, FlushModified
  <2> QED BY <1>1, <2>1, <2>2, <2>3, <2>4, <2>5 DEF FlushStep
<1>2. CASE Request
  <2>1. ASSUME NEW b \in Blocks \cup {NULL}, Rollback(b)
        PROVE  DataTypes'
    BY <2>1, BlankTyped DEF Rollback, Count, Restored
  <2>2. ASSUME NEW b \in Blocks, Refresh(b)
        PROVE  DataTypes'
    BY <2>2, BlankTyped DEF Refresh, Count
  <2>3. ASSUME NEW b \in Blocks, NEW r \in RowIds, NEW i \in Items,
               NEW v \in Values, ItemModified(b, r, i, v)
        PROVE  DataTypes'
    BY <2>3, ModifyTyped DEF ItemModified, Count, Say
  <2>4. ASSUME NEW b \in Blocks, NEW r \in RowIds, NEW form \in Record,
               SelectRow(b, r, form)
        PROVE  DataTypes'
    BY <2>4, StartTyped DEF SelectRow, Count
  <2>5. ASSUME NEW b \in Blocks, NEW r \in RowIds, NEW form \in Record,
               CallOnRow(b, r, form)
        PROVE  DataTypes'
    BY <2>5, StartTyped DEF CallOnRow, Count
  <2>6. ASSUME NEW b \in Blocks, NEW r \in RowIds, NEW form \in Record,
               Delete(b, r, form)
        PROVE  DataTypes'
    BY <2>6, KeysTyped DEF Delete, Count, Stray
  <2>7. CASE Call
    BY <2>7, StartTyped DEF Call, Count
  <2>8. CASE Commit
    BY <2>8, StartTyped DEF Commit, Count
  <2> QED BY <1>2, <2>1, <2>2, <2>3, <2>4, <2>5, <2>6, <2>7, <2>8 DEF Request
<1>3. CASE HandlerStep
  <2>1. CASE SameRowRevisited
    BY <2>1, HasBlock DEF SameRowRevisited, Say
  <2>2. CASE Move
    <3>1. PICK k \in KeysFor(req.block, req.row) : key' = [key EXCEPT ![req.block] = k]
      BY <2>2 DEF Move
    <3>2. k \in RowIds /\ req.block \in Blocks
      BY <2>2, KeysTyped, HasBlock DEF Move
    <3>3. strayed' \in [Blocks -> BOOLEAN]
      BY <2>2 DEF Move, Stray
    <3> QED BY <2>2, <3>1, <3>2, <3>3 DEF Move, Stray
  <2>3. CASE Selected
    BY <2>3, HasBlock DEF Selected, Say
  <2>4. CASE ShowBlock
    <3>1. key' \in [Blocks -> RowIds \cup {NULL}] /\ value' \in [Blocks -> Record]
      BY <2>4, ShowTyped, HasBlock DEF ShowBlock
    <3>2. strayed' \in [Blocks -> BOOLEAN]
      BY <2>4 DEF ShowBlock, Stray
    <3> QED BY <2>4, <3>1, <3>2, HasBlock DEF ShowBlock, Say, Stray
  <2>5. CASE CommitAll
    BY <2>5 DEF CommitAll, Published
  <2>6. ASSUME NEW works \in BOOLEAN, Erase(works)
        PROVE  DataTypes'
    <3>1. working' \in [Conns -> Table]
      BY <2>6, PutTyped, HasBlock DEF Erase, Without
    <3> QED BY <2>6, <3>1, HasBlock DEF Erase, Say
  <2>7. CASE ShowRefused \/ RunBody
    <3>1. /\ UNCHANGED <<dbVars, blockVars, current, req, ghostVars, steps>>
          /\ body' \in {body, FALSE} /\ reply' = NoReply
      BY <2>7 DEF ShowRefused, RunBody
    <3> QED BY <3>1
  <2>8. ASSUME NEW yes \in BOOLEAN, DeleteAllowed(yes)
        PROVE  DataTypes'
    BY <2>8, HasBlock DEF DeleteAllowed, Say
  <2> QED BY <1>3, <2>1, <2>2, <2>3, <2>4, <2>5, <2>6, <2>7, <2>8 DEF HandlerStep
<1>4. CASE Statement
  <2>1. ASSUME NEW c \in Conns, RollbackOn(c)
        PROVE  DataTypes'
    BY <2>1 DEF RollbackOn, Count, Restored
  <2>2. ASSUME NEW b \in Blocks, DeleteOn(b)
        PROVE  DataTypes'
    <3>1. working' \in [Conns -> Table]
      BY <2>2, PutTyped DEF DeleteOn, Without
    <3> QED BY <2>2, <3>1 DEF DeleteOn, Count
  <2>3. ASSUME NEW b \in Blocks, NEW i \in Items, NEW v \in Values,
               Assign(b, i, v)
        PROVE  DataTypes'
    <3>1. key[b] \in RowIds \cup {NULL}
      OBVIOUS
    <3>2. Modify(b, key[b], i, v)
      BY <2>3 DEF Assign
    <3>3. /\ value' \in [Blocks -> Record] /\ dirty' \in [Blocks -> SUBSET Items]
          /\ home' \in [Blocks -> RowIds \cup {NULL}] /\ strayed' \in [Blocks -> BOOLEAN]
          /\ late' \in [Blocks -> Nat]
      BY <3>1, <3>2, ModifyTyped
    <3> QED BY <2>3, <3>3 DEF Assign, Count
  <2>4. ASSUME NEW c \in Conns, CommitOn(c)
        PROVE  DataTypes'
    BY <2>4, StartTyped DEF CommitOn, Count
  <2>5. CASE Return
    BY <2>5 DEF Return
  <2> QED BY <1>4, <2>1, <2>2, <2>3, <2>4, <2>5 DEF Statement
<1>5. CASE UNCHANGED vars
  BY <1>5 DEF vars
<1> QED BY <1>1, <1>2, <1>3, <1>4, <1>5 DEF Next

-----------------------------------------------------------------------------
(* A row id that names a row, or a new one, is a writable block's. *)
LEMMA RowOfWritable ==
  ASSUME KeyKinds, NEW b \in Blocks, key[b] \in Rows \cup NewIds
  PROVE  b \in Writable
BY ConstantsAssumption DEF KeyKinds, Nameable, RowIds

(* The ids for a row that the browser can name fit the block. *)
LEMMA KeysFit ==
  ASSUME NEW b, NEW r, b \in Writable => r \in Rows \cup NewIds \cup {NULL}
  PROVE  KeysFor(b, r) \subseteq Nameable(b)
BY DEF KeysFor, Nameable

(* Showing a row moves no other block, and gives an id of the block's      *)
(* kind, that of a new row if the row is empty or its key not among the    *)
(* columns.                                                                *)
LEMMA ShowMoves ==
  ASSUME DataTypes, NEW b \in Blocks, NEW r \in Rows \cup {NULL}, ShowRow(b, r)
  PROVE  /\ \A o \in Blocks \ {b} : key'[o] = key[o]
         /\ key'[b] \in Nameable(b)
         /\ b \in Writable /\ (r = NULL \/ b \notin KeyShown) => key'[b] \in NewIds
         /\ b \in Writable /\ r # NULL /\ b \in KeyShown => key'[b] = r
         /\ value'[b] = Stored(b, r)
<1>1. PICK k \in KeysFor(b, KeyRead(b, r)) : key' = [key EXCEPT ![b] = k]
  BY DEF ShowRow
<1>2. KeyRead(b, r) \in Rows \cup {NULL}
  BY DEF KeyRead
<1>3. k \in Nameable(b)
  BY <1>2, KeysFit
<1>4. value'[b] = Stored(b, r)
  BY DEF ShowRow, DataTypes
<1> QED BY <1>1, <1>3, <1>4 DEF DataTypes, KeysFor, KeyRead

(* So does reading a rejected row again. *)
LEMMA RereadMoves ==
  ASSUME DataTypes, KeyKinds, NEW b \in Blocks, NEW read \in BOOLEAN, Reread(b, read)
  PROVE  /\ \A o \in Blocks \ {b} : key'[o] = key[o]
         /\ key'[b] \in Nameable(b) \cup {NULL}
         /\ key[b] \in NewIds => key'[b] \in NewIds
         /\ read /\ key[b] \in Present(ConnOf[b]) =>
              /\ value'[b] = working[ConnOf[b]][key[b]]
              /\ IF b \in KeyShown THEN key'[b] = key[b] ELSE key'[b] \in NewIds
         /\ read /\ key[b] \notin Present(ConnOf[b]) => value'[b] = Blank
<1>1. CASE read /\ key[b] \in Present(ConnOf[b])
  <2>1. PICK r \in Rows : r = key[b]
    BY <1>1 DEF Present
  <2>2. ShowRow(b, r) /\ r # NULL /\ r \notin NewIds
    BY <1>1, <2>1, ConstantsAssumption DEF Reread, RowIds
  <2>3. b \in Writable
    BY <2>1, RowOfWritable
  <2> QED BY <1>1, <2>1, <2>2, <2>3, ShowMoves DEF Stored
<1>2. CASE read /\ key[b] \notin Present(ConnOf[b])
  <2>1. ShowRow(b, NULL)
    BY <1>2 DEF Reread
  <2>2. key[b] \in NewIds => b \in Writable
    BY RowOfWritable
  <2> QED BY <1>2, <2>1, <2>2, ShowMoves DEF Stored
<1>3. CASE ~read
  BY <1>3 DEF Reread, KeyKinds
<1> QED BY <1>1, <1>2, <1>3

(* No step of a flush makes a new row an old one.                          *)
LEMMA FlushKeys ==
  ASSUME FlowTypes, DataTypes, StagesGood, KeyKinds, FlushStep
  PROVE  /\ \A b \in Blocks \ {at} : key'[b] = key[b]
         /\ key'[at] \in Nameable(at) \cup {NULL}
         /\ \A b \in Blocks : key[b] \in NewIds => key'[b] \in NewIds
<1> USE DEF blockVars
<1>0. at \in Blocks /\ key[at] \in Nameable(at) \cup {NULL}
  BY DEF FlowTypes, KeyKinds
<1>1. CASE UNCHANGED key
  BY <1>0, <1>1
<1>2. ASSUME NEW read \in BOOLEAN, UpdateFails(read)
      PROVE  /\ \A b \in Blocks \ {at} : key'[b] = key[b]
             /\ key'[at] \in Nameable(at) \cup {NULL}
             /\ key[at] \in NewIds => key'[at] \in NewIds
  <2>1. Reread(at, read)
    BY <1>2 DEF UpdateFails
  <2> QED BY <1>0, <2>1, RereadMoves
<1>3. ASSUME InsertFails
      PROVE  /\ \A b \in Blocks \ {at} : key'[b] = key[b]
             /\ key'[at] \in Nameable(at)
             /\ key'[at] \in NewIds
  <2>1. ShowRow(at, NULL) /\ key[at] \in NewIds
    BY <1>3 DEF InsertFails, StagesGood, Good, StepTo
  <2>2. at \in Writable
    BY <1>0, <2>1, RowOfWritable
  <2> QED BY <1>0, <2>1, <2>2, ShowMoves
<1>4. UNCHANGED key \/ InsertFails \/ \E read \in BOOLEAN : UpdateFails(read)
  BY DEF FlushStep, FlushClean, FlushModified, UpdateWorks, InsertWorks
<1> QED BY <1>0, <1>1, <1>2, <1>3, <1>4

(* A writable block gets the id of a row or of a new row, a read only one  *)
(* gets ids that name neither.                                             *)
LEMMA KindStep ==
  ASSUME FlowTypes, DataTypes, StagesGood, KeyKinds, [Next]_vars
  PROVE  KeyKinds'
<1> USE DEF dbVars, blockVars, DataTypes, KeyKinds
<1>0. (\A b \in Blocks : Nameable(b)' = Nameable(b)) /\ at \in Blocks
  BY DEF Nameable, FlowTypes
<1>1. CASE FlushStep
  BY <1>0, <1>1, FlushKeys
<1>2. CASE Request
  <2>1. ASSUME NEW b \in Blocks, NEW r \in RowIds, NEW form \in Record,
               Delete(b, r, form)
        PROVE  KeyKinds'
    <3>1. PICK k \in KeysFor(b, r) : key' = [key EXCEPT ![b] = k]
      BY <2>1 DEF Delete
    <3>2. k \in Nameable(b)
      BY <2>1, KeysFit DEF Delete, Nameable
    <3> QED BY <1>0, <3>1, <3>2
  <2>2. CASE key' = key
    BY <1>0, <2>2
  <2> QED BY <1>2, <2>1, <2>2 DEF Request, Call, Commit, Rollback, Refresh,
    ItemModified, SelectRow, CallOnRow
<1>3. CASE HandlerStep
  <2>1. CASE Move
    <3>1. PICK k \in KeysFor(req.block, req.row) : key' = [key EXCEPT ![req.block] = k]
      BY <2>1 DEF Move
    <3>2. k \in Nameable(req.block) /\ req.block \in Blocks
      BY <2>1, KeysFit, HasBlock DEF Move, Nameable
    <3> QED BY <1>0, <3>1, <3>2
  <2>2. CASE ShowBlock
    <3>1. PICK r \in Rows \cup {NULL} : ShowRow(req.block, r)
      BY <2>2 DEF ShowBlock, Present
    <3>2. /\ req.block \in Blocks
          /\ \A o \in Blocks \ {req.block} : key'[o] = key[o]
          /\ key'[req.block] \in Nameable(req.block)
      BY <2>2, <3>1, ShowMoves, HasBlock DEF ShowBlock
    <3> QED BY <1>0, <3>2
  <2>3. CASE key' = key
    BY <1>0, <2>3
  <2> QED BY <1>3, <2>1, <2>2, <2>3 DEF HandlerStep, SameRowRevisited, Selected,
    RunBody, ShowRefused, CommitAll, DeleteAllowed, Erase
<1>4. CASE key' = key
  BY <1>0, <1>4
<1>5. Statement \/ UNCHANGED vars => key' = key
  BY DEF vars, Statement, Return, CommitOn, RollbackOn, DeleteOn, Assign
<1> QED BY <1>1, <1>2, <1>3, <1>4, <1>5 DEF Next

(* A block moves only when nothing waits in it, or strays. *)
LEMMA HomeStep ==
  ASSUME FlowTypes, DataTypes, StagesGood, KeyKinds, EditsAtHome, [Next]_vars
  PROVE  EditsAtHome'
<1> USE DEF dbVars, blockVars, ghostVars, DataTypes, EditsAtHome
<1>0. at \in Blocks
  BY DEF FlowTypes
<1>1. CASE FlushStep
  <2>1. \A b \in Blocks \ {at} : key'[b] = key[b]
    BY <1>1, FlushKeys
  <2>2. ClearState(at) \/ UNCHANGED <<key, dirty, ghostVars>>
    BY <1>1 DEF FlushStep, FlushClean, FlushModified, UpdateWorks, UpdateFails,
      InsertWorks, InsertFails
  <2> QED BY <1>0, <2>1, <2>2, ClearTyped
<1>2. ASSUME UNCHANGED <<key, dirty, home, strayed>>
      PROVE  EditsAtHome'
  BY <1>2
<1>3. ASSUME NEW b \in Blocks, NEW r, NEW i \in Items, NEW v \in Values,
             Modify(b, r, i, v), key' = key
      PROVE  EditsAtHome'
  BY <1>3 DEF Modify
<1>4. ASSUME NEW b \in Blocks, \A o \in Blocks \ {b} : key'[o] = key[o], dirty' = dirty, Stray(b)
      PROVE  EditsAtHome'
  BY <1>4 DEF Stray
<1>5. CASE Request
  <2>1. ASSUME NEW b \in Blocks, NEW r \in RowIds, NEW form \in Record,
               Delete(b, r, form)
        PROVE  EditsAtHome'
    BY <1>4, <2>1 DEF Delete
  <2>2. ASSUME NEW b \in Blocks, NEW r \in RowIds, NEW i \in Items,
               NEW v \in Values, ItemModified(b, r, i, v)
        PROVE  EditsAtHome'
    BY <1>3, <2>2 DEF ItemModified
  <2> QED BY <1>2, <1>5, <2>1, <2>2 DEF Request, Call, Commit, Rollback, Refresh,
    SelectRow, CallOnRow, StartFlush
<1>6. CASE HandlerStep
  <2>1. CASE Move
    BY <1>4, <2>1, HasBlock DEF Move
  <2>2. CASE ShowBlock
    <3>1. PICK r \in Rows \cup {NULL} : ShowRow(req.block, r)
      BY <2>2 DEF ShowBlock, Present
    <3>2. /\ req.block \in Blocks
          /\ \A o \in Blocks \ {req.block} : key'[o] = key[o]
      BY <2>2, <3>1, ShowMoves, HasBlock DEF ShowBlock
    <3> QED BY <1>4, <2>2, <3>2 DEF ShowBlock
  <2> QED BY <1>2, <1>6, <2>1, <2>2 DEF HandlerStep, SameRowRevisited, Selected,
    RunBody, ShowRefused, CommitAll, DeleteAllowed, Erase
<1>7. CASE Statement
  <2>1. ASSUME NEW b \in Blocks, NEW i \in Items, NEW v \in Values, Assign(b, i, v)
        PROVE  EditsAtHome'
    BY <1>3, <2>1 DEF Assign
  <2> QED BY <1>2, <1>7, <2>1 DEF Statement, Return, CommitOn, RollbackOn,
    DeleteOn, StartFlush
<1>8. CASE UNCHANGED vars
  BY <1>2, <1>8 DEF vars
<1> QED BY <1>1, <1>5, <1>6, <1>7, <1>8 DEF Next

-----------------------------------------------------------------------------
(* The steps of a flush keep the stages: they settle the present block.    *)
LEMMA FlushFlow ==
  ASSUME FlowTypes, DataTypes, StagesGood, KeyKinds, FlushStep
  PROVE  FlowTypes' /\ StagesGood'
<1> USE DEF blockVars, ghostVars
<1>0. at \in Blocks
  BY DEF FlowTypes
<1>1. PICK d \in Nat : d = Depth
  BY DEF FlowTypes, Depth
<1>2. /\ Good(StepTo(pc), d) /\ pc \in {"flush", "update", "insert"}
      /\ UNCHANGED <<req, body>>
  BY <1>1 DEF StagesGood, FlushStep, FlushClean, FlushModified, UpdateWorks,
    UpdateFails, InsertWorks, InsertFails
<1>3. ClearState(at) \/ UNCHANGED <<dirty, late>>
  BY DEF FlushStep, FlushClean, FlushModified, UpdateWorks, UpdateFails,
    InsertWorks, InsertFails
<1>4. \A i \in 1 .. Len(calls) : Quiet(i)
  <2>1. \A b \in Blocks : dirty'[b] = {} \/ (dirty'[b] = dirty[b] /\ late'[b] = late[b])
    BY <1>0, <1>3, ClearTyped
  <2>2. \A b \in Blocks : key[b] \in NewIds => key'[b] \in NewIds
    BY FlushKeys
  <2> QED BY <1>2, <2>1, <2>2 DEF Quiet
<1>5. CASE FlushModified
  <2>1. PICK f : /\ f = StepTo("update") \/ (f = StepTo("insert") /\ key[at] \in NewIds)
                 /\ GoOn(f) \/ RunProcedure(f)
    <3>1. CASE key[at] \in NewIds
      BY <1>5, <3>1 DEF FlushModified, RunTrigger
    <3>2. CASE key[at] \notin NewIds
      BY <1>5, <3>2 DEF FlushModified, RunTrigger
    <3> QED BY <3>1, <3>2
  <2>2. pc = "flush" /\ UNCHANGED <<key, dirty, late>>
    BY <1>5 DEF FlushModified
  <2>3. f \in Frame
    BY <2>1 DEF StepTo, Frame, FlowTypes, Steps
  <2>4. Good(f, d)'
    <3>1. \A b \in Blocks : Settled(b, d) => Settled(b, d)'
      BY <2>2 DEF Settled, Skipped
    <3>2. \A b \in Blocks : Passed(f, b)' => Passed(StepTo(pc), b)
      BY <2>1, <2>2 DEF Passed, InFlush, StepTo
    <3>3. /\ Own(f) => Own(StepTo(pc))
          /\ OnBlock(f) => OnBlock(StepTo(pc))
          /\ ToMove(f) => ToMove(StepTo(pc))
          /\ f.pc # "procedure" /\ f.at = at
      BY <2>1, <2>2 DEF Own, OnBlock, ToMove, InFlush, StepTo
    <3>4. f.pc = "insert" => key[at] \in NewIds
      BY <2>1 DEF StepTo
    <3> QED BY <1>2, <2>2, <3>1, <3>2, <3>3, <3>4 DEF Good, Own, OnBlock, ToMove, InFlush
  <2> QED BY <1>1, <1>4, <2>1, <2>3, <2>4, Continues
<1>6. CASE ~FlushModified
  <2>1. PICK f : f = NextBlock
    OBVIOUS
  <2>2. GoOn(f) \/ RunProcedure(f)
    BY <1>6, <2>1 DEF FlushStep, FlushClean, UpdateWorks, UpdateFails,
      InsertWorks, InsertFails, RunTrigger
  <2>3. PICK a \in Blocks : a = at
    BY <1>0
  <2>4. \A b \in Blocks \ {a} : dirty'[b] = dirty[b] /\ late'[b] = late[b]
    BY <1>3, <2>3, ClearTyped
  <2>5. ClearState(a) \/ (UNCHANGED <<dirty, late>> /\ ~Modified(a))
    BY <1>6, <2>3 DEF FlushStep, FlushClean, UpdateWorks, UpdateFails,
      InsertWorks, InsertFails
  <2>6. Settled(a, d)'
    <3>1. CASE ClearState(a)
      BY <3>1, ClearTyped DEF Settled
    <3>2. CASE UNCHANGED <<dirty, late>> /\ ~Modified(a)
      BY <3>2 DEF Settled, Modified, Skipped
    <3> QED BY <2>5, <3>1, <3>2
  <2>7. f \in Frame /\ Good(f, d)'
    BY <1>2, <2>1, <2>3, <2>4, <2>6, NextGood
  <2> QED BY <1>1, <1>4, <2>2, <2>7, Continues
<1> QED BY <1>5, <1>6

(* A request begins with no procedure running.                             *)
LEMMA RequestFlow ==
  ASSUME FlowTypes, DataTypes, StagesGood, Request
  PROVE  FlowTypes' /\ StagesGood'
<1>0. pc = "idle" /\ at \in Blocks /\ 1 \in Blocks
  BY ConstantsAssumption DEF Request, Call, Commit, Rollback, Refresh, ItemModified,
    SelectRow, CallOnRow, Delete, CanStart, FlowTypes, Blocks
<1>1. /\ calls = <<>> /\ Depth = 1 /\ \A i \in 1 .. Len(calls) : Quiet(i)
  BY <1>0, OwnAlone
<1>2. ASSUME NEW f \in Frame, GoOn(f) \/ RunProcedure(f), Good(f, 1)'
      PROVE  FlowTypes' /\ StagesGood'
  BY <1>1, <1>2, Continues
<1>3. ASSUME NEW for \in Purposes, NEW conns \in SUBSET Conns, StartFlush(for, conns),
             for \in {"move", "again"} =>
               req'.block \in Blocks /\ req'.row \in Nameable(req'.block)
      PROVE  FlowTypes' /\ StagesGood'
  <2>1. PICK f : f = [pc |-> "flush", at |-> 1, after |-> for, target |-> conns]
    OBVIOUS
  <2>2. f \in Frame
    BY <1>0, <2>1 DEF Frame, Steps
  <2>3. Good(f, 1)'
    <3>1. \A b \in Blocks : ~ Passed(f, b)'
      BY <2>1 DEF Passed, InFlush, Blocks
    <3> QED BY <1>3, <2>1, <3>1 DEF Good, OnBlock, ToMove, InFlush, Nameable
  <2>4. GoOn(f)
    BY <1>3, <2>1 DEF StartFlush
  <2> QED BY <1>2, <2>2, <2>3, <2>4
<1>4. ASSUME NEW p \in {"idle", "refresh", "allow"}, NEW f, f = StepTo(p),
             p = "idle" \/ req'.block \in Blocks, GoOn(f) \/ RunProcedure(f)
      PROVE  FlowTypes' /\ StagesGood'
  <2>1. f \in Frame
    BY <1>4 DEF StepTo, Frame, FlowTypes, Steps
  <2>2. Good(f, 1)'
    BY <1>4 DEF Good, OnBlock, ToMove, InFlush, Passed, StepTo
  <2> QED BY <1>2, <1>4, <2>1, <2>2
<1>5. ASSUME Call
      PROVE  FlowTypes' /\ StagesGood'
  BY <1>3, <1>5 DEF Call, FlowTypes, Purposes
<1>6. ASSUME Commit
      PROVE  FlowTypes' /\ StagesGood'
  BY <1>3, <1>6 DEF Commit, Purposes
<1>7. ASSUME NEW b \in Blocks \cup {NULL}, Rollback(b)
      PROVE  FlowTypes' /\ StagesGood'
  <2>1. PICK p \in {"idle", "refresh"} : p = IF b = NULL THEN "idle" ELSE "refresh"
    OBVIOUS
  <2>2. PICK f : f = StepTo(p)
    OBVIOUS
  <2>3. GoOn(f) \/ RunProcedure(f)
    BY <1>7, <2>1, <2>2 DEF Rollback, RunTrigger
  <2>4. p = "idle" \/ req'.block \in Blocks
    BY <1>7, <2>1 DEF Rollback
  <2> QED BY <1>4, <2>1, <2>2, <2>3, <2>4
<1>8. ASSUME NEW b \in Blocks, Refresh(b)
      PROVE  FlowTypes' /\ StagesGood'
  <2>1. PICK f : f = StepTo("refresh")
    OBVIOUS
  <2>2. GoOn(f) \/ RunProcedure(f)
    BY <1>8, <2>1 DEF Refresh, RunTrigger
  <2>3. req'.block \in Blocks
    BY <1>8 DEF Refresh
  <2> QED BY <1>4, <2>1, <2>2, <2>3
<1>9. ASSUME NEW b \in Blocks, NEW r \in RowIds, NEW i \in Items, NEW v \in Values,
             ItemModified(b, r, i, v)
      PROVE  FlowTypes' /\ StagesGood'
  <2>1. PICK f : f = StepTo("idle")
    OBVIOUS
  <2>2. GoOn(f) \/ RunProcedure(f)
    BY <1>9, <2>1 DEF ItemModified, RunTrigger
  <2> QED BY <1>4, <2>1, <2>2
<1>10. ASSUME NEW b \in Blocks, NEW r \in RowIds, NEW form \in Record,
              SelectRow(b, r, form) \/ CallOnRow(b, r, form)
       PROVE  FlowTypes' /\ StagesGood'
  <2>1. req'.block \in Blocks /\ req'.row \in Nameable(req'.block)
    BY <1>10 DEF SelectRow, CallOnRow
  <2>2. PICK for \in {"move", "again"} : StartFlush(for, target)
    BY <1>10 DEF SelectRow, CallOnRow
  <2> QED BY <1>3, <2>1, <2>2 DEF FlowTypes, Purposes
<1>11. ASSUME NEW b \in Blocks, NEW r \in RowIds, NEW form \in Record,
              Delete(b, r, form)
       PROVE  FlowTypes' /\ StagesGood'
  <2>1. PICK f : f = StepTo("allow")
    OBVIOUS
  <2>2. GoOn(f) \/ RunProcedure(f)
    BY <1>11, <2>1 DEF Delete, RunTrigger
  <2>3. req'.block \in Blocks
    BY <1>11 DEF Delete
  <2> QED BY <1>4, <2>1, <2>2, <2>3
<1> QED BY <1>5, <1>6, <1>7, <1>8, <1>9, <1>10, <1>11 DEF Request

(* The handler goes on from step to step, under the procedures it runs.    *)
LEMMA HandlerFlow ==
  ASSUME FlowTypes, DataTypes, StagesGood, HandlerStep
  PROVE  FlowTypes' /\ StagesGood'
<1>1. ASSUME pc \in {"move", "selected", "called", "refresh", "allow", "erase"},
             NEW p \in {"idle", "selected", "called", "refresh", "erase"},
             NEW f, f = StepTo(p), GoOn(f) \/ RunProcedure(f),
             p \in {"selected", "refresh", "erase"} => req'.block \in Blocks,
             p = "called" => body'
      PROVE  FlowTypes' /\ StagesGood'
  <2>1. Depth = 1 /\ \A i \in 1 .. Len(calls) : Quiet(i)
    BY <1>1, OwnAlone
  <2>2. f \in Frame
    BY <1>1 DEF StepTo, Frame, FlowTypes, Steps
  <2>3. Good(f, 1)'
    BY <1>1 DEF Good, OnBlock, ToMove, InFlush, Passed, StepTo
  <2> QED BY <1>1, <2>1, <2>2, <2>3, Continues
<1>2. CASE SameRowRevisited \/ Selected
  <2>1. PICK p \in {"idle", "called"} : p = IF body THEN "called" ELSE "idle"
    OBVIOUS
  <2>2. PICK f : f = StepTo(p)
    OBVIOUS
  <2>3. GoOn(f) /\ body' = body /\ pc \in {"move", "selected"}
    BY <1>2, <2>1, <2>2 DEF SameRowRevisited, Selected, AfterSelect
  <2>4. p = "called" => body'
    BY <2>1, <2>3 DEF DataTypes
  <2> QED BY <1>1, <2>2, <2>3, <2>4
<1>3. CASE Move
  <2>1. PICK f : f = StepTo("selected")
    OBVIOUS
  <2>2. GoOn(f) \/ RunProcedure(f)
    BY <1>3, <2>1 DEF Move, RunTrigger
  <2>3. req'.block \in Blocks /\ pc = "move"
    BY <1>3, HasBlock DEF Move
  <2> QED BY <1>1, <2>1, <2>2, <2>3
<1>4. CASE RunBody
  <2>1. PICK f : f = StepTo("idle")
    OBVIOUS
  <2>2. RunProcedure(f) /\ pc = "called"
    BY <1>4, <2>1 DEF RunBody
  <2> QED BY <1>1, <2>1, <2>2
<1>5. CASE ShowBlock
  <2>1. PICK p \in {"refresh", "idle"} : RunTrigger(req.block, "post_query", StepTo(p))
    BY <1>5 DEF ShowBlock
  <2>2. PICK f : f = StepTo(p)
    OBVIOUS
  <2>3. GoOn(f) \/ RunProcedure(f)
    BY <2>1, <2>2 DEF RunTrigger
  <2>4. req'.block \in Blocks /\ pc = "refresh"
    BY <1>5, HasBlock DEF ShowBlock
  <2> QED BY <1>1, <2>2, <2>3, <2>4
<1>6. CASE ShowRefused
  <2>1. PICK f : f = StepTo("idle")
    OBVIOUS
  <2>2. GoOn(f) /\ pc = "refresh"
    BY <1>6, <2>1 DEF ShowRefused
  <2> QED BY <1>1, <2>1, <2>2
<1>7. ASSUME NEW yes \in BOOLEAN, DeleteAllowed(yes)
      PROVE  FlowTypes' /\ StagesGood'
  <2>1. PICK p \in {"erase", "idle"} : p = IF yes THEN "erase" ELSE "idle"
    OBVIOUS
  <2>2. PICK f : f = StepTo(p)
    OBVIOUS
  <2>3. GoOn(f) /\ pc = "allow" /\ req' = req
    BY <1>7, <2>1, <2>2 DEF DeleteAllowed
  <2> QED BY <1>1, <2>2, <2>3, HasBlock
<1>8. ASSUME NEW works \in BOOLEAN, Erase(works)
      PROVE  FlowTypes' /\ StagesGood'
  <2>1. PICK f : f = StepTo("refresh")
    OBVIOUS
  <2>2. (GoOn(f) \/ RunProcedure(f)) /\ pc = "erase" /\ req' = req
    BY <1>8, <2>1 DEF Erase, RunTrigger
  <2> QED BY <1>1, <2>1, <2>2, HasBlock
<1>9. CASE CommitAll
  <2>1. PICK d \in Nat : d = Depth /\ (calls = <<>> => d = 1) /\ (calls # <<>> => d > 1)
    BY DEF FlowTypes, Depth
  <2>2. PICK p \in {"idle", "procedure"} : p = IF calls = <<>> THEN "idle" ELSE "procedure"
    OBVIOUS
  <2>3. PICK f : f = StepTo(p)
    OBVIOUS
  <2>4. GoOn(f) /\ UNCHANGED <<body, req, key, dirty, late>>
    BY <1>9, <2>2, <2>3 DEF CommitAll, blockVars, ghostVars
  <2>5. f \in Frame
    BY <2>3 DEF StepTo, Frame, FlowTypes, Steps
  <2>6. Good(f, d)'
    BY <2>1, <2>2, <2>3 DEF Good, Own, OnBlock, ToMove, InFlush, Passed, StepTo
  <2>7. \A i \in 1 .. Len(calls) : Quiet(i)
    BY <2>4 DEF Quiet
  <2> QED BY <2>1, <2>4, <2>5, <2>6, <2>7, Continues
<1> QED BY <1>2, <1>3, <1>4, <1>5, <1>6, <1>7, <1>8, <1>9 DEF HandlerStep

(* A statement leaves the stages below its procedure alone; its edits are  *)
(* later than theirs.                                                      *)
LEMMA StatementFlow ==
  ASSUME FlowTypes, DataTypes, StagesGood, Statement
  PROVE  FlowTypes' /\ StagesGood'
<1>0. /\ pc = "procedure" /\ UNCHANGED <<key, body, req>>
  BY DEF Statement, Return, CommitOn, RollbackOn, DeleteOn, Assign, InProcedure, blockVars
<1>1. PICK n \in Nat : n = Len(calls) /\ Depth = n + 1 /\ n > 0 /\ calls # <<>>
  <2>1. PICK n \in Nat : n = Len(calls) /\ Depth = n + 1
    BY DEF FlowTypes, Depth
  <2>2. n + 1 > 1
    BY <1>0, <2>1 DEF StagesGood, Good, StepTo
  <2> QED BY <2>1, <2>2 DEF FlowTypes
<1>2. ASSUME UNCHANGED <<dirty, late>>
      PROVE  \A i \in 1 .. Len(calls) : Quiet(i)
  BY <1>0, <1>2 DEF Quiet
<1>3. CASE Return
  BY <1>1, <1>2, <1>3, Returns DEF Return, blockVars, ghostVars
<1>4. ASSUME NEW c \in Conns, RollbackOn(c)
      PROVE  FlowTypes' /\ StagesGood'
  BY <1>0, <1>2, <1>4, Stays DEF RollbackOn, blockVars, ghostVars
<1>5. ASSUME NEW b \in Blocks, NEW i \in Items, NEW v \in Values, Assign(b, i, v)
      PROVE  FlowTypes' /\ StagesGood'
  <2>1. late' = [late EXCEPT ![b] = n] /\ dirty' = [dirty EXCEPT ![b] = dirty[b] \cup {i}]
    BY <1>1, <1>5 DEF Assign, Modify
  <2>2. ASSUME NEW j \in 1 .. n  PROVE Quiet(j)
    BY <1>0, <2>1 DEF Quiet, DataTypes
  <2>3. UNCHANGED flowVars
    BY <1>5 DEF Assign
  <2> QED BY <1>0, <1>1, <2>2, <2>3, Stays
<1>6. ASSUME NEW c \in Conns, CommitOn(c)
      PROVE  FlowTypes' /\ StagesGood'
  <2>1. PICK f : f = [pc |-> "flush", at |-> 1, after |-> "commit", target |-> {c}]
    OBVIOUS
  <2>2. GoOn(f) /\ dirty' = dirty /\ StartFlush("commit", {c})
    BY <1>6, <2>1 DEF CommitOn, StartFlush, blockVars
  <2>3. f \in Frame /\ 1 \in Blocks
    BY <2>1, ConstantsAssumption DEF Frame, Steps, Purposes, Blocks
  <2>4. Good(f, n + 1)'
    <3>1. \A b \in Blocks : ~ Passed(f, b)'
      BY <2>1 DEF Passed, InFlush, Blocks
    <3> QED BY <2>1, <3>1 DEF Good, Own, OnBlock, ToMove, InFlush
  <2>5. ASSUME NEW j \in 1 .. n  PROVE Quiet(j)
    <3>1. \A b \in Blocks : late[b] >= j => late'[b] >= j
      BY <1>1, <2>2, StartTyped
    <3> QED BY <1>0, <2>2, <3>1 DEF Quiet
  <2> QED BY <1>1, <2>2, <2>3, <2>4, <2>5, Continues
<1>7. ASSUME NEW b \in Blocks, DeleteOn(b)
      PROVE  FlowTypes' /\ StagesGood'
  <2>1. PICK f : f = StepTo("procedure")
    OBVIOUS
  <2>2. (GoOn(f) \/ RunProcedure(f)) /\ UNCHANGED <<dirty, late>>
    BY <1>7, <2>1 DEF DeleteOn, RunTrigger, blockVars, ghostVars
  <2>3. f \in Frame
    BY <2>1 DEF StepTo, Frame, FlowTypes, Steps
  <2>4. Good(f, n + 1)'
    BY <1>1, <2>1 DEF Good, Own, OnBlock, ToMove, InFlush, Passed, StepTo
  <2> QED BY <1>1, <1>2, <2>2, <2>3, <2>4, Continues
<1> QED BY <1>3, <1>4, <1>5, <1>6, <1>7 DEF Statement

(* Requests, flushes, procedures and returns keep the stages in order.     *)
LEMMA FlowStep ==
  ASSUME FlowTypes, DataTypes, StagesGood, KeyKinds, [Next]_vars
  PROVE  FlowTypes' /\ StagesGood'
<1>1. CASE UNCHANGED vars
  BY <1>1 DEF vars, blockVars, flowVars, ghostVars, FlowTypes, StagesGood, Depth,
    StepTo, Good, Own, OnBlock, ToMove, InFlush, Passed, Settled, Skipped, Nameable
<1> QED BY <1>1, FlushFlow, RequestFlow, HandlerFlow, StatementFlow DEF Next

(* The invariant holds of a page that was never shown ... *)
LEMMA InitInv == Init => IInv
<1> SUFFICES ASSUME Init  PROVE IInv
  OBVIOUS
<1> USE ConstantsAssumption, BlankTyped DEF Init
<1>0. 1 \in Blocks /\ <<>> \in Seq(Frame) /\ Len(calls) = 0
  BY DEF Blocks
<1>1. DataTypes
  <2>1. reply \in [type : Replies, block : Blocks \cup {NULL}, row : RowIds \cup {NULL}]
    BY DEF Replies, NoReply
  <2>2. current \in [block : Blocks \cup {NULL}, row : RowIds \cup {NULL}]
    BY DEF Here
  <2> QED BY <2>1, <2>2 DEF DataTypes
<1>2. FlowTypes
  BY <1>0 DEF FlowTypes, Steps, Purposes
<1>3. StagesGood
  BY <1>0 DEF StagesGood, Good, StepTo, Depth, Own, OnBlock, ToMove, InFlush, Passed
<1>4. KeyKinds /\ EditsAtHome
  BY DEF KeyKinds, EditsAtHome
<1> QED BY <1>1, <1>2, <1>3, <1>4 DEF IInv

(* ... and every step keeps it. *)
LEMMA StepInv == IInv /\ [Next]_vars => IInv'
BY FlowStep, DataStep, KindStep, HomeStep DEF IInv

(* The invariant holds in every state that the program reaches. *)
LEMMA SpecInv == Spec => []IInv
<1>1. Init => IInv
  BY InitInv
<1>2. IInv /\ [Next]_vars => IInv'
  BY StepInv
<1> QED BY <1>1, <1>2, PTL DEF Spec

(* Every variable keeps its type: no handler works on a block or returns   *)
(* to a procedure that is not there.                                       *)
THEOREM TypeCorrect == Spec => []TypeOK
<1>1. IInv => TypeOK
  <2>1. ASSUME IInv, pc = "procedure"  PROVE calls # <<>>
    <3>1. Len(calls) + 1 > 1
      BY <2>1 DEF IInv, StagesGood, Good, StepTo, Depth
    <3> QED BY <3>1
  <2> QED BY <2>1 DEF IInv, FlowTypes, DataTypes, TypeOK
<1> QED BY <1>1, SpecInv, PTL

(* What waits when a commit, a row change or the procedure of a button     *)
(* begins was edited by a trigger of the flush for it, or is in a block    *)
(* whose first edited input is the row id (updateOrInsertAllDataBlocks-    *)
(* CurrentRow), however the flushes and procedures nest.                   *)
THEOREM Flushed == Spec => []FlushedBefore
<1>1. IInv => FlushedBefore
  <2> SUFFICES ASSUME IInv, pc \in {"commit", "move"} \/ (pc = "called" /\ ~body),
                      NEW b \in Blocks, dirty[b] # {}
               PROVE  late[b] > Len(calls) \/ Skipped(b)
    BY DEF FlushedBefore
  <2>1. Passed(StepTo(pc), b)
    BY DEF Passed, StepTo
  <2>2. Settled(b, Depth)
    BY <2>1 DEF IInv, StagesGood, Good
  <2>3. Len(calls) \in Nat /\ late[b] \in Nat
    BY DEF IInv, FlowTypes, DataTypes
  <2> QED BY <2>2, <2>3 DEF Settled, Depth
<1> QED BY <1>1, SpecInv, PTL

-----------------------------------------------------------------------------
(* The steps of a flush: what each does to the tables, and that no other   *)
(* step is taken then.                                                     *)
LEMMA InFlushOnly ==
  ASSUME Next, pc \in {"update", "insert"}
  PROVE  \/ UpdateWorks \/ InsertFails
         \/ \E read \in BOOLEAN : UpdateFails(read)
         \/ \E r \in Rows : InsertWorks(r)
BY DEF Next, FlushStep, FlushClean, FlushModified, Request, Call, Commit, Rollback,
  Refresh, ItemModified, SelectRow, CallOnRow, Delete, CanStart, HandlerStep,
  SameRowRevisited, Move, Selected, RunBody, ShowBlock, ShowRefused, CommitAll,
  DeleteAllowed, Erase, Statement, Return, CommitOn, RollbackOn, DeleteOn, Assign,
  InProcedure

(* A flush writes one row, the block's own.                                *)
LEMMA HomeWrites ==
  ASSUME IInv, Next
  PROVE  WritesHome
<1> SUFFICES ASSUME pc \in {"update", "insert"}, dirty[at] # {}, ~strayed[at]
             PROVE  \A c \in Conns, r \in Rows :
                      working'[c][r] # working[c][r] =>
                        /\ c = ConnOf[at]
                        /\ r = home[at] \/ (home[at] \in NewIds /\ working[c][r] = NULL)
  BY DEF WritesHome
<1> USE ConstantsAssumption DEF dbVars
<1>0. /\ at \in Blocks /\ working \in [Conns -> Table]
      /\ key[at] = home[at]
      /\ pc = "insert" => key[at] \in NewIds
  BY DEF IInv, FlowTypes, DataTypes, EditsAtHome, StagesGood, Good, StepTo
<1>1. CASE UpdateWorks
  BY <1>0, <1>1 DEF UpdateWorks, Present, Table
<1>2. ASSUME NEW r \in Rows, InsertWorks(r)
      PROVE  \A c \in Conns, q \in Rows :
               working'[c][q] # working[c][q] =>
                 c = ConnOf[at] /\ home[at] \in NewIds /\ working[c][q] = NULL
  <2>1. \A c \in Conns, q \in Rows : working'[c][q] # working[c][q] => c = ConnOf[at] /\ q = r
    BY <1>0, <1>2 DEF InsertWorks, Table
  <2>2. working[ConnOf[at]][r] = NULL
    BY <1>2 DEF InsertWorks, Present
  <2> QED BY <1>0, <1>2, <2>1, <2>2 DEF InsertWorks
<1>3. CASE InsertFails \/ \E read \in BOOLEAN : UpdateFails(read)
  BY <1>3 DEF InsertFails, UpdateFails
<1> QED BY <1>1, <1>2, <1>3, InFlushOnly

(* A refused edit leaves the table alone and shows it again.               *)
LEMMA RefusalRestores ==
  ASSUME IInv, Next
  PROVE  Restores
<1> SUFFICES ASSUME pc \in {"update", "insert"},
                    reply'.type \in {"updateRejected", "insertRejected"}
             PROVE  /\ working' = working /\ dirty'[at] = {}
                    /\ IF reply'.type = "updateRejected" /\ key[at] \in Present(ConnOf[at])
                       THEN /\ value'[at] = working[ConnOf[at]][key[at]]
                            /\ IF at \in KeyShown THEN key'[at] = key[at]
                                                  ELSE key'[at] \in NewIds
                       ELSE value'[at] = Blank
  BY DEF Restores
<1> USE DEF dbVars
<1>0. at \in Blocks /\ DataTypes /\ KeyKinds
  BY DEF IInv, FlowTypes
<1>1. ~UpdateWorks
  BY DEF UpdateWorks, Say
<1>2. ASSUME NEW r \in Rows  PROVE ~InsertWorks(r)
  BY DEF InsertWorks, Say, NoReply
<1>3. ASSUME NEW read \in BOOLEAN, UpdateFails(read)
      PROVE  /\ working' = working /\ dirty'[at] = {}
             /\ IF reply'.type = "updateRejected" /\ key[at] \in Present(ConnOf[at])
                THEN /\ value'[at] = working[ConnOf[at]][key[at]]
                     /\ IF at \in KeyShown THEN key'[at] = key[at]
                                           ELSE key'[at] \in NewIds
                ELSE value'[at] = Blank
  <2>1. working' = working /\ Reread(at, read) /\ ClearState(at)
    BY <1>3 DEF UpdateFails
  <2>2. read /\ reply'.type = "updateRejected"
    BY <1>3 DEF UpdateFails, Say
  <2>3. dirty'[at] = {}
    BY <1>0, <2>1, ClearTyped
  <2> QED BY <1>0, <2>1, <2>2, <2>3, RereadMoves
<1>4. ASSUME InsertFails
      PROVE  /\ working' = working /\ dirty'[at] = {}
             /\ reply'.type # "updateRejected" /\ value'[at] = Blank
  <2>1. working' = working /\ ShowRow(at, NULL) /\ ClearState(at)
    BY <1>4 DEF InsertFails
  <2>2. reply'.type = "insertRejected"
    BY <1>4 DEF InsertFails, Say
  <2>3. dirty'[at] = {}
    BY <1>0, <2>1, ClearTyped
  <2>4. value'[at] = Blank
    BY <1>0, <2>1, ShowMoves DEF Stored
  <2> QED BY <2>1, <2>2, <2>3, <2>4
<1> QED BY <1>1, <1>2, <1>3, <1>4, InFlushOnly

-----------------------------------------------------------------------------
(* What the steps do to the tables: nothing, one row of one table, or a    *)
(* commit or rollback.                                                     *)
LEMMA TableSteps ==
  ASSUME IInv, Next
  PROVE  \/ UNCHANGED <<committed, working>>
         \/ /\ UNCHANGED committed
            /\ \E b \in Blocks, r \in Rows, rec \in Record \cup {NULL} :
                 /\ key[b] \in Rows \cup NewIds
                 /\ working' = [working EXCEPT ![ConnOf[b]][r] = rec]
         \/ UNCHANGED committed /\ \E cs \in SUBSET Conns : working' = Restored(cs)
         \/ UNCHANGED working /\ \E cs \in SUBSET Conns : committed' = Published(cs)
<1> DEFINE Writes ==
      UNCHANGED committed /\
      \E b \in Blocks, r \in Rows, rec \in Record \cup {NULL} :
        /\ key[b] \in Rows \cup NewIds
        /\ working' = [working EXCEPT ![ConnOf[b]][r] = rec]
<1> USE ConstantsAssumption DEF dbVars
<1>0. at \in Blocks /\ DataTypes /\ StagesGood
  BY DEF IInv, FlowTypes
<1>1. CASE UpdateWorks
  <2>1. CASE key[at] \in Present(ConnOf[at])
    <3>1. PICK rec : rec = Edited(at, working[ConnOf[at]][key[at]])
      OBVIOUS
    <3>2. key[at] \in Rows /\ working[ConnOf[at]][key[at]] \in Record
      BY <1>0, <2>1 DEF DataTypes, Table, Present
    <3>3. rec \in Record
      BY <1>0, <3>1, <3>2, RowsTyped
    <3>4. working' = [working EXCEPT ![ConnOf[at]][key[at]] = rec] /\ UNCHANGED committed
      BY <1>1, <2>1, <3>1 DEF UpdateWorks
    <3> QED BY <1>0, <3>2, <3>3, <3>4
  <2>2. CASE key[at] \notin Present(ConnOf[at])
    BY <1>1, <2>2 DEF UpdateWorks
  <2> QED BY <2>1, <2>2
<1>2. ASSUME NEW r \in Rows, InsertWorks(r)
      PROVE  Writes
  <2>1. Inserted(at) \in Record
    BY <1>0, RowsTyped
  <2>2. key[at] \in NewIds
    BY <1>0, <1>2 DEF InsertWorks, StagesGood, Good, StepTo
  <2>3. working' = [working EXCEPT ![ConnOf[at]][r] = Inserted(at)] /\ UNCHANGED committed
    BY <1>2 DEF InsertWorks
  <2> QED BY <1>0, <2>1, <2>2, <2>3
<1>3. ASSUME NEW works \in BOOLEAN, Erase(works)
      PROVE  Writes \/ UNCHANGED <<committed, working>>
  <2>1. req.block \in Blocks /\ UNCHANGED committed
    BY <1>0, <1>3, HasBlock DEF Erase
  <2>2. CASE works /\ key[req.block] \in Rows
    <3>1. working' = [working EXCEPT ![ConnOf[req.block]][key[req.block]] = NULL]
      BY <1>3, <2>2 DEF Erase, Without
    <3> QED BY <2>1, <2>2, <3>1
  <2>3. CASE ~(works /\ key[req.block] \in Rows)
    BY <1>3, <2>1, <2>3 DEF Erase
  <2> QED BY <2>2, <2>3
<1>4. ASSUME NEW b \in Blocks, DeleteOn(b)
      PROVE  Writes
  <2>1. working' = [working EXCEPT ![ConnOf[b]][key[b]] = NULL] /\ key[b] \in Rows
    BY <1>4 DEF DeleteOn, Without
  <2> QED BY <1>4, <2>1 DEF DeleteOn
<1>5. ASSUME NEW c \in Conns, RollbackOn(c)
      PROVE  UNCHANGED committed /\ \E cs \in SUBSET Conns : working' = Restored(cs)
  BY <1>5 DEF RollbackOn
<1>6. ASSUME NEW b \in Blocks \cup {NULL}, Rollback(b)
      PROVE  UNCHANGED committed /\ \E cs \in SUBSET Conns : working' = Restored(cs)
  BY <1>6 DEF Rollback
<1>7. ASSUME CommitAll
      PROVE  UNCHANGED working /\ \E cs \in SUBSET Conns : committed' = Published(cs)
  <2>1. target \in SUBSET Conns
    BY DEF IInv, FlowTypes
  <2> QED BY <1>7, <2>1 DEF CommitAll
<1>8. CASE UNCHANGED <<committed, working>>
  BY <1>8
<1> HIDE DEF Writes
<1>9. FlushStep => \/ UNCHANGED <<committed, working>> \/ UpdateWorks
                   \/ \E r \in Rows : InsertWorks(r)
  BY DEF FlushStep, FlushClean, FlushModified, UpdateFails, InsertFails
<1>10. Request => \/ UNCHANGED <<committed, working>>
                  \/ \E b \in Blocks \cup {NULL} : Rollback(b)
  BY DEF Request, Call, Commit, Refresh, ItemModified, SelectRow, CallOnRow, Delete
<1>11. HandlerStep => \/ UNCHANGED <<committed, working>> \/ CommitAll
                      \/ \E works \in BOOLEAN : Erase(works)
  BY DEF HandlerStep, SameRowRevisited, Move, Selected, RunBody, ShowBlock, ShowRefused,
    DeleteAllowed
<1>12. Statement => \/ UNCHANGED <<committed, working>>
                    \/ \E b \in Blocks : DeleteOn(b)
                    \/ \E c \in Conns : RollbackOn(c)
  BY DEF Statement, Return, CommitOn, Assign
<1> QED BY <1>1, <1>2, <1>3, <1>4, <1>5, <1>6, <1>7, <1>8, <1>9, <1>10, <1>11, <1>12
         DEF Next, Writes

(* Only a writable block has a row id that names a row.                    *)
LEMMA ReadOnlyStep ==
  ASSUME IInv, Next
  PROVE  ReadOnlyKept
<1> SUFFICES ASSUME NEW c \in Conns, ReadOnly(c), working[c] = committed[c]
             PROVE  working'[c] = working[c] /\ committed'[c] = committed[c]
  BY DEF ReadOnlyKept
<1>0. working \in [Conns -> Table] /\ committed \in [Conns -> Table]
  BY DEF IInv, DataTypes
<1>1. ASSUME NEW b \in Blocks, NEW r \in Rows, NEW rec \in Record \cup {NULL},
             key[b] \in Rows \cup NewIds,
             working' = [working EXCEPT ![ConnOf[b]][r] = rec]
      PROVE  working'[c] = working[c]
  <2>1. b \in Writable
    BY <1>1, RowOfWritable DEF IInv
  <2>2. ConnOf[b] # c
    BY <2>1 DEF ReadOnly
  <2> QED BY <1>0, <1>1, <2>2
<1>2. ASSUME NEW cs \in SUBSET Conns, working' = Restored(cs)
      PROVE  working'[c] = working[c]
  BY <1>2 DEF Restored
<1>3. ASSUME NEW cs \in SUBSET Conns, committed' = Published(cs)
      PROVE  committed'[c] = committed[c]
  BY <1>3 DEF Published
<1> QED BY <1>1, <1>2, <1>3, TableSteps

(* A flush writes an edit to the row it was made on, or inserts it, unless *)
(* the block strayed while the edit waited.                                *)
THEOREM WritesGoHome == Spec => FlushWritesHome
<1>1. IInv /\ [Next]_vars => [WritesHome]_vars
  BY HomeWrites
<1> QED BY <1>1, SpecInv, PTL DEF Spec, FlushWritesHome

(* A refused edit is neither written nor kept, and the row is shown as the *)
(* database has it; the block stays on it if the key is among the columns. *)
THEOREM RejectedRestored == Spec => RejectionRestores
<1>1. IInv /\ [Next]_vars => [Restores]_vars
  BY RefusalRestores
<1> QED BY <1>1, SpecInv, PTL DEF Spec, RejectionRestores

(* A table of read only blocks never changes.                              *)
THEOREM ReadOnlyUntouched == Spec => ReadOnlyTables
<1>1. IInv /\ [Next]_vars => [ReadOnlyKept]_vars
  BY ReadOnlyStep
<1> QED BY <1>1, SpecInv, PTL DEF Spec, ReadOnlyTables

(* A step changes one row of one transaction, or ends whole transactions.  *)
LEMMA StoreStep ==
  ASSUME IInv, Next
  PROVE  [Store!Next]_(Store!vars)
<1>1. ASSUME NEW b \in Blocks, NEW r \in Rows, NEW rec \in Record \cup {NULL},
             UNCHANGED committed, working' = [working EXCEPT ![ConnOf[b]][r] = rec]
      PROVE  Store!Next
  <2>1. ConnOf[b] \in Conns
    BY ConstantsAssumption
  <2>2. CASE rec = NULL
    <3>1. Store!Drop(ConnOf[b], r)
      BY <1>1, <2>2 DEF Store!Drop
    <3> QED BY <2>1, <3>1 DEF Store!Next
  <2>3. CASE rec \in Record
    <3>1. Store!Put(ConnOf[b], r, rec)
      BY <1>1 DEF Store!Put
    <3> QED BY <2>1, <2>3, <3>1 DEF Store!Next
  <2> QED BY <2>2, <2>3
<1>2. ASSUME NEW cs \in SUBSET Conns, UNCHANGED committed, working' = Restored(cs)
      PROVE  Store!Next
  <2>1. Store!Rollback(cs)
    BY <1>2 DEF Store!Rollback, Restored
  <2> QED BY <2>1 DEF Store!Next
<1>3. ASSUME NEW cs \in SUBSET Conns, UNCHANGED working, committed' = Published(cs)
      PROVE  Store!Next
  <2>1. Store!Commit(cs)
    BY <1>3 DEF Store!Commit, Published
  <2> QED BY <2>1 DEF Store!Next
<1>4. CASE UNCHANGED <<committed, working>>
  BY <1>4 DEF Store!vars
<1> QED BY <1>1, <1>2, <1>3, <1>4, TableSteps

(* The data blocks implement the row store. *)
THEOREM BlocksImplementStore == Spec => ImplementsStore
<1>1. Init => Store!Init
  BY DEF Init, Store!Init, Table, Store!Table
<1>2. IInv /\ [Next]_vars => [Store!Next]_(Store!vars)
  <2>1. UNCHANGED vars => UNCHANGED Store!vars
    BY DEF vars, dbVars, Store!vars
  <2> QED BY <2>1, StoreStep
<1> QED BY <1>1, <1>2, SpecInv, PTL DEF Spec, ImplementsStore, Store!Spec

=============================================================================
