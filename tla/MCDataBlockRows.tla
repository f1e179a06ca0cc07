--------------------------- MODULE MCDataBlockRows ---------------------------
(* Instances of DataBlockRows for TLC. *)
EXTENDS DataBlockRows, FiniteSets, TLC

(* Blocks 1 and 2 show one table, block 3 one of another connection.       *)
TwoAndOne == CHOOSE f \in [Blocks -> Conns] : f[1] = f[2] /\ f[3] # f[1]

(* Block 1 has triggers around its updates, block 2 around its inserts and *)
(* the others, so that a procedure runs in every place where one can.      *)
SomeTriggers ==
  {1} \X {"item", "pre_update", "post_update", "post_delete"}
    \cup {2} \X {"row_selected", "access", "pre_insert", "post_insert", "post_query", "pre_delete"}

CONSTANT FirstItem, SecondItem
SecondIsRowId == [b \in Blocks |-> IF b = 2 THEN SecondItem ELSE NULL]
InOrder == [i \in Items |-> IF i = SecondItem THEN {FirstItem} ELSE {}]

(* The tables start with one row; ids and typed values are symmetric.      *)
CONSTANT FirstRow, FirstValue
StartTable == [r \in Rows |-> IF r = FirstRow THEN [i \in Items |-> FirstValue] ELSE NULL]

(* The page has been shown once: each block is on its last printed row,    *)
(* the one of the other table on the row it has.                           *)
StartInit ==
  \E last \in [Blocks -> {FirstRow, NULL}] :
    /\ last[3] = FirstRow
    /\ committed = [c \in Conns |-> StartTable] /\ working = committed
    /\ key \in [Blocks -> RowIds] /\ \A b \in Blocks : key[b] \in KeysFor(b, KeyRead(b, last[b]))
    /\ value = [b \in Blocks |-> IF last[b] = NULL THEN Blank ELSE StartTable[last[b]]]
    /\ dirty = [b \in Blocks |-> {}]
    /\ current = Here
    /\ pc = "idle" /\ at = 1 /\ after = "move" /\ target = {} /\ calls = <<>> /\ body = FALSE
    /\ req = [block |-> NULL, row |-> NULL, form |-> Blank]
    /\ reply = NoReply
    /\ home = [b \in Blocks |-> NULL] /\ strayed = [b \in Blocks |-> FALSE]
    /\ late = [b \in Blocks |-> 0]
    /\ steps = 0
StartSpec  == StartInit /\ [][Next]_vars

Symmetry == Permutations(NewIds) \cup Permutations(ReadOnlyIds)
=============================================================================
