------------------------------ MODULE RowStore ------------------------------
(***************************************************************************)
(* What the data blocks of a page promise about the databases: each        *)
(* connection has one open transaction; a step writes, inserts or deletes  *)
(* at most one row of one transaction, and what others see changes only    *)
(* when whole transactions are committed.                                  *)
(***************************************************************************)
CONSTANTS Conns, Rows, Record, NULL

VARIABLES committed, working
vars == <<committed, working>>

Table == [Rows -> Record \cup {NULL}]

Init == committed \in [Conns -> Table] /\ working = committed

Put(c, r, rec) ==            \* insert, or update of a row that exists
  /\ working' = [working EXCEPT ![c][r] = rec]
  /\ UNCHANGED committed

Drop(c, r) ==
  /\ working' = [working EXCEPT ![c][r] = NULL]
  /\ UNCHANGED committed

Commit(cs) ==
  /\ committed' = [c \in Conns |-> IF c \in cs THEN working[c] ELSE committed[c]]
  /\ UNCHANGED working

Rollback(cs) ==
  /\ working' = [c \in Conns |-> IF c \in cs THEN committed[c] ELSE working[c]]
  /\ UNCHANGED committed

Next ==
  \/ \E c \in Conns, r \in Rows : Drop(c, r) \/ \E rec \in Record : Put(c, r, rec)
  \/ \E cs \in SUBSET Conns : Commit(cs) \/ Rollback(cs)

Spec == Init /\ [][Next]_vars
=============================================================================
