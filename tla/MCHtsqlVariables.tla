-------------------------- MODULE MCHtsqlVariables --------------------------
(* A session with two pages for TLC. *)
EXTENDS HtsqlVariables, TLC

CONSTANTS f, g, x, y, bi, bj, ci, p, q, b, c

(* f takes x; y is a global of page p, x of the controller.                *)
Params  == [h \in Functions |-> IF h = f THEN {x} ELSE {}]
Declared == [s \in Scopes |-> IF s = p THEN {y} ELSE IF s = Controller THEN {x} ELSE {}]

(* Block b is a data block of p, with an input for bi and none for bj; c   *)
(* is a control block of p.  Page q has neither.                           *)
Owner == [n \in Items |-> IF n = ci THEN c ELSE b]
Data  == [s \in Pages |-> IF s = p THEN {b} ELSE {}]
Shown == [s \in Pages |-> IF s = p THEN {bi} ELSE {}]
Ctl   == [s \in Pages |-> IF s = p THEN {ci} ELSE {}]

(* :c.ci exists from the start, as :Session.user does. *)
Start == [n \in Items |-> IF n = ci THEN NULL ELSE Absent]

Symmetry == Permutations(Values)
=============================================================================
