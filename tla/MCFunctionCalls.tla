--------------------------- MODULE MCFunctionCalls ---------------------------
(* Instances of FunctionCalls for TLC. *)
EXTENDS FunctionCalls, TLC

CONSTANTS OnBlock, ItsConn     \* the function of a data block, and its connection

Homes == [f \in Functions |-> IF f = OnBlock THEN ItsConn ELSE NULL]
=============================================================================
