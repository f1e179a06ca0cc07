--------------------------- MODULE SessionService ---------------------------
(***************************************************************************)
(* What the session layer promises to a client while requests arrive one   *)
(* at a time: every user has at most one session, a request is worked on   *)
(* only while its user has a session, and a request that leaves without    *)
(* being worked on has lost its session to the idle sweep.                 *)
(***************************************************************************)
CONSTANTS Ids, NULL

VARIABLES open, client, phase
vars == <<open, client, phase>>

Init == open = {} /\ client = NULL /\ phase = "free"

Arrive(i) ==
  /\ phase = "free"
  /\ client' = i /\ phase' = "arrived"
  /\ UNCHANGED open

Open ==                      \* the first request of a user
  /\ phase = "arrived" /\ client \in Ids \ open
  /\ open' = open \cup {client}
  /\ UNCHANGED <<client, phase>>

Expire(i) ==                 \* the sweep, before the request is worked on
  /\ phase = "arrived" /\ i \in open
  /\ open' = open \ {i}
  /\ UNCHANGED <<client, phase>>

StartWork ==
  /\ phase = "arrived" /\ client \in open
  /\ phase' = "working"
  /\ UNCHANGED <<open, client>>

Close ==                     \* a kill request, or a page that never got ready
  /\ phase \in {"working", "done"} /\ client \in open
  /\ open' = open \ {client}
  /\ UNCHANGED <<client, phase>>

EndWork ==
  /\ \/ phase = "working"
     \/ phase = "arrived" /\ client \notin open
  /\ phase' = "done"
  /\ UNCHANGED <<open, client>>

Leave ==
  /\ phase = "done"
  /\ client' = NULL /\ phase' = "free"
  /\ UNCHANGED open

Next ==
  \/ \E i \in Ids \cup {NULL} : Arrive(i)   \* NULL: a request without a session
  \/ \E i \in Ids : Expire(i)
  \/ Open \/ StartWork \/ Close \/ EndWork \/ Leave

Spec == Init /\ [][Next]_vars
=============================================================================
