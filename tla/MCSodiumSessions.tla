-------------------------- MODULE MCSodiumSessions --------------------------
(* Instances of SodiumSessions for TLC. *)
EXTENDS SequentialSessions, TLC

Symmetry == Permutations(Threads) \cup Permutations(Slots) \cup Permutations(Ids)

(* Slots are taken in any order by the allocator and ids drawn at random,  *)
(* so both are symmetric; liveness runs use no symmetry.                   *)
SlotsAndIds == Permutations(Slots) \cup Permutations(Ids)

(* The run with liveness uses no symmetry set but, of behaviours that      *)
(* differ only in the names of threads, structs and ids, mostly one.  A    *)
(* struct is blank while nothing was ever written to it or points to it.   *)
Blank(s) ==
  /\ mem[s] = "free" /\ sid[s] = NULL /\ readyState[s] = "KILLED" /\ ~heap[s] /\ ~idle[s]
  /\ nxt[s] = NULL /\ prv[s] = NULL
  /\ s \notin {root, leaf} \cup {ptr[t] : t \in Threads} \cup {cur[t] : t \in Threads}
                \cup {nxt[r] : r \in Slots} \cup {prv[r] : r \in Slots}

FirstStruct ==
  \A s \in Slots : mem'[s] # mem[s] /\ Blank(s) => \A r \in Slots : Blank(r) => s <= r

FirstThread ==
  cs = NULL /\ (\A t \in Threads : pc[t] = "idle")
    => \A t, u \in Threads : u < t => pc'[t] = "idle"

FirstId ==
  served = 0 => \A t \in Threads, i, j \in Ids : i < j => req'[t].id # j

NamedSpec == Init /\ [][Next /\ FirstStruct /\ FirstThread /\ FirstId]_vars
NamedFairSpec == NamedSpec /\ Fairness

=============================================================================
