---------------------- MODULE SequentialSessions_proofs ----------------------
(***************************************************************************)
(* Theorems about a server that handles one request at a time, for any     *)
(* structs, ids and number of requests: the list of sessions stays sound,  *)
(* the process dies of three requests only, and the sessions are those the *)
(* abstract SessionService promises.                                       *)
(*                                                                         *)
(* An insertion or a removal is several writes, and between two of them    *)
(* the list is broken.  The invariant says of every state which list the   *)
(* writes that are left will make of it (ListAhead): the step that begins  *)
(* an insertion or removal needs a lemma about lists, the writes only      *)
(* follow the plan.                                                        *)
(***************************************************************************)
EXTENDS SequentialSessions, SodiumSessions_proofs

-----------------------------------------------------------------------------
(* Walks and lists.                                                        *)

(* A set that holds x and is closed under n holds the walk from x ...      *)
LEMMA WalkSmallest ==
  ASSUME NEW x, NEW n, NEW S \in SUBSET Slots, x \in S \cup {NULL},
         \A s \in S : n[s] \in S \cup {NULL}
  PROVE  Walk(x, n) \subseteq S
BY DEF Walk

(* ... and the walk is such a set itself.                                  *)
LEMMA WalkClosed ==
  ASSUME NEW n \in [Slots -> Slots \cup {NULL}], NEW x \in Slots \cup {NULL}
  PROVE  /\ Walk(x, n) \in SUBSET Slots
         /\ x # NULL => x \in Walk(x, n)
         /\ \A s \in Walk(x, n) : n[s] \in Walk(x, n) \cup {NULL}
<1>1. ASSUME NEW s \in Walk(x, n), n[s] # NULL
      PROVE  n[s] \in Walk(x, n)
  <2>1. s \in Slots /\ n[s] \in Slots
    BY <1>1 DEF Walk
  <2>2. ASSUME NEW S \in SUBSET Slots, x \in S \cup {NULL},
               \A r \in S : n[r] \in S \cup {NULL}
        PROVE  n[s] \in S
    BY <1>1, <2>2 DEF Walk
  <2> QED BY <2>1, <2>2 DEF Walk
<1>2. x # NULL => x \in Walk(x, n)
  BY DEF Walk
<1> QED BY <1>1, <1>2 DEF Walk

(* From the null pointer it meets nothing.                                 *)
LEMMA WalkNull ==
  ASSUME NEW n
  PROVE  Walk(NULL, n) = {}
<1>1. {} \in SUBSET Slots /\ NULL \in {} \cup {NULL}
      /\ \A s \in {} : n[s] \in {} \cup {NULL}
  OBVIOUS
<1>2. \A s \in Walk(NULL, n) : s \in {}
  BY <1>1 DEF Walk
<1> QED BY <1>2

(* What a walk meets besides its first node, it meets after one step.      *)
LEMMA WalkStep ==
  ASSUME NEW n \in [Slots -> Slots \cup {NULL}], NEW x \in Slots,
         NEW s \in Walk(x, n), s # x
  PROVE  s \in Walk(n[x], n)
<1>1. s \in Slots
  BY DEF Walk
<1>2. ASSUME NEW S \in SUBSET Slots, n[x] \in S \cup {NULL},
             \A r \in S : n[r] \in S \cup {NULL}
      PROVE  s \in S
  <2>1. \A r \in S \cup {x} : n[r] \in (S \cup {x}) \cup {NULL}
    BY <1>2
  <2>2. S \cup {x} \in SUBSET Slots /\ x \in (S \cup {x}) \cup {NULL}
    OBVIOUS
  <2>3. s \in S \cup {x}
    BY <2>1, <2>2 DEF Walk
  <2> QED BY <2>3
<1> QED BY <1>1, <1>2 DEF Walk

(* No node of a list is its own neighbour.                                 *)
LEMMA ListNoLoop ==
  ASSUME NEW n \in [Slots -> Slots \cup {NULL}],
         NEW p \in [Slots -> Slots \cup {NULL}],
         NEW r, NEW l, NEW M, IsList(M, n, p, r, l), NEW x \in M
  PROVE  M \in SUBSET Slots /\ n[x] # x /\ p[x] # x
<1>1. M \in SUBSET Slots
  BY DEF IsList, Walk
<1>2. ASSUME n[x] = x
      PROVE  FALSE
  <2>0. NULL \notin Slots
    BY ConstantsAssumption
  <2>1. p[x] = x /\ r # x
    BY <1>1, <1>2, <2>0 DEF IsList
  <2>2. \A s \in M \ {x} : n[s] \in (M \ {x}) \cup {NULL}
    BY <1>1, <2>0, <2>1 DEF IsList
  <2>3. M \subseteq M \ {x}
    <3>1. M = Walk(r, n) /\ r \in M \cup {NULL}
      BY DEF IsList
    <3>2. M \ {x} \in SUBSET Slots /\ r \in (M \ {x}) \cup {NULL}
      BY <1>1, <2>1, <3>1
    <3>3. Walk(r, n) \subseteq M \ {x}
      BY <2>2, <3>2, WalkSmallest
    <3> QED BY <3>1, <3>3
  <2> QED BY <2>3
<1> QED BY <1>1, <1>2 DEF IsList

(* Whether the nodes of M are a list depends on no pointer outside M.      *)
LEMMA ListUntouched ==
  ASSUME NEW n \in [Slots -> Slots \cup {NULL}],
         NEW p \in [Slots -> Slots \cup {NULL}],
         NEW N \in [Slots -> Slots \cup {NULL}],
         NEW P \in [Slots -> Slots \cup {NULL}],
         NEW r, NEW l, NEW M, IsList(M, n, p, r, l),
         \A s \in M : N[s] = n[s] /\ P[s] = p[s]
  PROVE  IsList(M, N, P, r, l)
<1>0. NULL \notin Slots
  BY ConstantsAssumption
<1>1. M \in SUBSET Slots /\ r \in M \cup {NULL}
  BY DEF IsList, Walk
<1>2. Walk(r, N) \subseteq M
  <2>1. \A s \in M : N[s] \in M \cup {NULL}
    BY DEF IsList
  <2> QED BY <1>1, <2>1 DEF Walk
<1>3. M \subseteq Walk(r, N)
  <2> SUFFICES ASSUME NEW S \in SUBSET Slots, r \in S \cup {NULL},
                      \A s \in S : N[s] \in S \cup {NULL}
               PROVE  M \subseteq S
    BY <1>1 DEF Walk
  <2>1. \A s \in S \cap M : n[s] \in (S \cap M) \cup {NULL}
    BY <1>1 DEF IsList
  <2>2. S \cap M \in SUBSET Slots /\ r \in (S \cap M) \cup {NULL}
    BY <1>1
  <2>3. M \subseteq S \cap M
    BY <2>1, <2>2 DEF IsList, Walk
  <2> QED BY <2>3
<1> QED BY <1>0, <1>1, <1>2, <1>3 DEF IsList

(* One node without neighbours is a list.                                  *)
LEMMA ListSingle ==
  ASSUME NEW n \in [Slots -> Slots \cup {NULL}],
         NEW p \in [Slots -> Slots \cup {NULL}],
         NEW x \in Slots, n[x] = NULL, p[x] = NULL
  PROVE  IsList({x}, n, p, x, x)
<1>1. {x} \in SUBSET Slots /\ x \in {x} \cup {NULL}
      /\ \A s \in {x} : n[s] \in {x} \cup {NULL}
  OBVIOUS
<1>2. Walk(x, n) \subseteq {x}
  BY <1>1 DEF Walk
<1>3. x \in Walk(x, n)
  BY WalkClosed, ConstantsAssumption
<1> QED BY <1>2, <1>3 DEF IsList

(* A node put behind the last one is the last node of a longer list.       *)
LEMMA ListAppend ==
  ASSUME NEW n \in [Slots -> Slots \cup {NULL}],
         NEW p \in [Slots -> Slots \cup {NULL}],
         NEW r, NEW l, r # NULL, NEW M, IsList(M, n, p, r, l),
         NEW x \in Slots, x \notin M, n[x] = NULL
  PROVE  IsList(M \cup {x}, [n EXCEPT ![l] = x], [p EXCEPT ![x] = l], r, x)
<1> DEFINE N == [n EXCEPT ![l] = x]
           P == [p EXCEPT ![x] = l]
<1>0. NULL \notin Slots
  BY ConstantsAssumption
<1>1. M \in SUBSET Slots /\ r \in M /\ l \in M /\ l # x
  BY DEF IsList, Walk
<1>2. /\ N[l] = x /\ \A s \in Slots \ {l} : N[s] = n[s]
      /\ P[x] = l /\ \A s \in Slots \ {x} : P[s] = p[s]
  BY <1>1
<1> HIDE DEF N, P
<1>3. Walk(r, N) \subseteq M \cup {x}
  <2>1. \A s \in M \cup {x} : N[s] \in (M \cup {x}) \cup {NULL}
    BY <1>1, <1>2 DEF IsList
  <2>2. M \cup {x} \in SUBSET Slots /\ r \in (M \cup {x}) \cup {NULL}
    BY <1>1
  <2> QED BY <2>1, <2>2 DEF Walk
<1>4. M \cup {x} \subseteq Walk(r, N)
  <2> SUFFICES ASSUME NEW S \in SUBSET Slots, r \in S \cup {NULL},
                      \A s \in S : N[s] \in S \cup {NULL}
               PROVE  M \cup {x} \subseteq S
    BY <1>1 DEF Walk
  <2>1. \A s \in S \cap M : n[s] \in (S \cap M) \cup {NULL}
    BY <1>1, <1>2 DEF IsList
  <2>2. M \subseteq S \cap M
    BY <1>0, <1>1, <2>1, WalkSmallest DEF IsList
  <2> QED BY <1>0, <1>1, <1>2, <2>2
<1>5. \A s \in M \cup {x} : IF N[s] = NULL THEN s = x ELSE N[s] \in M \cup {x}
      /\ P[N[s]] = s
  BY <1>0, <1>1, <1>2 DEF IsList
<1>6. \A s \in M \cup {x} : IF P[s] = NULL THEN s = r ELSE P[s] \in M \cup {x}
      /\ N[P[s]] = s
  BY <1>0, <1>1, <1>2 DEF IsList
<1>7. P[r] = NULL /\ N[x] = NULL
  BY <1>0, <1>1, <1>2 DEF IsList
<1>8. IsList(M \cup {x}, N, P, r, x)
  BY <1>0, <1>1, <1>3, <1>4, <1>5, <1>6, <1>7 DEF IsList
<1> QED BY <1>8 DEF N, P

(* Removing the only node leaves the empty list ...                        *)
LEMMA ListRemoveOnly ==
  ASSUME NEW n \in [Slots -> Slots \cup {NULL}],
         NEW p \in [Slots -> Slots \cup {NULL}],
         NEW x \in Slots, NEW M, IsList(M, n, p, x, x)
  PROVE  IsList(M \ {x}, n, p, NULL, NULL)
<1>0. NULL \notin Slots
  BY ConstantsAssumption
<1>1. \A s \in {x} : n[s] \in {x} \cup {NULL}
  BY <1>0 DEF IsList
<1>2. M \subseteq {x}
  <2>1. {x} \in SUBSET Slots /\ x \in {x} \cup {NULL}
    OBVIOUS
  <2> QED BY <1>1, <2>1 DEF IsList, Walk
<1>3. Walk(NULL, n) = {}
  BY WalkNull
<1> QED BY <1>2, <1>3 DEF IsList

(* ... the first one, a list that starts at the second ...                 *)
LEMMA ListRemoveRoot ==
  ASSUME NEW n \in [Slots -> Slots \cup {NULL}],
         NEW p \in [Slots -> Slots \cup {NULL}],
         NEW l, NEW x \in Slots, x # l, NEW M, IsList(M, n, p, x, l)
  PROVE  /\ n[x] \in Slots
         /\ IsList(M \ {x}, n, [p EXCEPT ![n[x]] = NULL], n[x], l)
<1> DEFINE P == [p EXCEPT ![n[x]] = NULL]
           y == n[x]
<1>0. NULL \notin Slots
  BY ConstantsAssumption
<1>1. M \in SUBSET Slots /\ x \in M /\ l \in M \ {x} /\ y \in M
  BY <1>0 DEF IsList, Walk
<1>2. y # x
  BY <1>1, ListNoLoop
<1>3. P[y] = NULL /\ \A s \in Slots \ {y} : P[s] = p[s]
  BY <1>1
<1>4. \A s \in M \ {x} : n[s] \in (M \ {x}) \cup {NULL}
  BY <1>0, <1>1 DEF IsList
<1>5. Walk(y, n) \subseteq M \ {x}
  BY <1>1, <1>2, <1>4, WalkSmallest
<1>6. M \ {x} \subseteq Walk(y, n)
  BY <1>1, WalkStep DEF IsList
<1> HIDE DEF P
<1>7. \A s \in M \ {x} : IF n[s] = NULL THEN s = l ELSE n[s] \in M \ {x}
      /\ P[n[s]] = s
  BY <1>0, <1>1, <1>2, <1>3, <1>4 DEF IsList
<1>8. \A s \in M \ {x} : IF P[s] = NULL THEN s = y ELSE P[s] \in M \ {x}
      /\ n[P[s]] = s
  BY <1>0, <1>1, <1>2, <1>3 DEF IsList
<1>9. IsList(M \ {x}, n, P, y, l)
  BY <1>0, <1>1, <1>2, <1>3, <1>5, <1>6, <1>7, <1>8 DEF IsList
<1> QED BY <1>1, <1>9 DEF P

(* ... the last one, a list that ends at the last but one ...              *)
LEMMA ListRemoveLeaf ==
  ASSUME NEW n \in [Slots -> Slots \cup {NULL}],
         NEW p \in [Slots -> Slots \cup {NULL}],
         NEW r, NEW x \in Slots, x # r, NEW M, IsList(M, n, p, r, x)
  PROVE  /\ p[x] \in Slots
         /\ IsList(M \ {x}, [n EXCEPT ![p[x]] = NULL], p, r, p[x])
<1> DEFINE N == [n EXCEPT ![p[x]] = NULL]
           q == p[x]
<1>0. NULL \notin Slots
  BY ConstantsAssumption
<1>1. M \in SUBSET Slots /\ x \in M /\ r \in M \ {x} /\ q \in M /\ n[q] = x
  BY <1>0 DEF IsList, Walk
<1>2. q # x
  BY <1>1, ListNoLoop
<1>3. N[q] = NULL /\ \A s \in Slots \ {q} : N[s] = n[s]
  BY <1>1
<1> HIDE DEF N
<1>4. \A s \in M \ {x} : N[s] \in (M \ {x}) \cup {NULL}
  BY <1>0, <1>1, <1>3 DEF IsList
<1>5. Walk(r, N) \subseteq M \ {x}
  BY <1>1, <1>4, WalkSmallest
<1>6. M \ {x} \subseteq Walk(r, N)
  <2> SUFFICES ASSUME NEW S \in SUBSET Slots, r \in S \cup {NULL},
                      \A s \in S : N[s] \in S \cup {NULL}
               PROVE  M \ {x} \subseteq S
    BY <1>1 DEF Walk
  <2>1. \A s \in S \cup {x} : n[s] \in (S \cup {x}) \cup {NULL}
    BY <1>0, <1>1, <1>3 DEF IsList
  <2>2. S \cup {x} \in SUBSET Slots /\ r \in (S \cup {x}) \cup {NULL}
    BY <1>1
  <2>3. M \subseteq S \cup {x}
    BY <2>1, <2>2 DEF IsList, Walk
  <2> QED BY <2>3
<1>7. \A s \in M \ {x} : IF N[s] = NULL THEN s = q ELSE N[s] \in M \ {x}
      /\ p[N[s]] = s
  BY <1>0, <1>1, <1>2, <1>3, <1>4 DEF IsList
<1>8. \A s \in M \ {x} : IF p[s] = NULL THEN s = r ELSE p[s] \in M \ {x}
      /\ N[p[s]] = s
  BY <1>0, <1>1, <1>2, <1>3 DEF IsList
<1>9. IsList(M \ {x}, N, p, r, q)
  BY <1>0, <1>1, <1>2, <1>3, <1>5, <1>6, <1>7, <1>8 DEF IsList
<1> QED BY <1>1, <1>9 DEF N

(* ... and one in the middle, a list that joins its neighbours.            *)
LEMMA ListRemoveMiddle ==
  ASSUME NEW n \in [Slots -> Slots \cup {NULL}],
         NEW p \in [Slots -> Slots \cup {NULL}],
         NEW r, NEW l, NEW M, IsList(M, n, p, r, l), NEW x \in M, x # r, x # l
  PROVE  /\ n[x] \in Slots /\ p[x] \in Slots
         /\ IsList(M \ {x}, [n EXCEPT ![p[x]] = n[x]],
            [p EXCEPT ![n[x]] = p[x]], r, l)
<1> DEFINE N == [n EXCEPT ![p[x]] = n[x]]
           P == [p EXCEPT ![n[x]] = p[x]]
           q == p[x]
           y == n[x]
<1>0. NULL \notin Slots
  BY ConstantsAssumption
<1>1. /\ M \in SUBSET Slots /\ r \in M \ {x} /\ l \in M \ {x}
      /\ q \in M /\ n[q] = x /\ y \in M /\ p[y] = x
  <2>1. M \in SUBSET Slots
    BY DEF IsList, Walk
  <2>2. r # NULL /\ l # NULL
    BY <1>0, <2>1, WalkNull DEF IsList
  <2> QED BY <1>0, <2>1, <2>2 DEF IsList
<1>2. q # x /\ y # x
  BY <1>1, ListNoLoop
<1>3. /\ N[q] = y /\ \A s \in Slots \ {q} : N[s] = n[s]
      /\ P[y] = q /\ \A s \in Slots \ {y} : P[s] = p[s]
  BY <1>1
<1> HIDE DEF N, P
<1>4. \A s \in M \ {x} : N[s] \in (M \ {x}) \cup {NULL}
  BY <1>0, <1>1, <1>2, <1>3 DEF IsList
<1>5. Walk(r, N) \subseteq M \ {x}
  <2>1. M \ {x} \in SUBSET Slots /\ r \in (M \ {x}) \cup {NULL}
    BY <1>1
  <2> QED BY <1>4, <2>1 DEF Walk
<1>6. M \ {x} \subseteq Walk(r, N)
  <2> SUFFICES ASSUME NEW S \in SUBSET Slots, r \in S \cup {NULL},
                      \A s \in S : N[s] \in S \cup {NULL}
               PROVE  M \ {x} \subseteq S
    BY <1>1 DEF Walk
  <2>1. CASE q \in S
    <3>1. \A s \in S \cup {x} : n[s] \in (S \cup {x}) \cup {NULL}
      BY <1>0, <1>1, <1>3, <2>1
    <3>2. S \cup {x} \in SUBSET Slots /\ r \in (S \cup {x}) \cup {NULL}
      BY <1>1
    <3>3. M \subseteq S \cup {x}
      BY <3>1, <3>2 DEF IsList, Walk
    <3> QED BY <3>3
  <2>2. CASE q \notin S
    <3> DEFINE R == (S \cap M) \ {x}
    <3>1. \A s \in R : n[s] \in R \cup {NULL}
      BY <1>0, <1>1, <1>3, <2>2 DEF IsList
    <3>2. R \in SUBSET Slots /\ r \in R \cup {NULL}
      BY <1>0, <1>1
    <3>3. M \subseteq R
      BY <3>1, <3>2 DEF IsList, Walk
    <3> QED BY <3>3
  <2> QED BY <2>1, <2>2
<1>7. \A s \in M \ {x} : IF N[s] = NULL THEN s = l ELSE N[s] \in M \ {x}
      /\ P[N[s]] = s
  BY <1>0, <1>1, <1>2, <1>3, <1>4 DEF IsList
<1>8. \A s \in M \ {x} : IF P[s] = NULL THEN s = r ELSE P[s] \in M \ {x}
      /\ N[P[s]] = s
  BY <1>0, <1>1, <1>2, <1>3 DEF IsList
<1>9. P[r] = NULL /\ N[l] = NULL
  BY <1>0, <1>1, <1>2, <1>3 DEF IsList
<1>10. IsList(M \ {x}, N, P, r, l)
  BY <1>0, <1>1, <1>2, <1>5, <1>6, <1>7, <1>8, <1>9 DEF IsList
<1> QED BY <1>1, <1>10 DEF N, P

-----------------------------------------------------------------------------
(* The plan for the list, step by step.                                    *)
ListNow == IsList(Members, nxt, prv, root, leaf)

(* Outside an insertion and a removal the pending list is the list itself ... *)
LEMMA ListAtRest ==
  ASSUME NEW t \in Threads, pc[t] \notin Adding \cup Body
  PROVE  ListAhead(t) <=> ListNow
<1>1. Members \ Leaving(t) = Members
  BY DEF Leaving
<1>2. NxtAhead(t) = nxt /\ PrvAhead(t) = prv /\ RootAhead(t) = root
      /\ LeafAhead(t) = leaf
  BY DEF NxtAhead, PrvAhead, RootAhead, LeafAhead, Adding, Body, DestroyLabels
<1> QED BY <1>1, <1>2 DEF ListAhead, ListNow

(* ... also after a step.                                                  *)
LEMMA ListAtRestNext ==
  ASSUME NEW t \in Threads, pc'[t] \notin Adding \cup Body
  PROVE  ListAhead(t)' <=> ListNow'
<1>1. (Members \ Leaving(t))' = Members'
  BY DEF Leaving
<1>2. (NxtAhead(t) = nxt /\ PrvAhead(t) = prv /\ RootAhead(t) = root
      /\ LeafAhead(t) = leaf)'
  BY DEF NxtAhead, PrvAhead, RootAhead, LeafAhead, Adding, Body, DestroyLabels
<1> QED BY <1>1, <1>2 DEF ListAhead, ListNow

(* Steps that neither write the list nor make or end a session.            *)
LEMMA ListStepRest ==
  ASSUME NEW t \in Threads, TypeOK, ListAhead(t), PointersGood(t),
         \/ Accept(t) \/ FindMiss(t) \/ FindHit(t) \/ SweepStart(t)
            \/ SweepSkip(t)
         \/ SweepKill(t) \/ NameMutex(t) \/ Timing(t) \/ WaitMutex(t) \/ CheckKilled(t)
         \/ RefreshBlock(t) \/ RefreshDone(t) \/ DispatchDone(t)
         \/ InitCheck(t) \/ FreeBody(t) \/ Release(t)
         \/ Dispatch(t) \/ EndParse(t) \/ SmallDone(t) \/ FreeInit(t)
  PROVE  ListAhead(t)'
<1>1. nxt' = nxt /\ prv' = prv /\ root' = root /\ leaf' = leaf
  BY DEF Accept, FindMiss, FindHit, SweepStart, SweepSkip, SweepKill,
     NameMutex, Timing, WaitMutex, CheckKilled, RefreshBlock, RefreshDone,
     DispatchDone, InitCheck, FreeBody, Release, Dispatch, EndParse, SmallDone,
     FreeInit, structVars, registryVars
<1>2. pc[t] \notin Adding \cup Body /\ pc'[t] \notin Adding \cup Body
  BY DEF TypeOK, Goto, Adding, Body, DestroyLabels, Accept, FindMiss, FindHit,
     SweepStart, SweepSkip, SweepKill, NameMutex, Timing, WaitMutex, CheckKilled,
     RefreshBlock, RefreshDone, DispatchDone, InitCheck, FreeBody, Release,
     Dispatch, EndParse, SmallDone, FreeInit, BodyOrRelease
<1>3. Members' = Members
  <2>1. CASE Dispatch(t) \/ EndParse(t)
    BY <2>1 DEF Dispatch, EndParse, Members, PointersGood, TypeOK
  <2>2. CASE SmallDone(t) \/ FreeInit(t)
    BY <2>2 DEF SmallDone, FreeInit, Free, Members, PointersGood, TypeOK
  <2>3. CASE ~(Dispatch(t) \/ EndParse(t) \/ SmallDone(t) \/ FreeInit(t))
    <3>1. mem' = mem /\ readyState' = readyState
      BY <2>3 DEF Accept, FindMiss, FindHit, SweepStart, SweepSkip, SweepKill,
         NameMutex, Timing, WaitMutex, CheckKilled, RefreshBlock, RefreshDone,
         DispatchDone, InitCheck, FreeBody, Release, structVars
    <3> QED BY <3>1 DEF Members
  <2> QED BY <2>1, <2>2, <2>3
<1> QED BY <1>1, <1>2, <1>3, ListAtRest, ListAtRestNext DEF ListNow

(* A new struct leaves the list of the others as it is.                    *)
LEMMA AllocList ==
  ASSUME NEW t \in Threads, TypeOK, ListAhead(t), Alloc(t)
  PROVE  \E x \in Slots :
           /\ x \notin Members /\ Members' = Members \cup {x}
              /\ Members' \ {x} = Members
           /\ ptr'[t] = x /\ nxt'[x] = NULL /\ prv'[x] = NULL
           /\ IsList(Members, nxt', prv', root', leaf')
<1>1. PICK x \in Slots :
         /\ mem[x] # "live"
         /\ mem' = [mem EXCEPT ![x] = "live"]
         /\ readyState' = [readyState EXCEPT ![x] = "INIT"]
         /\ nxt' = [nxt EXCEPT ![x] = NULL]
         /\ prv' = [prv EXCEPT ![x] = NULL]
         /\ ptr' = [ptr EXCEPT ![t] = x]
  BY DEF Alloc
<1>2. ListNow
  BY ListAtRest DEF Alloc, ListNow, Adding, Body, DestroyLabels
<1>3. x \notin Members /\ Members' = Members \cup {x} /\ ptr'[t] = x
  BY <1>1 DEF Members, TypeOK
<1>4. nxt' \in [Slots -> Slots \cup {NULL}]
      /\ prv' \in [Slots -> Slots \cup {NULL}]
  BY <1>1 DEF TypeOK
<1>5. \A s \in Members : nxt'[s] = nxt[s] /\ prv'[s] = prv[s]
  BY <1>1, <1>3 DEF TypeOK, Members
<1>6. nxt \in [Slots -> Slots \cup {NULL}] /\ prv \in [Slots -> Slots \cup {NULL}]
  BY DEF TypeOK
<1>7. IsList(Members, nxt', prv', root, leaf)
  BY <1>2, <1>4, <1>5, <1>6, ListUntouched DEF ListNow
<1>8. nxt'[x] = NULL /\ prv'[x] = NULL
  BY <1>1 DEF TypeOK
<1>9. IsList(Members, nxt', prv', root', leaf')
  BY <1>7 DEF Alloc, registryVars
<1>10. Members' \ {x} = Members
  BY <1>3
<1> QED BY <1>3, <1>8, <1>9, <1>10

(* CreateSodiumSession plans to append its struct.                         *)
LEMMA ListStepAlloc ==
  ASSUME NEW t \in Threads, TypeOK, ListAhead(t), Alloc(t)
  PROVE  ListAhead(t)'
<1>0. NULL \notin Slots
  BY ConstantsAssumption
<1>1. PICK x \in Slots :
         /\ x \notin Members /\ Members' = Members \cup {x} /\ ptr'[t] = x
         /\ nxt'[x] = NULL /\ prv'[x] = NULL
         /\ IsList(Members, nxt', prv', root', leaf')
  BY AllocList
<1>2. pc'[t] = (IF root = NULL THEN "setRoot" ELSE "addPrev")
  BY DEF Alloc, Goto, TypeOK
<1>3. root' = root /\ leaf' = leaf
  BY DEF Alloc, registryVars
<1>4. (Members \ Leaving(t))' = Members \cup {x}
  BY <1>1, <1>2 DEF Leaving, Body, DestroyLabels
<1>5. nxt' \in [Slots -> Slots \cup {NULL}]
      /\ prv' \in [Slots -> Slots \cup {NULL}]
  BY DEF Alloc, TypeOK
<1>6. IsList(Members, nxt', prv', root, leaf)
  BY <1>1, <1>3
<1>7. CASE root = NULL
  <2>1. NxtAhead(t)' = nxt' /\ PrvAhead(t)' = prv' /\ RootAhead(t)' = x
        /\ LeafAhead(t)' = x
    BY <1>1, <1>2, <1>3, <1>7 DEF NxtAhead, PrvAhead, RootAhead, LeafAhead,
       Adding, Body, DestroyLabels
  <2>2. Members = {}
    BY <1>6, <1>7, WalkNull DEF IsList
  <2>3. IsList({x}, nxt', prv', x, x)
    BY <1>1, <1>5, ListSingle
  <2> QED BY <1>4, <2>1, <2>2, <2>3 DEF ListAhead
<1>8. CASE root # NULL
  <2>1. /\ NxtAhead(t)' = [nxt' EXCEPT ![leaf] = x]
        /\ PrvAhead(t)' = [prv' EXCEPT ![x] = leaf]
        /\ RootAhead(t)' = root /\ LeafAhead(t)' = x
    BY <1>1, <1>2, <1>3, <1>8 DEF NxtAhead, PrvAhead, RootAhead, LeafAhead,
       Adding, Body, DestroyLabels
  <2>2. IsList(Members \cup {x}, [nxt' EXCEPT ![leaf] = x],
        [prv' EXCEPT ![x] = leaf], root, x)
    BY <1>1, <1>5, <1>6, <1>8, ListAppend
  <2> QED BY <1>4, <2>1, <2>2 DEF ListAhead
<1> QED BY <1>7, <1>8

(* The writes of an insertion follow that plan.                            *)
LEMMA ListStepAdd ==
  ASSUME NEW t \in Threads, TypeOK, ListAhead(t), WritesLand(t), LocalsSet,
         SetRoot(t) \/ SetLeaf(t) \/ AddPrev(t) \/ AddNext(t)
  PROVE  ListAhead(t)'
<1>1. mem' = mem /\ readyState' = readyState /\ ptr' = ptr /\ cur' = cur
  BY DEF SetRoot, SetLeaf, AddPrev, AddNext, structVars, localVars
<1>2. (Members \ Leaving(t))' = Members \ Leaving(t)
  <2>1. Members' = Members
    BY <1>1 DEF Members
  <2>2. Leaving(t) = {} /\ Leaving(t)' = {}
    BY DEF SetRoot, SetLeaf, AddPrev, AddNext, Leaving, Goto, TypeOK, Body,
       DestroyLabels
  <2> QED BY <2>1, <2>2
<1>3. /\ NxtAhead(t)' = NxtAhead(t) /\ PrvAhead(t)' = PrvAhead(t)
      /\ RootAhead(t)' = RootAhead(t) /\ LeafAhead(t)' = LeafAhead(t)
  <2> USE DEF Adding, Body, DestroyLabels, Goto, TypeOK, structVars,
     registryVars, localVars, WritesLand, Members
  <2>1. CASE SetRoot(t)
    BY <2>1, <1>1 DEF SetRoot, NxtAhead, PrvAhead, RootAhead, LeafAhead
  <2>2. CASE SetLeaf(t)
    BY <2>2, <1>1 DEF SetLeaf, NxtAhead, PrvAhead, RootAhead, LeafAhead
  <2>3. CASE AddPrev(t)
    BY <2>3, <1>1 DEF AddPrev, NxtAhead, PrvAhead, RootAhead, LeafAhead
  <2>4. CASE AddNext(t)
    BY <2>4, <1>1 DEF AddNext, NxtAhead, PrvAhead, RootAhead, LeafAhead
  <2> QED BY <2>1, <2>2, <2>3, <2>4
<1> QED BY <1>2, <1>3 DEF ListAhead

(* destroySession plans to remove its struct, whatever its position.       *)
LEMMA ListStepEnter ==
  ASSUME NEW t \in Threads, TypeOK, ListAhead(t), PointersGood(t), DestroyEnter(t)
  PROVE  ListAhead(t)'
<1> DEFINE s == cur[t]
<1>0. NULL \notin Slots
  BY ConstantsAssumption
<1>1. pc[t] = "enter" /\ pc'[t] = "unlink1"
  BY DEF DestroyEnter, Goto, TypeOK
<1>2. nxt' = nxt /\ prv' = prv /\ root' = root /\ leaf' = leaf /\ cur' = cur
  BY DEF DestroyEnter, registryVars, localVars
<1>3. s \in Members
  BY <1>1 DEF PointersGood
<1>4. Members' = Members
  BY <1>3 DEF DestroyEnter, Members, TypeOK
<1>5. (Members \ Leaving(t))' = Members \ {s}
  BY <1>1, <1>2, <1>3, <1>4 DEF Leaving, Body, DestroyLabels, Members
<1>6. IsList(Members, nxt, prv, root, leaf)
  BY <1>1, ListAtRest DEF ListNow, Adding, Body, DestroyLabels
<1>7. s \in Slots /\ root \in Slots \cup {NULL} /\ leaf \in Slots \cup {NULL}
  BY <1>3 DEF Members, TypeOK
<1>8. nxt \in [Slots -> Slots \cup {NULL}] /\ prv \in [Slots -> Slots \cup {NULL}]
  BY DEF TypeOK
<1>9. RoleAhead(t)' = Role(s)
  BY <1>1, <1>2 DEF RoleAhead, Role
<1> HIDE DEF s
<1>10. CASE s # root /\ s # leaf
  <2>1. Role(s) = "middle"
    BY <1>10 DEF Role
  <2>2. /\ NxtAhead(t)' = [nxt EXCEPT ![prv[s]] = nxt[s]]
        /\ PrvAhead(t)' = [prv EXCEPT ![nxt[s]] = prv[s]]
        /\ RootAhead(t)' = root /\ LeafAhead(t)' = leaf
    BY <1>1, <1>2, <1>9, <2>1 DEF NxtAhead, PrvAhead, RootAhead, LeafAhead,
       Adding, Body, DestroyLabels, s
  <2>3. IsList(Members \ {s}, [nxt EXCEPT ![prv[s]] = nxt[s]],
        [prv EXCEPT ![nxt[s]] = prv[s]],
               root, leaf)
    BY <1>3, <1>6, <1>8, <1>10, ListRemoveMiddle
  <2> QED BY <1>5, <2>2, <2>3 DEF ListAhead
<1>11. CASE s = root /\ s # leaf
  <2>1. Role(s) = "root"
    BY <1>11 DEF Role
  <2>2. /\ NxtAhead(t)' = nxt
        /\ PrvAhead(t)' = [prv EXCEPT ![nxt[s]] = NULL]
        /\ RootAhead(t)' = nxt[s] /\ LeafAhead(t)' = leaf
    BY <1>1, <1>2, <1>9, <2>1 DEF NxtAhead, PrvAhead, RootAhead, LeafAhead,
       Adding, Body, DestroyLabels, s
  <2>3. IsList(Members, nxt, prv, s, leaf)
    BY <1>6, <1>11
  <2>4. IsList(Members \ {s}, nxt, [prv EXCEPT ![nxt[s]] = NULL], nxt[s], leaf)
    BY <1>7, <1>8, <1>11, <2>3, ListRemoveRoot
  <2> QED BY <1>5, <2>2, <2>4 DEF ListAhead
<1>12. CASE s # root /\ s = leaf
  <2>1. Role(s) = "leaf"
    BY <1>12 DEF Role
  <2>2. /\ NxtAhead(t)' = [nxt EXCEPT ![prv[s]] = NULL]
        /\ PrvAhead(t)' = prv
        /\ RootAhead(t)' = root /\ LeafAhead(t)' = prv[s]
    BY <1>1, <1>2, <1>9, <1>12, <2>1 DEF NxtAhead, PrvAhead, RootAhead,
       LeafAhead, Adding, Body, DestroyLabels, s
  <2>3. IsList(Members, nxt, prv, root, s)
    BY <1>6, <1>12
  <2>4. IsList(Members \ {s}, [nxt EXCEPT ![prv[s]] = NULL], prv, root, prv[s])
    BY <1>7, <1>8, <1>12, <2>3, ListRemoveLeaf
  <2> QED BY <1>5, <2>2, <2>4 DEF ListAhead
<1>13. CASE s = root /\ s = leaf
  <2>1. Role(s) = "only"
    BY <1>13 DEF Role
  <2>2. /\ NxtAhead(t)' = nxt /\ PrvAhead(t)' = prv
        /\ RootAhead(t)' = NULL /\ LeafAhead(t)' = NULL
    BY <1>1, <1>2, <1>9, <2>1 DEF NxtAhead, PrvAhead, RootAhead, LeafAhead,
       Adding, Body, DestroyLabels, s
  <2>3. IsList(Members, nxt, prv, s, s)
    BY <1>6, <1>13
  <2>4. IsList(Members \ {s}, nxt, prv, NULL, NULL)
    BY <1>7, <1>8, <1>13, <2>3, ListRemoveOnly
  <2> QED BY <1>5, <2>2, <2>4 DEF ListAhead
<1> QED BY <1>10, <1>11, <1>12, <1>13

(* The writes of a removal follow that plan.                               *)
LEMMA ListStepUnlink ==
  ASSUME NEW t \in Threads, TypeOK, ListAhead(t), WritesLand(t), LocalsSet,
         Unlink1(t) \/ Unlink2(t)
  PROVE  ListAhead(t)'
<1>1. mem' = mem /\ readyState' = readyState /\ ptr' = ptr /\ cur' = cur
  BY DEF Unlink1, Unlink2, structVars, localVars
<1>2. (Members \ Leaving(t))' = Members \ Leaving(t)
  <2>1. Members' = Members
    BY <1>1 DEF Members
  <2>2. Leaving(t)' = Leaving(t)
    BY <1>1 DEF Unlink1, Unlink2, Leaving, Goto, TypeOK, Body, DestroyLabels
  <2> QED BY <2>1, <2>2
<1>3. cur[t] \in Slots
  BY DEF Unlink1, Unlink2, TypeOK, LocalsSet, DestroyLabels
<1>4. /\ NxtAhead(t)' = NxtAhead(t) /\ PrvAhead(t)' = PrvAhead(t)
      /\ RootAhead(t)' = RootAhead(t) /\ LeafAhead(t)' = LeafAhead(t)
  <2> USE <1>1, <1>3, ConstantsAssumption DEF Adding, Body, DestroyLabels,
     Goto, TypeOK, registryVars, localVars
  <2>1. CASE Unlink1(t) /\ Role(cur[t]) = "middle"
    BY <2>1 DEF Unlink1, NxtAhead, PrvAhead, RootAhead, LeafAhead, RoleAhead,
       WritesLand, Members
  <2>2. CASE Unlink1(t) /\ Role(cur[t]) = "root"
    BY <2>2 DEF Unlink1, NxtAhead, PrvAhead, RootAhead, LeafAhead, RoleAhead,
       WritesLand, Members
  <2>3. CASE Unlink1(t) /\ Role(cur[t]) = "leaf"
    BY <2>3 DEF Unlink1, NxtAhead, PrvAhead, RootAhead, LeafAhead, RoleAhead,
       WritesLand, Members
  <2>4. CASE Unlink1(t) /\ Role(cur[t]) = "only"
    BY <2>4 DEF Unlink1, NxtAhead, PrvAhead, RootAhead, LeafAhead, RoleAhead,
       WritesLand, Members
  <2>5. CASE Unlink2(t)
    BY <2>5 DEF Unlink2, NxtAhead, PrvAhead, RootAhead, LeafAhead, RoleAhead,
       WritesLand, Members
  <2>6. Role(cur[t]) \in {"middle", "root", "leaf", "only"}
    BY DEF Role
  <2> QED BY <2>1, <2>2, <2>3, <2>4, <2>5, <2>6
<1> QED BY <1>2, <1>4 DEF ListAhead

(* The rest of destroySession takes the removed struct out of the members. *)
LEMMA ListStepEnd ==
  ASSUME NEW t \in Threads, TypeOK, ListAhead(t), PointersGood(t), LocalsSet,
         TearDown(t) \/ MarkKilled(t) \/ DestroyLeave(t)
  PROVE  ListAhead(t)'
<1>1. mem' = mem /\ ptr' = ptr
  BY DEF TearDown, MarkKilled, DestroyLeave, structVars, localVars
<1>2. cur[t] \in Slots
  BY DEF TearDown, MarkKilled, DestroyLeave, TypeOK, LocalsSet, DestroyLabels
<1>3. CASE TearDown(t) \/ MarkKilled(t)
  <2>1. cur' = cur /\ role' = role
    BY <1>3 DEF TearDown, MarkKilled, localVars
  <2>2. (Members \ Leaving(t))' = Members \ Leaving(t)
    BY <1>1, <1>2, <1>3, <2>1 DEF Members, Leaving, Goto, TypeOK, Body,
       DestroyLabels, TearDown, MarkKilled
  <2>3. /\ NxtAhead(t)' = NxtAhead(t) /\ PrvAhead(t)' = PrvAhead(t)
        /\ RootAhead(t)' = RootAhead(t) /\ LeafAhead(t)' = LeafAhead(t)
    BY <1>1, <1>3, <2>1 DEF TearDown, MarkKilled, Adding, Body, DestroyLabels,
       Goto, TypeOK, structVars, registryVars, localVars, NxtAhead, PrvAhead,
       RootAhead, LeafAhead, RoleAhead
  <2> QED BY <2>2, <2>3 DEF ListAhead
<1>4. CASE DestroyLeave(t)
  <2>1. /\ pc[t] = "leaveCS" /\ pc'[t] \in {"name", "small", "freeInit"}
        /\ nxt' = nxt /\ prv' = prv /\ readyState' = readyState
        /\ root' = (IF role[t] = "only" THEN NULL ELSE root)
        /\ leaf' = (IF role[t] = "only" THEN NULL ELSE leaf)
    BY <1>4 DEF DestroyLeave, structVars, Goto, TypeOK
  <2>2. (Members \ Leaving(t))' = Members \ Leaving(t)
    <3>1. Members' = Members
      BY <1>1, <2>1 DEF Members
    <3>2. Leaving(t)' = {} /\ Members \cap Leaving(t) = {}
      BY <2>1 DEF Leaving, Members, PointersGood, Body, DestroyLabels
    <3> QED BY <3>1, <3>2
  <2>3. /\ NxtAhead(t) = nxt /\ PrvAhead(t) = prv
        /\ RootAhead(t) = root' /\ LeafAhead(t) = leaf'
    BY <2>1 DEF NxtAhead, PrvAhead, RootAhead, LeafAhead, RoleAhead, Adding,
       Body, DestroyLabels
  <2>4. ListAhead(t)' <=> ListNow'
    BY <2>1, ListAtRestNext DEF Adding, Body, DestroyLabels
  <2>5. Members' = Members \ Leaving(t)
    BY <2>1, <2>2 DEF Leaving, Body, DestroyLabels
  <2> QED BY <2>1, <2>3, <2>4, <2>5 DEF ListAhead, ListNow
<1> QED BY <1>3, <1>4

-----------------------------------------------------------------------------
(* The other parts of the invariant, step by step.                         *)
LEMMA WritesStep ==
  ASSUME NEW t \in Threads, TypeOK, LocalsSet, ListAhead(t), WritesLand(t),
         PointersGood(t),
         Step(t) \/ Accept(t)
  PROVE  WritesLand(t)'
<1> USE ConstantsAssumption DEF WritesLand, Goto, TypeOK, LocalsSet,
   DestroyLabels
<1>1. CASE Alloc(t)
  <2>1. IsList(Members, nxt, prv, root, leaf)
    BY <1>1, ListAtRest DEF Alloc, ListNow, Adding, Body
  <2>2. root # NULL => leaf \in Members
    BY <2>1 DEF IsList
  <2> QED BY <1>1, <2>2 DEF Alloc, registryVars, Members
<1>2. CASE DestroyEnter(t)
  <2>1. IsList(Members, nxt, prv, root, leaf) /\ cur[t] \in Members
    BY <1>2, ListAtRest DEF DestroyEnter, ListNow, Adding, Body, PointersGood
  <2>2. cur'[t] = cur[t] /\ Role(cur[t])' = Role(cur[t]) /\ nxt' = nxt
        /\ prv' = prv
    BY <1>2 DEF DestroyEnter, registryVars, localVars, Role
  <2>3. /\ nxt \in [Slots -> Slots \cup {NULL}]
           /\ prv \in [Slots -> Slots \cup {NULL}]
        /\ root \in Slots \cup {NULL} /\ leaf \in Slots \cup {NULL}
           /\ cur[t] \in Slots
    BY <2>1 DEF Members
  <2>4. prv[cur[t]] # cur[t]
    <3> HIDE DEF WritesLand, Goto, TypeOK, LocalsSet, DestroyLabels
    <3> QED BY <2>1, <2>3, ListNoLoop
  <2>5. cur[t] # root => prv[cur[t]] \in Members
    BY <2>1, <2>3 DEF IsList
  <2>6. cur[t] # leaf => nxt[cur[t]] \in Members
    BY <2>1, <2>3 DEF IsList
  <2>7. /\ Role(cur[t]) = "middle" => cur[t] # root /\ cur[t] # leaf
        /\ Role(cur[t]) = "leaf" => cur[t] # root
        /\ Role(cur[t]) = "root" => cur[t] # leaf
    BY DEF Role
  <2>8. Members' = Members
    BY <1>2, <2>1 DEF DestroyEnter, Members
  <2> QED BY <1>2, <2>2, <2>4, <2>5, <2>6, <2>7, <2>8 DEF DestroyEnter
<1>3. CASE Unlink1(t)
  <2>1. Role(cur[t]) \in {"middle", "root", "leaf", "only"}
        /\ (Role(cur[t]) = "leaf" => cur[t] = leaf)
    BY DEF Role
  <2>2. cur[t] \in Members /\ Members' = Members
    BY <1>3 DEF Unlink1, PointersGood, Body, Members
  <2>3. cur'[t] = cur[t] /\ leaf' = leaf /\ pc'[t] \in {"unlink2", "tear"}
        /\ role'[t] = Role(cur[t]) /\ (Role(cur[t]) = "only" => pc'[t] = "tear")
    BY <1>3 DEF Unlink1, registryVars
  <2>4. Role(cur[t]) = "middle" => nxt'[cur[t]] = nxt[cur[t]]
    BY <1>3, <2>2 DEF Unlink1, Members
  <2> QED BY <1>3, <2>1, <2>2, <2>3, <2>4 DEF Unlink1
<1>4. CASE SetRoot(t)
  BY <1>4 DEF SetRoot, registryVars, localVars, structVars
<1>5. CASE AddPrev(t)
  BY <1>5 DEF AddPrev, registryVars, localVars, structVars, Members
<1>6. CASE Accept(t) \/ FindMiss(t) \/ FindHit(t) \/ SetLeaf(t) \/ AddNext(t)
  BY <1>6 DEF FreshIds, Accept, Matches, FindMiss, FindHit, SetLeaf, AddNext,
     registryVars, localVars, structVars
<1>7. CASE
  SweepStart(t) \/ SweepSkip(t) \/ SweepKill(t) \/ NameMutex(t) \/ Timing(t) \/ WaitMutex(t)
  BY <1>7 DEF SweepStart, SweepSkip, Expired, SweepKill, NameMutex, Timing, WaitMutex,
     registryVars, localVars, structVars
<1>8. CASE
  CheckKilled(t) \/ Dispatch(t) \/ EndParse(t) \/ RefreshBlock(t)
  \/ RefreshDone(t)
  BY <1>8 DEF CheckKilled, SessionIsDead, Dispatch, EndParse, RefreshBlock,
     RefreshDone, registryVars, localVars, structVars
<1>9. CASE
  SmallDone(t) \/ DispatchDone(t) \/ InitCheck(t) \/ FreeInit(t) \/ FreeBody(t)
  <2>1. pc'[t] \in {"after", "initCheck", "enter", "body", "release"}
    BY <1>9 DEF SmallDone, DispatchDone, BodyOrRelease, InitCheck, FreeInit, FreeBody
  <2> QED BY <2>1
<1>10. CASE
  Release(t) \/ Unlink2(t) \/ TearDown(t) \/ MarkKilled(t) \/ DestroyLeave(t)
  <2>1. pc'[t] \in {"idle", "tear", "killed", "leaveCS", "name", "small", "freeInit"}
    BY <1>10 DEF Release, Unlink2, TearDown, MarkKilled, DestroyLeave
  <2> QED BY <2>1
<1> QED BY <1>1, <1>2, <1>3, <1>4, <1>5, <1>6, <1>7, <1>8, <1>9, <1>10 DEF Step

(* A look-up meets every session that carries the wanted id.               *)
LEMMA NotPassedStep ==
  ASSUME NEW t \in Threads, TypeOK, LocalsSet, ListAhead(t), NotPassed(t),
         PointersGood(t), Step(t) \/ Accept(t)
  PROVE  NotPassed(t)'
<1> USE ConstantsAssumption DEF NotPassed, Goto, TypeOK, LocalsSet,
   DestroyLabels
<1>1. CASE Accept(t)
  <2>1. IsList(Members, nxt, prv, root, leaf)
    BY <1>1, ListAtRest DEF Accept, ListNow, Adding, Body
  <2>2. Members' = Members /\ nxt' = nxt /\ sid' = sid /\ Members \subseteq Slots
    BY <1>1 DEF Accept, Members, structVars
  <2>3. PICK i \in Ids \cup {NULL}, known \in BOOLEAN :
           /\ known \/ i \in FreshIds
           /\ req'[t].id = i
           /\ cur'[t] = IF known /\ i # NULL THEN root ELSE NULL
           /\ pc'[t] = (IF i = NULL THEN "sweepStart"
                        ELSE IF known /\ root # NULL THEN "find" ELSE "alloc")
    BY <1>1 DEF Accept
  <2>4. root = NULL => Members = {}
    BY <2>1, WalkNull DEF IsList
  <2>5. Members = Walk(root, nxt)
    BY <2>1 DEF IsList
  <2>6. i \in FreshIds => \A s \in Members : sid[s] # i
    BY DEF FreshIds, Members
  <2> QED BY <2>2, <2>3, <2>4, <2>5, <2>6
<1>2. CASE FindMiss(t)
  <2>1. Members' = Members /\ nxt' = nxt /\ sid' = sid /\ req' = req
        /\ cur'[t] = nxt[cur[t]]
    BY <1>2 DEF FindMiss, Members, structVars
  <2>2. cur[t] \in Slots /\ nxt \in [Slots -> Slots \cup {NULL}]
    BY <1>2 DEF FindMiss
  <2>3. ASSUME NEW s \in Members, sid[s] = req[t].id
        PROVE  s \in Walk(nxt[cur[t]], nxt)
    <3>1. s \in Walk(cur[t], nxt) /\ s # cur[t]
      BY <1>2, <2>3 DEF FindMiss, Matches
    <3> QED BY <2>2, <3>1, WalkStep
  <2>4. Walk(NULL, nxt) = {}
    BY WalkNull
  <2> QED BY <1>2, <2>1, <2>3, <2>4 DEF FindMiss
<1>3. CASE FindHit(t) \/ Alloc(t) \/ SetRoot(t) \/ SetLeaf(t) \/ AddPrev(t)
  BY <1>3 DEF Matches, FindHit, Alloc, SetRoot, SetLeaf, AddPrev, structVars,
     localVars
<1>4. CASE
  AddNext(t) \/ SweepStart(t) \/ SweepSkip(t) \/ SweepKill(t) \/ NameMutex(t) \/ Timing(t)
  BY <1>4 DEF AddNext, SweepStart, SweepSkip, Expired, SweepKill, NameMutex, Timing,
     structVars, localVars
<1>5. CASE
  WaitMutex(t) \/ CheckKilled(t) \/ Dispatch(t) \/ EndParse(t) \/ RefreshBlock(t)
  BY <1>5 DEF WaitMutex, CheckKilled, SessionIsDead, Dispatch, EndParse,
     RefreshBlock, structVars, localVars
<1>6. CASE
  RefreshDone(t) \/ SmallDone(t) \/ DispatchDone(t) \/ InitCheck(t) \/ FreeInit(t)
  BY <1>6 DEF RefreshDone, Free, SmallDone, DispatchDone, NeverReady, BodyOrRelease,
     InitCheck, FreeInit, structVars, localVars
<1>7. CASE
  FreeBody(t) \/ Release(t) \/ DestroyEnter(t) \/ Unlink1(t) \/ Unlink2(t)
  BY <1>7 DEF FreeBody, NoRequest, Release, DestroyEnter, Unlink1, Unlink2,
     structVars, localVars
<1>8. CASE TearDown(t) \/ MarkKilled(t)
  BY <1>8 DEF TearDown, MarkKilled, structVars, localVars
<1>9. CASE DestroyLeave(t)
  <2>1. pc'[t] \notin {"find", "alloc"}
    BY <1>9 DEF DestroyLeave
  <2> QED BY <2>1
<1> QED BY <1>1, <1>2, <1>3, <1>4, <1>5, <1>6, <1>7, <1>8, <1>9 DEF Step

(* Ids are given to new structs and cleared before a struct is KILLED.     *)
LEMMA IdsStep ==
  ASSUME NEW t \in Threads, TypeOK, LocalsSet, IdsOwned(t), NotPassed(t),
         PointersGood(t), Step(t) \/ Accept(t)
  PROVE  IdsOwned(t)'
<1> USE ConstantsAssumption DEF IdsOwned, OneSessionPerUser, Members, Leaving,
   Goto, TypeOK, LocalsSet, DestroyLabels, Body
<1>1. CASE Alloc(t)
  <2>1. PICK x \in Slots :
         /\ mem[x] # "live"
         /\ mem' = [mem EXCEPT ![x] = "live"]
         /\ sid' = [sid EXCEPT ![x] = req[t].id]
         /\ readyState' = [readyState EXCEPT ![x] = "INIT"]
         /\ heap' = [heap EXCEPT ![x] = TRUE]
    BY <1>1 DEF Alloc
  <2>2. \A s \in Slots : mem[s] = "live" => sid[s] # req[t].id
    BY <1>1 DEF Alloc, NotPassed
  <2> QED BY <1>1, <2>1, <2>2 DEF Alloc
<1>2. CASE Dispatch(t)
  BY <1>2 DEF SessionIsDead, Dispatch, PointersGood, structVars, localVars
<1>3. CASE EndParse(t)
  BY <1>3 DEF EndParse, PointersGood, structVars, localVars
<1>4. CASE SmallDone(t)
  <2>1. /\ sid' = sid /\ readyState' = readyState /\ heap' = heap
           /\ pc' = [pc EXCEPT ![t] = "after"]
        /\ \A s \in Slots : mem'[s] = "live" => mem[s] = "live"
    BY <1>4 DEF SmallDone, Free
  <2>2. Members' = Members
    BY <1>4 DEF SmallDone, Free
  <2> QED BY <1>4, <2>1, <2>2 DEF SmallDone
<1>5. CASE FreeInit(t)
  BY <1>5 DEF Free, FreeInit, BodyOrRelease, PointersGood, structVars, localVars
<1>6. CASE DestroyEnter(t)
  BY <1>6 DEF DestroyEnter, PointersGood, structVars, localVars
<1>7. CASE TearDown(t)
  BY <1>7 DEF TearDown, PointersGood, structVars, localVars
<1>8. CASE MarkKilled(t)
  BY <1>8 DEF MarkKilled, PointersGood, structVars, localVars
<1>9. CASE DestroyLeave(t)
  <2>1. /\ mem' = mem /\ sid' = sid /\ readyState' = readyState /\ heap' = heap
        /\ pc[t] = "leaveCS"
    BY <1>9 DEF DestroyLeave, structVars
  <2>2. pc'[t] \notin {"killed", "leaveCS"}
    <3>1. pc' = [pc EXCEPT ![t] = ret[t]]
      BY <1>9 DEF DestroyLeave
    <3>2. pc \in [Threads -> Labels] /\ ret[t] \in {"name", "small", "freeInit"}
      OBVIOUS
    <3> QED BY ONLY <3>1, <3>2, t \in Threads
  <2>3. Members' = Members
    BY <2>1
  <2>4. OneSessionPerUser'
    BY <2>1
  <2>5. \A s \in Members : sid[s] # NULL
    BY <2>1
  <2> HIDE DEF Members, OneSessionPerUser
  <2> QED BY <2>1, <2>2, <2>3, <2>4, <2>5
<1>10. CASE Accept(t) \/ FindMiss(t) \/ FindHit(t) \/ SetRoot(t) \/ SetLeaf(t)
  BY <1>10 DEF FreshIds, Accept, Matches, FindMiss, FindHit, SetRoot, SetLeaf,
     PointersGood, structVars, localVars
<1>11. CASE
  AddPrev(t) \/ AddNext(t) \/ SweepStart(t) \/ SweepSkip(t) \/ SweepKill(t)
  BY <1>11 DEF AddPrev, AddNext, SweepStart, SweepSkip, Expired, SweepKill,
     PointersGood, structVars, localVars
<1>12. CASE
  NameMutex(t) \/ Timing(t) \/ WaitMutex(t) \/ CheckKilled(t) \/ RefreshBlock(t)
  \/ RefreshDone(t)
  BY <1>12 DEF NameMutex, Timing, WaitMutex, CheckKilled, RefreshBlock, RefreshDone,
     PointersGood, structVars, localVars
<1>13. CASE
  DispatchDone(t) \/ InitCheck(t) \/ FreeBody(t) \/ Release(t) \/ Unlink1(t)
  BY <1>13 DEF DispatchDone, NeverReady, BodyOrRelease, InitCheck, FreeBody, NoRequest,
     Release, Unlink1, PointersGood, structVars, localVars
<1>14. CASE Unlink2(t)
  BY <1>14 DEF Unlink2, PointersGood, structVars, localVars
<1> QED BY <1>1, <1>2, <1>3, <1>4, <1>5, <1>6, <1>7, <1>8, <1>9, <1>10, <1>11,
   <1>12, <1>13, <1>14 DEF Step

(* A thread alone keeps its two pointers on live structs.                  *)
LEMMA PointersGoodStep ==
  ASSUME NEW t \in Threads, TypeOK, LocalsSet, CalledOnOwn, ListAhead(t),
         WritesLand(t), IdsOwned(t), PointersGood(t), Accept(t) \/ (~Dies(t) /\ Step(t))
  PROVE  PointersGood(t)'
<1>0. pc[t] \in {"idle", "find", "sweepStart", "sweep"} =>
        /\ root # NULL => root \in Members
        /\ cur[t] \in Members => nxt[cur[t]] \in Members \cup {NULL}
  <2>1. pc[t] \in {"idle", "find", "sweepStart", "sweep"}
        => IsList(Members, nxt, prv, root, leaf)
    BY ListAtRest DEF ListNow, Adding, Body, DestroyLabels
  <2> QED BY <2>1 DEF IsList
<1> USE ConstantsAssumption DEF PointersGood, Members, Goto, TypeOK, LocalsSet,
   CalledOnOwn, DestroyLabels, Body, Adding
<1>1. CASE Accept(t)
  BY <1>1, <1>0 DEF FreshIds, Accept, ForeignCookie, structVars, registryVars, localVars
<1>2. CASE FindMiss(t)
  BY <1>2, <1>0 DEF Matches, FindMiss, structVars, registryVars, localVars
<1>3. CASE FindHit(t)
  BY <1>3, <1>0 DEF Matches, FindHit, structVars, registryVars, localVars
<1>4. CASE Alloc(t)
  BY <1>4, <1>0 DEF Alloc, structVars, registryVars, localVars
<1>5. CASE ~Dies(t) /\ SweepStart(t)
  <2>1. ptr[t] \in Members
    BY <1>5 DEF SweepStart, Dies, Accessed, ForeignCookie
  <2>2. /\ pc'[t] \in {"name", "sweep"} /\ ptr' = ptr /\ cur'[t] = root
        /\ Members' = Members /\ (pc'[t] = "sweep" => root # NULL)
        /\ mem' = mem /\ pc[t] = "sweepStart"
    BY <1>5 DEF SweepStart, structVars
  <2>3. ptr'[t] \in Members' /\ (pc'[t] = "sweep" => cur'[t] \in Members')
    BY <1>0, <2>1, <2>2
  <2>4. ptr'[t] \in Slots /\ mem'[ptr'[t]] = "live"
    BY <2>1, <2>2
  <2> QED BY <2>2, <2>3, <2>4
<1>6. CASE SweepSkip(t)
  BY <1>6, <1>0 DEF SweepSkip, structVars, registryVars, localVars
<1>7. CASE Dispatch(t)
  BY <1>7, <1>0 DEF SessionIsDead, Dispatch, structVars, registryVars,
     localVars
<1>8. CASE EndParse(t)
  BY <1>8, <1>0 DEF EndParse, structVars, registryVars, localVars
<1>9. CASE SmallDone(t)
  BY <1>9, <1>0 DEF Free, SmallDone, structVars, registryVars, localVars
<1>10. CASE FreeInit(t)
  BY <1>10, <1>0 DEF Free, FreeInit, BodyOrRelease, structVars, registryVars, localVars
<1>11. CASE DestroyEnter(t)
  BY <1>11, <1>0 DEF DestroyEnter, structVars, registryVars, localVars
<1>12. CASE TearDown(t)
  BY <1>12, <1>0 DEF TearDown, structVars, registryVars, localVars
<1>13. CASE MarkKilled(t)
  BY <1>13, <1>0 DEF MarkKilled, structVars, registryVars, localVars
<1>14. CASE DestroyLeave(t)
  BY <1>14, <1>0 DEF DestroyLeave, structVars, registryVars, localVars
<1>15. CASE SetRoot(t) \/ SetLeaf(t) \/ AddPrev(t) \/ AddNext(t)
  BY <1>15, <1>0 DEF SetRoot, SetLeaf, AddPrev, AddNext, structVars,
     registryVars, localVars
<1>16. CASE SweepKill(t) \/ NameMutex(t) \/ Timing(t) \/ WaitMutex(t) \/ CheckKilled(t)
  BY <1>16, <1>0 DEF Expired, SweepKill, NameMutex, Timing, WaitMutex, CheckKilled,
     structVars, registryVars, localVars
<1>17. CASE
  RefreshBlock(t) \/ RefreshDone(t) \/ DispatchDone(t) \/ InitCheck(t)
  BY <1>17, <1>0 DEF RefreshBlock, RefreshDone, DispatchDone, NeverReady, BodyOrRelease,
     InitCheck, BodyOrRelease, structVars, registryVars, localVars
<1>18. CASE FreeBody(t) \/ Release(t) \/ Unlink1(t) \/ Unlink2(t)
  BY <1>18, <1>0 DEF FreeBody, NoRequest, Release, Unlink1, Unlink2,
     structVars, registryVars, localVars
<1> QED BY <1>1, <1>2, <1>3, <1>4, <1>5, <1>6, <1>7, <1>8, <1>9, <1>10, <1>11,
   <1>12, <1>13, <1>14, <1>15, <1>16, <1>17, <1>18 DEF Step

(* What the list reaches while a removal or an insertion is under way.     *)
LEMMA WalkNowStep ==
  ASSUME NEW t \in Threads, TypeOK, LocalsSet, ListAhead(t), WritesLand(t),
         WalkNow(t), PointersGood(t),
         Step(t) \/ Accept(t)
  PROVE  WalkNow(t)'
<1> USE ConstantsAssumption DEF WalkNow, Goto, TypeOK, DestroyLabels
<1>0. ASSUME nxt' = nxt, root' = root, mem' = mem, readyState' = readyState
      PROVE  Registered' = Registered /\ Members' = Members
  BY <1>0 DEF Registered, Members
<1>1. CASE Alloc(t)
  <2>1. PICK x \in Slots : /\ Members' \ {x} = Members /\ ptr'[t] = x
                          /\ IsList(Members, nxt', prv', root', leaf')
    BY <1>1, AllocList
  <2>2. Registered' = Members
    BY <2>1 DEF IsList, Registered
  <2> QED BY <1>1, <2>1, <2>2 DEF Alloc
<1>2. CASE AddPrev(t)
  BY <1>2, <1>0 DEF AddPrev, registryVars, localVars
<1>3. CASE DestroyEnter(t)
  <2>1. Registered = Members
    BY <1>3, ListAtRest DEF DestroyEnter, ListNow, IsList, Registered, Adding,
       Body
  <2>2. Registered' = Registered
    BY <1>3 DEF DestroyEnter, registryVars, Registered
  <2>3. Members' = Members
    BY <1>3 DEF DestroyEnter, PointersGood, Members
  <2> QED BY <1>3, <2>1, <2>2, <2>3 DEF DestroyEnter
<1>4. CASE Unlink1(t)
  <2>1. Role(cur[t]) \in {"middle", "root", "leaf", "only"}
    BY DEF Role
  <2>2. CASE Role(cur[t]) \in {"root", "only"}
    <3>1. nxt' = nxt /\ root' = root /\ mem' = mem /\ readyState' = readyState
          /\ cur' = cur
      BY <1>4, <2>2 DEF Unlink1, registryVars
    <3>2. Registered' = Members /\ Members' = Members
      BY <1>4, <1>0, <3>1 DEF Unlink1
    <3>3. Role(cur[t]) = "only" => Members = {cur[t]}
      <4>1. SUFFICES ASSUME Role(cur[t]) = "only"
                     PROVE  Members = {cur[t]}
        OBVIOUS
      <4>2. RootAhead(t) = NULL
        BY <1>4, <4>1 DEF Unlink1, RootAhead, RoleAhead, Body
      <4>3. Members \ Leaving(t) = {}
        BY <4>2, WalkNull DEF ListAhead, IsList
      <4>4. Leaving(t) = {cur[t]} /\ cur[t] \in Members
        BY <1>4 DEF Unlink1, Leaving, Body, PointersGood, Members
      <4> QED BY <4>3, <4>4
    <3> QED BY <1>4, <2>2, <3>1, <3>2, <3>3 DEF Unlink1
  <2>3. CASE Role(cur[t]) \in {"middle", "leaf"}
    BY <1>4, <2>3 DEF Unlink1
  <2> QED BY <2>1, <2>2, <2>3
<1>5. CASE Unlink2(t)
  BY <1>5 DEF Unlink2, WritesLand, localVars
<1>6. CASE TearDown(t)
  <2>1. nxt' = nxt /\ root' = root
    BY <1>6 DEF TearDown, registryVars
  <2>2. Registered' = Registered
    BY <2>1 DEF Registered
  <2> QED BY <1>6, <2>2 DEF TearDown, localVars
<1>7. CASE MarkKilled(t)
  <2>1. nxt' = nxt /\ root' = root
    BY <1>7 DEF MarkKilled, registryVars
  <2>2. Registered' = Registered
    BY <2>1 DEF Registered
  <2> QED BY <1>7, <2>2 DEF MarkKilled, localVars
<1>8. CASE Accept(t) \/ FindMiss(t) \/ FindHit(t) \/ SetRoot(t) \/ SetLeaf(t)
  BY <1>8 DEF FreshIds, Accept, Matches, FindMiss, FindHit, SetRoot, SetLeaf,
     LocalsSet
<1>9. CASE
  AddNext(t) \/ SweepStart(t) \/ SweepSkip(t) \/ SweepKill(t) \/ NameMutex(t) \/ Timing(t)
  BY <1>9 DEF AddNext, SweepStart, SweepSkip, Expired, SweepKill, NameMutex, Timing,
     LocalsSet
<1>10. CASE
  WaitMutex(t) \/ CheckKilled(t) \/ Dispatch(t) \/ EndParse(t) \/ RefreshBlock(t)
  BY <1>10 DEF WaitMutex, CheckKilled, SessionIsDead, Dispatch, EndParse,
     RefreshBlock, LocalsSet
<1>11. CASE
  RefreshDone(t) \/ SmallDone(t) \/ DispatchDone(t) \/ InitCheck(t) \/ FreeInit(t)
  BY <1>11 DEF RefreshDone, Free, SmallDone, DispatchDone, NeverReady, BodyOrRelease,
     InitCheck, FreeInit, LocalsSet
<1>12. CASE FreeBody(t) \/ Release(t)
  BY <1>12 DEF FreeBody, NoRequest, Release, LocalsSet
<1>13. CASE DestroyLeave(t)
  BY <1>13 DEF DestroyLeave, LocalsSet
<1> QED BY <1>1, <1>2, <1>3, <1>4, <1>5, <1>6, <1>7, <1>8, <1>9, <1>10, <1>11,
   <1>12, <1>13 DEF Step

(* A request keeps the session of its user.                                *)
LEMMA OwnSessionStep ==
  ASSUME NEW t \in Threads, TypeOK, LocalsSet, IdsOwned(t), NotPassed(t),
         PointersGood(t),
         OwnSession(t), Step(t) \/ Accept(t)
  PROVE  OwnSession(t)'
<1> USE ConstantsAssumption DEF OwnSession, Members, Goto, TypeOK, LocalsSet,
   DestroyLabels
<1>1. CASE FindHit(t)
  BY <1>1 DEF FindHit, Matches, IdsOwned, OneSessionPerUser, PointersGood,
     structVars
<1>2. CASE Alloc(t)
  BY <1>2 DEF Alloc, NotPassed
<1>3. CASE Dispatch(t)
  BY <1>3 DEF Dispatch, PointersGood
<1>4. CASE EndParse(t)
  BY <1>4 DEF EndParse, PointersGood, localVars
<1>5. CASE SmallDone(t)
  BY <1>5 DEF Free, SmallDone, structVars, localVars
<1>6. CASE FreeInit(t)
  BY <1>6 DEF Free, FreeInit, BodyOrRelease, structVars, localVars
<1>7. CASE DestroyEnter(t)
  BY <1>7 DEF DestroyEnter, PointersGood, localVars
<1>8. CASE TearDown(t)
  BY <1>8 DEF TearDown, structVars, localVars
<1>9. CASE MarkKilled(t)
  BY <1>9 DEF MarkKilled, structVars, localVars
<1>10. CASE Accept(t) \/ FindMiss(t) \/ SetRoot(t) \/ SetLeaf(t) \/ AddPrev(t)
  BY <1>10 DEF FreshIds, Accept, Matches, FindMiss, SetRoot, SetLeaf, AddPrev,
     structVars, localVars
<1>11. CASE
  AddNext(t) \/ SweepStart(t) \/ SweepSkip(t) \/ SweepKill(t) \/ NameMutex(t) \/ Timing(t)
  BY <1>11 DEF AddNext, SweepStart, SweepSkip, Expired, SweepKill, NameMutex, Timing,
     structVars, localVars
<1>12. CASE
  WaitMutex(t) \/ CheckKilled(t) \/ RefreshBlock(t) \/ RefreshDone(t)
  \/ DispatchDone(t)
  BY <1>12 DEF WaitMutex, CheckKilled, RefreshBlock, RefreshDone, DispatchDone,
     structVars, localVars
<1>13. CASE
  InitCheck(t) \/ FreeBody(t) \/ Release(t) \/ Unlink1(t) \/ Unlink2(t)
  BY <1>13 DEF NeverReady, BodyOrRelease, InitCheck, FreeBody, NoRequest, Release, Unlink1,
     Unlink2, structVars, localVars
<1>14. CASE DestroyLeave(t)
  BY <1>14 DEF DestroyLeave, structVars, localVars
<1> QED BY <1>1, <1>2, <1>3, <1>4, <1>5, <1>6, <1>7, <1>8, <1>9, <1>10, <1>11,
   <1>12, <1>13, <1>14 DEF Step

(* A freed struct is used after a kill only, and an upload body outlives   *)
(* its session only if that never got ready.                               *)
LEMMA FreedUnderStep ==
  ASSUME NEW t \in Threads, TypeOK, LocalsSet, CalledOnOwn, PointersGood(t),
         FreedUnder(t), Step(t) \/ Accept(t)
  PROVE  FreedUnder(t)'
<1> USE ConstantsAssumption DEF FreedUnder, PointersGood, Members, Goto, TypeOK,
   LocalsSet, CalledOnOwn, DestroyLabels, Body, Adding
<1>1. CASE Accept(t)
  BY <1>1 DEF Accept, localVars
<1>2. CASE Release(t)
  BY <1>2 DEF NoRequest, Release, localVars
<1>3. CASE FindMiss(t) \/ FindHit(t) \/ SetRoot(t) \/ SetLeaf(t)
           \/ AddPrev(t) \/ AddNext(t)
  BY <1>3 DEF FindMiss, FindHit, SetRoot, SetLeaf, AddPrev, AddNext,
     structVars, localVars
<1>4. CASE Alloc(t)
  BY <1>4 DEF Alloc, localVars
<1>5. CASE SweepStart(t) \/ SweepSkip(t) \/ SweepKill(t) \/ NameMutex(t)
           \/ WaitMutex(t) \/ CheckKilled(t)
  BY <1>5 DEF SweepStart, SweepSkip, SweepKill, NameMutex, WaitMutex,
     CheckKilled, structVars, localVars
<1>6. CASE Dispatch(t)
  BY <1>6 DEF SessionIsDead, Dispatch
<1>7. CASE EndParse(t)
  BY <1>7 DEF EndParse, localVars
<1>8. CASE Timing(t) \/ RefreshBlock(t) \/ RefreshDone(t)
  BY <1>8 DEF Timing, RefreshBlock, RefreshDone, structVars, localVars
<1>9. CASE SmallDone(t)
  BY <1>9 DEF Free, SmallDone, localVars
<1>10. CASE DispatchDone(t)
  BY <1>10 DEF DispatchDone, localVars
<1>11. CASE InitCheck(t)
  BY <1>11 DEF NeverReady, InitCheck, BodyOrRelease, structVars
<1>12. CASE FreeInit(t)
  BY <1>12 DEF Free, FreeInit, BodyOrRelease, localVars
<1>13. CASE FreeBody(t)
  BY <1>13 DEF FreeBody, structVars, localVars
<1>14. CASE DestroyEnter(t)
  BY <1>14 DEF DestroyEnter, localVars
<1>15. CASE Unlink1(t) \/ Unlink2(t) \/ TearDown(t)
  BY <1>15 DEF Unlink1, Unlink2, TearDown, localVars
<1>16. CASE MarkKilled(t)
  BY <1>16 DEF MarkKilled, localVars
<1>17. CASE DestroyLeave(t)
  BY <1>17 DEF DestroyLeave, structVars
<1> QED BY <1>1, <1>2, <1>3, <1>4, <1>5, <1>6, <1>7, <1>8, <1>9, <1>10, <1>11,
   <1>12, <1>13, <1>14, <1>15, <1>16, <1>17 DEF Step

(* With its pointers good, a thread dies of the three known requests only. *)
LEMMA KnownDeath ==
  ASSUME NEW t \in Threads, TypeOK, LocalsSet, WritesLand(t), IdsOwned(t),
         PointersGood(t), FreedUnder(t), Dies(t) \/ MayDie(t)
  PROVE  ForeignCookie(t) \/ UsedAfterKill(t) \/ FirstUpload(t)
<1> SUFFICES ASSUME ~ForeignCookie(t), ~UsedAfterKill(t), ~FirstUpload(t)
             PROVE  FALSE
  OBVIOUS
<1> USE ConstantsAssumption DEF TypeOK, LocalsSet, DestroyLabels, Body, Members,
   Adding, DispatchLabels, FindLabels
<1>1. \A s \in Members : heap[s] /\ s # NULL /\ mem[s] = "live"
  BY DEF IdsOwned
<1>2. pc[t] \in {"find", "sweep", "enter", "unlink1", "unlink2", "tear", "killed"}
        => cur[t] \in Members
  BY DEF PointersGood
<1>3. pc[t] \in {"addPrev", "addNext", "sweepStart", "dispatch", "parse", "timing",
                "refresh", "leave"} => ptr[t] \in Members
  BY DEF PointersGood, ForeignCookie
<1>4. pc[t] \in {"name", "check", "small", "freeInit"}
        => ptr[t] # NULL /\ mem[ptr[t]] = "live"
  BY DEF PointersGood
<1>5. ASSUME pc[t] \in {"after", "initCheck"}
      PROVE  /\ ptr[t] \in Slots /\ mem[ptr[t]] = "live"
             /\ readyState[ptr[t]] = "KILLED" \/ ptr[t] \in Members
  <2>1. ptr[t] \in Members \/ (ptr[t] \in Slots /\ readyState[ptr[t]] = "KILLED")
    BY <1>5 DEF PointersGood
  <2>2. mem[ptr[t]] # "free"
    BY <1>5 DEF FreedUnder, UsedAfterKill
  <2> QED BY <2>1, <2>2
<1>6. pc[t] = "body" => ptr[t] \in Members
  BY DEF FreedUnder, FirstUpload
<1>7. Neighbours(t) \subseteq Members
  BY DEF WritesLand, Neighbours, Role
<1>8. /\ NULL \notin Accessed(t)
      /\ \A s \in Accessed(t) : mem[s] # "free"
  <2>1. \A s \in Accessed(t) \ Neighbours(t) : s \in Slots /\ mem[s] = "live"
    BY <1>1, <1>2, <1>3, <1>4, <1>5 DEF Accessed
  <2> QED BY <1>1, <1>7, <2>1
<1> QED
  BY <1>1, <1>2, <1>3, <1>4, <1>5, <1>6, <1>8 DEF Dies, MayDie, EntersCS, IdsOwned

(* Every step keeps the plan for the list.                                 *)
LEMMA ListStep ==
  ASSUME NEW t \in Threads, TypeOK, LocalsSet, ListAhead(t), WritesLand(t),
         PointersGood(t), Step(t) \/ Accept(t)
  PROVE  ListAhead(t)'
BY ListStepRest, ListStepAlloc, ListStepAdd, ListStepEnter, ListStepUnlink,
   ListStepEnd DEF Step

(* The invariant holds when the server starts ...                          *)
LEMMA InitSequential == Init => SequentialInv
<1> SUFFICES ASSUME Init, NEW t \in Threads
             PROVE  /\ ListAhead(t) /\ WritesLand(t) /\ IdsOwned(t)
                    /\ NotPassed(t) /\ PointersGood(t) /\ FreedUnder(t)
                    /\ WalkNow(t) /\ OwnSession(t)
  BY DEF SequentialInv
<1>1. pc[t] = "idle" /\ Members = {}
  BY DEF Init, Members
<1>2. ListAhead(t)
  <2>1. Walk(NULL, nxt) = {}
    BY WalkNull
  <2>2. ListNow
    BY <1>1, <2>1 DEF Init, ListNow, IsList
  <2> QED BY <1>1, <2>2, ListAtRest DEF Adding, Body, DestroyLabels
<1>3. WritesLand(t) /\ NotPassed(t) /\ PointersGood(t) /\ WalkNow(t)
      /\ OwnSession(t)
  BY <1>1 DEF WritesLand, NotPassed, PointersGood, WalkNow, OwnSession, Body,
     DestroyLabels, Adding
<1>4. IdsOwned(t)
  BY <1>1 DEF Init, IdsOwned, OneSessionPerUser
<1>5. FreedUnder(t)
  BY DEF Init, FreedUnder, NoRequest
<1> QED BY <1>2, <1>3, <1>4, <1>5

(* It does not depend on idle times and locks ...                          *)
LEMMA SameSequential ==
  ASSUME NEW t \in Threads,
         mem' = mem, sid' = sid, readyState' = readyState, nxt' = nxt,
         prv' = prv, heap' = heap,
         root' = root, leaf' = leaf, pc' = pc, UNCHANGED localVars
  PROVE  /\ ListAhead(t)' <=> ListAhead(t)
         /\ WritesLand(t)' <=> WritesLand(t)
         /\ IdsOwned(t)' <=> IdsOwned(t)
         /\ NotPassed(t)' <=> NotPassed(t)
         /\ PointersGood(t)' <=> PointersGood(t)
         /\ FreedUnder(t)' <=> FreedUnder(t)
         /\ WalkNow(t)' <=> WalkNow(t)
         /\ OwnSession(t)' <=> OwnSession(t)
<1> USE DEF localVars
<1>1. Members' = Members /\ Leaving(t)' = Leaving(t) /\ Registered' = Registered
  BY DEF Members, Leaving, Registered
<1>2. \A s : Role(s)' = Role(s)
  BY DEF Role
<1>3. /\ NxtAhead(t)' = NxtAhead(t) /\ PrvAhead(t)' = PrvAhead(t)
      /\ RootAhead(t)' = RootAhead(t) /\ LeafAhead(t)' = LeafAhead(t)
  BY DEF NxtAhead, PrvAhead, RootAhead, LeafAhead, RoleAhead, Role
<1>4. ListAhead(t)' <=> ListAhead(t)
  BY <1>1, <1>3 DEF ListAhead
<1>5. WritesLand(t)' <=> WritesLand(t)
  BY <1>1 DEF WritesLand, Role
<1>6. /\ IdsOwned(t)' <=> IdsOwned(t)
      /\ NotPassed(t)' <=> NotPassed(t)
  BY <1>1 DEF IdsOwned, OneSessionPerUser, NotPassed
<1>7. /\ PointersGood(t)' <=> PointersGood(t)
      /\ FreedUnder(t)' <=> FreedUnder(t)
  BY <1>1 DEF PointersGood, FreedUnder, ForeignCookie
<1>8. /\ WalkNow(t)' <=> WalkNow(t)
      /\ OwnSession(t)' <=> OwnSession(t)
  BY <1>1 DEF WalkNow, OwnSession
<1> QED BY <1>4, <1>5, <1>6, <1>7, <1>8

(* ... and every step keeps it.                                            *)
LEMMA SequentialStep ==
  ASSUME Threads = {TheThread}, LifeInv, SequentialInv,
         [Next]_vars
  PROVE  SequentialInv' /\ (OnlyKnownDeaths => OnlyKnownDeaths')
<1> DEFINE t == TheThread
<1>0. /\ t \in Threads /\ \A u \in Threads : u = t
      /\ TypeOK /\ LocalsSet /\ CalledOnOwn
      /\ ListAhead(t) /\ WritesLand(t) /\ IdsOwned(t)
      /\ NotPassed(t) /\ PointersGood(t) /\ FreedUnder(t) /\ WalkNow(t)
         /\ OwnSession(t)
  BY DEF SequentialInv, LifeInv, IInv
<1> HIDE DEF t
<1>1. CASE ~crashed /\ (Accept(t) \/ (~Dies(t) /\ Step(t)))
  <2>1. Step(t) \/ Accept(t)
    BY <1>1
  <2>2. ListAhead(t)' /\ PointersGood(t)' /\ IdsOwned(t)'
    BY <1>0, <1>1, <2>1, ListStep, PointersGoodStep, IdsStep
  <2>3. NotPassed(t)' /\ WalkNow(t)' /\ OwnSession(t)' /\ FreedUnder(t)'
    BY <1>0, <2>1, NotPassedStep, WalkNowStep, OwnSessionStep, FreedUnderStep
  <2>4. WritesLand(t)'
    BY <1>0, <2>1, WritesStep
  <2>5. crashed' = crashed
    BY <2>1 DEF Step, Accept, FindMiss, FindHit, Alloc, SetRoot, SetLeaf,
       AddPrev, AddNext, SweepStart, SweepSkip, SweepKill, NameMutex, Timing,
       WaitMutex, CheckKilled, Dispatch, EndParse, RefreshBlock, RefreshDone,
       SmallDone, DispatchDone, InitCheck, FreeInit, FreeBody, Release,
       DestroyEnter, Unlink1, Unlink2, TearDown, MarkKilled, DestroyLeave
  <2>6. OnlyKnownDeaths'
    BY <1>1, <2>5 DEF OnlyKnownDeaths
  <2> QED BY <1>0, <2>2, <2>3, <2>4, <2>6 DEF SequentialInv
<1>2. ASSUME NEW s \in Slots, TimePasses(s), ~crashed
      PROVE  SequentialInv' /\ OnlyKnownDeaths'
  <2>1. /\ mem' = mem /\ sid' = sid /\ readyState' = readyState /\ nxt' = nxt
           /\ prv' = prv /\ heap' = heap
        /\ root' = root /\ leaf' = leaf /\ pc' = pc /\ UNCHANGED localVars
           /\ crashed' = crashed
    BY <1>2 DEF TimePasses, registryVars
  <2> QED BY <1>0, <1>2, <2>1, SameSequential DEF SequentialInv, OnlyKnownDeaths
<1>3. CASE UNCHANGED vars
  <2>1. /\ mem' = mem /\ sid' = sid /\ readyState' = readyState /\ nxt' = nxt
           /\ prv' = prv /\ heap' = heap
        /\ root' = root /\ leaf' = leaf /\ pc' = pc /\ UNCHANGED localVars
           /\ crashed' = crashed
    BY <1>3 DEF vars, structVars, registryVars
  <2>2. OnlyKnownDeaths => OnlyKnownDeaths'
    BY <2>1 DEF OnlyKnownDeaths, ForeignCookie, UsedAfterKill, FirstUpload, localVars
  <2> QED BY <1>0, <2>1, <2>2, SameSequential DEF SequentialInv
<1>4. CASE Crash(t)
  <2>1. /\ mem' = mem /\ sid' = sid /\ readyState' = readyState /\ nxt' = nxt
           /\ prv' = prv /\ heap' = heap
        /\ root' = root /\ leaf' = leaf /\ pc' = pc /\ UNCHANGED localVars
    BY <1>4 DEF Crash, structVars, registryVars
  <2>2. ForeignCookie(t) \/ UsedAfterKill(t) \/ FirstUpload(t)
    BY <1>0, <1>4, KnownDeath DEF Crash
  <2>3. (ForeignCookie(t) \/ UsedAfterKill(t) \/ FirstUpload(t))'
    BY <2>1, <2>2 DEF ForeignCookie, UsedAfterKill, FirstUpload, localVars
  <2> QED BY <1>0, <2>1, <2>3, SameSequential DEF SequentialInv, OnlyKnownDeaths
<1> QED BY <1>0, <1>1, <1>2, <1>3, <1>4 DEF Next, ThreadStep, Finished

-----------------------------------------------------------------------------
(* The refinement.                                                         *)
LEMMA OpenKept ==
  ASSUME nxt' = nxt, root' = root, sid' = sid
  PROVE  OpenIds' = OpenIds
BY DEF OpenIds, Registered

(* ... grow with a struct that is linked ...                               *)
LEMMA OpenAdds ==
  ASSUME NEW x \in Slots, Registered' = Registered \cup {x}, sid' = sid,
         sid[x] # NULL
  PROVE  OpenIds' = OpenIds \cup {sid[x]}
BY DEF OpenIds

(* ... and shrink with one that is unlinked.                               *)
LEMMA OpenDrops ==
  ASSUME NEW x \in Registered, Registered' = Registered \ {x}, sid' = sid,
         sid[x] # NULL,
         \A s \in Registered : sid[s] = sid[x] => s = x
  PROVE  sid[x] \in OpenIds /\ OpenIds' = OpenIds \ {sid[x]}
BY DEF OpenIds

(* With no write to next or root left, the list reaches who stays ...      *)
LEMMA RegisteredAtRest ==
  ASSUME NEW t \in Threads, ListAhead(t), RootAhead(t) = root, NxtAhead(t) = nxt
  PROVE  Registered = Members \ Leaving(t)
BY DEF ListAhead, IsList, Registered

(* ... also after a step.                                                  *)
LEMMA RegisteredAtRestNext ==
  ASSUME NEW t \in Threads, ListAhead(t)',
         (RootAhead(t) = root /\ NxtAhead(t) = nxt)'
  PROVE  Registered' = (Members \ Leaving(t))'
BY DEF ListAhead, IsList, Registered

(* Two sessions never share an id.                                         *)
LEMMA UniqueIds ==
  ASSUME NEW t \in Threads, IdsOwned(t), NEW x \in Members, sid[x] # NULL
  PROVE  \A s \in Members : sid[s] = sid[x] => s = x
BY DEF IdsOwned, OneSessionPerUser, Members

SInv(t) ==
  /\ TypeOK /\ LocalsSet /\ CalledOnOwn
  /\ ListAhead(t) /\ WritesLand(t) /\ IdsOwned(t) /\ NotPassed(t)
     /\ PointersGood(t)
  /\ WalkNow(t) /\ OwnSession(t)

(* What a request is in, as its client sees it.                            *)
Working(t) == pc[t] \in DispatchLabels
              \/ (pc[t] \in DestroyLabels /\ ret[t] = "small")

Ending(t) ==
  \/ pc[t] \in {"initCheck", "freeInit", "body", "release"}
  \/ pc[t] \in DestroyLabels /\ ret[t] = "freeInit"

(* The phase of a request, by position and caller ...                      *)
LEMMA PhaseIs ==
  ASSUME NEW t \in Threads
  PROVE  PhaseOf(t) = IF pc[t] = "idle" THEN "free"
                      ELSE IF Working(t) THEN "working"
                      ELSE IF Ending(t) THEN "done" ELSE "arrived"
BY DEF PhaseOf, Working, Ending, DispatchLabels, DestroyLabels

(* ... and after a step.                                                   *)
LEMMA PhaseIsNext ==
  ASSUME NEW t \in Threads
  PROVE  PhaseOf(t)' = IF pc'[t] = "idle" THEN "free"
                       ELSE IF Working(t)' THEN "working"
                       ELSE IF Ending(t)' THEN "done" ELSE "arrived"
BY DEF PhaseOf, Working, Ending, DispatchLabels, DestroyLabels

(* Until its work starts a request has only arrived.                       *)
LEMMA ArrivedSteps ==
  ASSUME NEW t \in Threads, TypeOK,
         \/ FindMiss(t) \/ FindHit(t) \/ Alloc(t) \/ SetRoot(t) \/ SetLeaf(t)
            \/ AddPrev(t)
         \/ AddNext(t) \/ SweepStart(t) \/ SweepSkip(t) \/ SweepKill(t)
            \/ NameMutex(t) \/ WaitMutex(t)
  PROVE  PhaseOf(t) = "arrived" /\ PhaseOf(t)' = "arrived"
<1>1. FindMiss(t) => pc[t] = "find" /\ pc'[t] \in {"find", "alloc"}
  BY DEF Matches, FindMiss, Goto, TypeOK
<1>2. FindHit(t) => pc[t] = "find" /\ pc'[t] = "sweepStart"
  BY DEF Matches, FindHit, Goto, TypeOK
<1>3. Alloc(t) => pc[t] = "alloc" /\ pc'[t] \in {"setRoot", "addPrev"}
  BY DEF Alloc, Goto, TypeOK
<1>4. SetRoot(t) => pc[t] = "setRoot" /\ pc'[t] \in {"setLeaf", "sweepStart"}
  BY DEF SetRoot, Goto, TypeOK
<1>5. SetLeaf(t) => pc[t] \in {"setLeaf", "addLeaf"} /\ pc'[t] = "sweepStart"
  BY DEF SetLeaf, Goto, TypeOK
<1>6. AddPrev(t) => pc[t] = "addPrev" /\ pc'[t] = "addNext"
  BY DEF AddPrev, Goto, TypeOK
<1>7. AddNext(t) => pc[t] = "addNext" /\ pc'[t] = "addLeaf"
  BY DEF AddNext, Goto, TypeOK
<1>8. SweepStart(t) => pc[t] = "sweepStart" /\ pc'[t] \in {"sweep", "name"}
  BY DEF SweepStart, Goto, TypeOK
<1>9. SweepSkip(t) => pc[t] = "sweep" /\ pc'[t] \in {"sweep", "name"}
  BY DEF SweepSkip, Goto, TypeOK
<1>10. SweepKill(t) => pc[t] = "sweep" /\ pc'[t] = "enter" /\ ret'[t] = "name"
  BY DEF Expired, SweepKill, Goto, TypeOK
<1>11. NameMutex(t) => pc[t] = "name" /\ pc'[t] = "wait"
  BY DEF NameMutex, Goto, TypeOK
<1>12. WaitMutex(t) => pc[t] = "wait" /\ pc'[t] = "check"
  BY DEF WaitMutex, Goto, TypeOK
<1> QED BY <1>1, <1>2, <1>3, <1>4, <1>5, <1>6, <1>7, <1>8, <1>9, <1>10, <1>11,
   <1>12, PhaseIs, PhaseIsNext DEF Working, Ending, DispatchLabels,
   DestroyLabels

(* The steps of the dispatcher are work.                                   *)
LEMMA WorkingSteps ==
  ASSUME NEW t \in Threads, TypeOK,
         Dispatch(t) \/ EndParse(t) \/ Timing(t) \/ RefreshBlock(t) \/ RefreshDone(t)
         \/ SmallDone(t)
  PROVE  PhaseOf(t) = "working" /\ PhaseOf(t)' = "working"
<1>1. Dispatch(t) => pc[t] = "dispatch"
      /\ (pc'[t] \in {"parse", "after", "refresh", "small"}
         \/ (pc'[t] = "enter" /\ ret'[t] = "small"))
  <2> SUFFICES ASSUME Dispatch(t)
               PROVE  /\ pc[t] = "dispatch"
                      /\ \/ pc'[t] \in {"parse", "after", "refresh", "small"}
                         \/ pc'[t] = "enter" /\ ret'[t] = "small"
    OBVIOUS
  <2> DEFINE kind  == req[t].kind
             kills == kind = "kill" /\ ~SessionIsDead(t)
             label == CASE kills            -> "enter"
                        [] kind = "page"    -> "parse"
                        [] kind = "upload"  -> "after"
                        [] kind \in {"refresh", "refreshNoConn"}
                           /\ ~SessionIsDead(t) -> "refresh"
                        [] OTHER            -> "small"
  <2>1. /\ pc[t] = "dispatch" /\ pc' = [pc EXCEPT ![t] = label]
        /\ ret' = IF kills THEN [ret EXCEPT ![t] = "small"] ELSE ret
    BY DEF Dispatch, Goto
  <2>2. CASE kills
    BY <2>1, <2>2 DEF TypeOK
  <2>3. CASE ~kills
    <3>1. label \in {"parse", "after", "refresh", "small"}
      BY <2>3
    <3> HIDE DEF label
    <3> QED BY <2>1, <3>1 DEF TypeOK
  <2> QED BY <2>2, <2>3
<1>2. EndParse(t) => pc[t] = "parse" /\ pc'[t] = "timing"
  BY DEF EndParse, Goto, TypeOK
<1>2a. Timing(t) => pc[t] = "timing" /\ pc'[t] = "small"
  BY DEF Timing, Goto, TypeOK
<1>3. RefreshBlock(t) => pc[t] = "refresh" /\ pc'[t] \in {"small", "leave"}
  BY DEF RefreshBlock, Goto, TypeOK
<1>4. RefreshDone(t) => pc[t] = "leave" /\ pc'[t] = "small"
  BY DEF RefreshDone, Goto, TypeOK
<1>5. SmallDone(t) => pc[t] = "small" /\ pc'[t] = "after"
  BY DEF Free, SmallDone, Goto, TypeOK
<1> QED BY <1>1, <1>2, <1>2a, <1>3, <1>4, <1>5, PhaseIs, PhaseIsNext DEF Working,
   Ending, DispatchLabels, DestroyLabels

(* What follows the work belongs to its end.                               *)
LEMMA EndingSteps ==
  ASSUME NEW t \in Threads, TypeOK, InitCheck(t) \/ FreeInit(t) \/ FreeBody(t)
  PROVE  PhaseOf(t) = "done" /\ PhaseOf(t)' = "done"
<1>1. InitCheck(t) => pc[t] = "initCheck"
      /\ (pc'[t] \in {"body", "release"} \/ (pc'[t] = "enter" /\ ret'[t] = "freeInit"))
  BY DEF NeverReady, InitCheck, BodyOrRelease, Goto, TypeOK
<1>2. FreeInit(t) => pc[t] = "freeInit" /\ pc'[t] \in {"body", "release"}
  BY DEF Free, FreeInit, BodyOrRelease, Goto, TypeOK
<1>3. FreeBody(t) => pc[t] = "body" /\ pc'[t] = "release"
  BY DEF FreeBody, Goto, TypeOK
<1> QED BY <1>1, <1>2, <1>3, PhaseIs, PhaseIsNext DEF Working, Ending,
   DispatchLabels, DestroyLabels

(* Inside destroySession the caller's phase stays.                         *)
LEMMA DestroySteps ==
  ASSUME NEW t \in Threads, TypeOK,
         DestroyEnter(t) \/ Unlink1(t) \/ Unlink2(t) \/ TearDown(t)
         \/ MarkKilled(t)
           \/ DestroyLeave(t)
  PROVE  /\ PhaseOf(t)' = PhaseOf(t) /\ pc[t] \in DestroyLabels
         /\ PhaseOf(t) = CASE ret[t] = "name"     -> "arrived"
                            [] ret[t] = "small"    -> "working"
                            [] ret[t] = "freeInit" -> "done"
<1>1. pc[t] \in DestroyLabels /\ ret[t] \in {"name", "small", "freeInit"}
  BY DEF DestroyEnter, Unlink1, Unlink2, TearDown, MarkKilled, DestroyLeave,
     DestroyLabels, TypeOK
<1>2. pc'[t] \in DestroyLabels => ret' = ret
  BY <1>1 DEF DestroyEnter, Unlink1, Unlink2, TearDown, MarkKilled, DestroyLeave,
     localVars, DestroyLabels, Goto, TypeOK
<1>3. pc'[t] \in DestroyLabels \/ pc'[t] = ret[t]
  BY DEF DestroyEnter, Unlink1, Unlink2, TearDown, MarkKilled, DestroyLeave,
     DestroyLabels, Goto, TypeOK
<1>4. PhaseOf(t) = CASE ret[t] = "name"     -> "arrived"
                     [] ret[t] = "small"    -> "working"
                     [] ret[t] = "freeInit" -> "done"
  BY <1>1, PhaseIs DEF Working, Ending, DispatchLabels, DestroyLabels
<1>5. CASE pc'[t] \in DestroyLabels
  BY <1>1, <1>2, <1>4, <1>5, PhaseIsNext DEF Working, Ending, DispatchLabels,
     DestroyLabels
<1>6. CASE pc'[t] = ret[t]
  BY <1>1, <1>2, <1>4, <1>6, PhaseIsNext DEF Working, Ending, DispatchLabels,
     DestroyLabels
<1> QED BY <1>1, <1>3, <1>4, <1>5, <1>6

(* The first and the last step of a request, and the end of its work.      *)
LEMMA RequestStep ==
  ASSUME NEW t \in Threads, t = TheThread, SInv(t), TypeOK',
         Accept(t) \/ DispatchDone(t) \/ Release(t)
  PROVE  Service!Next
<1> USE DEF SInv
<1>1. OpenIds' = OpenIds
  BY OpenKept DEF Accept, DispatchDone, Release, structVars, registryVars
<1>2. CASE Accept(t)
  <2>1. PhaseOf(t) = "free" /\ PhaseOf(t)' = "arrived"
    BY <1>2, PhaseIs, PhaseIsNext DEF Working, Ending, FreshIds, Accept,
       DispatchLabels, DestroyLabels, Goto, TypeOK
  <2>2. PICK i \in Ids \cup {NULL} : req'[t].id = i
    BY <1>2 DEF Accept, TypeOK
  <2>3. Service!Arrive(i)
    BY <1>1, <2>1, <2>2 DEF Service!Arrive
  <2> QED BY <2>3 DEF Service!Next
<1>3. CASE DispatchDone(t)
  <2>1. PhaseOf(t) = "working" /\ PhaseOf(t)' = "done"
    BY <1>3, PhaseIs, PhaseIsNext DEF Working, Ending, DispatchDone,
       DispatchLabels, DestroyLabels, Goto, TypeOK
  <2>2. req' = req
    BY <1>3 DEF DispatchDone, localVars
  <2>3. Service!EndWork
    BY <1>1, <2>1, <2>2 DEF Service!EndWork
  <2> QED BY <2>3 DEF Service!Next
<1>4. CASE Release(t)
  <2>1. PhaseOf(t) = "done" /\ PhaseOf(t)' = "free"
    BY <1>4, PhaseIs, PhaseIsNext DEF Working, Ending, Release, DispatchLabels,
       DestroyLabels, Goto, TypeOK
  <2>2. req'[t].id = NULL
    BY <1>4 DEF Release, NoRequest, TypeOK
  <2>3. Service!Leave
    BY <1>1, <2>1, <2>2 DEF Service!Leave
  <2> QED BY <2>3 DEF Service!Next
<1> QED BY <1>2, <1>3, <1>4

(* A request is worked on if its session outlived the sweep.               *)
LEMMA CheckStep ==
  ASSUME NEW t \in Threads, t = TheThread, SInv(t), TypeOK', CheckKilled(t)
  PROVE  Service!Next
<1> USE DEF SInv
<1>1. OpenIds' = OpenIds /\ req' = req
  BY OpenKept DEF CheckKilled, structVars, registryVars, localVars
<1>2. PhaseOf(t) = "arrived"
  BY PhaseIs DEF Working, Ending, CheckKilled, DispatchLabels, DestroyLabels
<1>3. Registered = Members
  BY ListAtRest DEF CheckKilled, ListNow, IsList, Registered, Adding, Body,
     DestroyLabels
<1>4. ptr[t] \in Slots /\ mem[ptr[t]] = "live" /\ pc[t] = "check"
  BY DEF CheckKilled, PointersGood
<1>5. CASE readyState[ptr[t]] # "KILLED"
  <2>1. ptr[t] \in Registered /\ sid[ptr[t]] # NULL
    BY <1>3, <1>4, <1>5 DEF Members, IdsOwned
  <2>2. sid[ptr[t]] = req[t].id
    BY <1>4, <2>1, ConstantsAssumption DEF OwnSession
  <2>3. req[t].id \in OpenIds
    BY <2>1, <2>2 DEF OpenIds
  <2>4. PhaseOf(t)' = "working"
    BY <1>5, PhaseIsNext DEF Working, Ending, CheckKilled, DispatchLabels,
       Goto, TypeOK
  <2>5. Service!StartWork
    BY <1>1, <1>2, <2>3, <2>4 DEF Service!StartWork
  <2> QED BY <2>5 DEF Service!Next
<1>6. CASE readyState[ptr[t]] = "KILLED"
  <2>1. \A s \in Registered : sid[s] # req[t].id
    BY <1>3, <1>4, <1>6, ConstantsAssumption DEF Members, OwnSession
  <2>2. req[t].id \notin OpenIds
    BY <2>1 DEF OpenIds
  <2>3. pc'[t] = "initCheck"
    BY <1>6 DEF CheckKilled, Goto, TypeOK
  <2>5. PhaseOf(t)' = "done"
    BY <2>3, PhaseIsNext DEF Working, Ending, DispatchLabels, DestroyLabels
  <2>4. Service!EndWork
    BY <1>1, <1>2, <2>2, <2>5 DEF Service!EndWork
  <2> QED BY <2>4 DEF Service!Next
<1> QED BY <1>5, <1>6

(* Steps that neither link, unlink nor tear down a session.                *)
LEMMA StutterStep ==
  ASSUME NEW t \in Threads, t = TheThread, SInv(t),
         \/ FindMiss(t) \/ FindHit(t) \/ SetLeaf(t) \/ AddPrev(t)
            \/ SweepStart(t) \/ SweepSkip(t)
         \/ SweepKill(t) \/ NameMutex(t) \/ Timing(t) \/ WaitMutex(t) \/ Dispatch(t)
            \/ EndParse(t)
         \/ RefreshBlock(t) \/ RefreshDone(t) \/ SmallDone(t) \/ InitCheck(t)
            \/ FreeInit(t)
         \/ FreeBody(t) \/ DestroyEnter(t) \/ MarkKilled(t)
  PROVE  UNCHANGED Service!vars
<1> USE DEF SInv
<1>1. OpenIds' = OpenIds
  BY OpenKept DEF FindMiss, FindHit, SetLeaf, AddPrev, SweepStart, SweepSkip,
     SweepKill, NameMutex, Timing, WaitMutex, Dispatch, EndParse, RefreshBlock,
     RefreshDone, SmallDone, InitCheck, FreeInit, FreeBody, DestroyEnter,
     MarkKilled, structVars, registryVars
<1>2. req' = req
  BY DEF FindMiss, FindHit, SetLeaf, AddPrev, SweepStart, SweepSkip, SweepKill,
     NameMutex, Timing, WaitMutex, Dispatch, EndParse, RefreshBlock, RefreshDone,
     SmallDone, InitCheck, FreeInit, FreeBody, DestroyEnter, MarkKilled,
     localVars
<1>3. PhaseOf(t)' = PhaseOf(t)
  BY ArrivedSteps, WorkingSteps, EndingSteps, DestroySteps
<1> QED BY <1>1, <1>2, <1>3 DEF Service!vars

(* A new struct is not in the list yet.                                    *)
LEMMA AllocStutter ==
  ASSUME NEW t \in Threads, t = TheThread, SInv(t), Alloc(t)
  PROVE  UNCHANGED Service!vars
<1> USE DEF SInv
<1>1. PICK x \in Slots : /\ x \notin Members
                        /\ IsList(Members, nxt', prv', root', leaf')
                        /\ ptr'[t] = x
  BY AllocList
<1>2. Registered = Members
  BY ListAtRest DEF Alloc, ListNow, IsList, Registered, Adding, Body,
     DestroyLabels
<1>3. Registered' = Members
  BY <1>1 DEF IsList, Registered
<1>4. \A s \in Members : sid'[s] = sid[s]
  BY <1>1 DEF Alloc, TypeOK, Members
<1>5. OpenIds' = OpenIds
  BY <1>2, <1>3, <1>4 DEF OpenIds
<1>6. req' = req
  BY DEF Alloc
<1> QED BY <1>5, <1>6, ArrivedSteps DEF Service!vars

(* The write that makes the list reach a new struct opens the session.     *)
LEMMA LinkStep ==
  ASSUME NEW t \in Threads, t = TheThread, SInv(t), ListAhead(t)', SetRoot(t)
         \/ AddNext(t)
  PROVE  Service!Next
<1> USE DEF SInv
<1>1. /\ pc[t] \in {"setRoot", "addNext"}
      /\ sid' = sid /\ req' = req /\ ptr' = ptr /\ Members' = Members
  BY DEF SetRoot, AddNext, structVars, localVars, Members
<1>2. Registered = Members \ {ptr[t]} /\ ptr[t] \in Members
  BY <1>1 DEF WalkNow, PointersGood, Adding
<1>3. Registered' = Members
  <2>1. CASE SetRoot(t)
    <3>1. pc'[t] = "setLeaf"
      BY <2>1 DEF SetRoot, WritesLand, Goto, TypeOK
    <3>2. (RootAhead(t) = root /\ NxtAhead(t) = nxt)'
      BY <3>1 DEF RootAhead, NxtAhead, Body, DestroyLabels
    <3>3. (Members \ Leaving(t))' = Members
      BY <1>1, <3>1 DEF Leaving, Body, DestroyLabels
    <3> QED BY <3>2, <3>3, RegisteredAtRestNext
  <2>2. CASE AddNext(t)
    <3>1. pc'[t] = "addLeaf"
      BY <2>2 DEF AddNext, Goto, TypeOK
    <3>2. (RootAhead(t) = root /\ NxtAhead(t) = nxt)'
      BY <3>1 DEF RootAhead, NxtAhead, Body, DestroyLabels
    <3>3. (Members \ Leaving(t))' = Members
      BY <1>1, <3>1 DEF Leaving, Body, DestroyLabels
    <3> QED BY <3>2, <3>3, RegisteredAtRestNext
  <2> QED BY <2>1, <2>2
<1>4. sid[ptr[t]] # NULL
  BY <1>1, <1>2 DEF IdsOwned
<1>5. sid[ptr[t]] = req[t].id /\ ptr[t] \in Slots /\ ptr[t] # NULL
  <2>1. ptr[t] \in Slots /\ ptr[t] # NULL
    BY <1>2, ConstantsAssumption DEF Members
  <2>2. OwnSession(t)
    OBVIOUS
  <2> QED BY ONLY <1>1, <1>4, <2>1, <2>2 DEF OwnSession
<1>6. req[t].id \in Ids \ OpenIds
  BY <1>1, <1>2, <1>4, <1>5 DEF OwnSession, OpenIds, TypeOK
<1>7. OpenIds' = OpenIds \cup {req[t].id}
  <2>1. ptr[t] \in Slots /\ Registered' = Registered \cup {ptr[t]}
    BY <1>2, <1>3 DEF Members
  <2> QED BY <1>1, <1>4, <1>5, <2>1, OpenAdds
<1>8. PhaseOf(t) = "arrived" /\ PhaseOf(t)' = "arrived"
  BY ArrivedSteps
<1>9. Service!Open
  BY <1>1, <1>6, <1>7, <1>8 DEF Service!Open
<1> QED BY <1>9 DEF Service!Next

(* The id of the struct that is being destroyed leaves the open ones.      *)
LEMMA GoneStep ==
  ASSUME NEW t \in Threads, t = TheThread, SInv(t),
         Unlink1(t) \/ Unlink2(t) \/ TearDown(t),
         sid[cur[t]] \in OpenIds, OpenIds' = OpenIds \ {sid[cur[t]]}
  PROVE  Service!Next
<1> USE DEF SInv
<1>1. req' = req
  BY DEF Unlink1, Unlink2, TearDown, localVars
<1>2. /\ PhaseOf(t)' = PhaseOf(t) /\ pc[t] \in DestroyLabels
         /\ ret[t] \in {"name", "small", "freeInit"}
      /\ PhaseOf(t) = CASE ret[t] = "name"     -> "arrived"
                         [] ret[t] = "small"    -> "working"
                         [] ret[t] = "freeInit" -> "done"
  BY DestroySteps DEF TypeOK
<1>3. sid[cur[t]] \in Ids
  BY DEF OpenIds, Registered, Walk, TypeOK
<1>4. CASE ret[t] = "name"
  <2>1. Service!Expire(sid[cur[t]])
    BY <1>1, <1>2, <1>4 DEF Service!Expire
  <2> QED BY <1>3, <2>1 DEF Service!Next
<1>5. CASE ret[t] # "name"
  <2>1. cur[t] = ptr[t]
    BY <1>2, <1>5 DEF CalledOnOwn
  <2>2. sid[ptr[t]] = req[t].id
    BY <1>2, <1>3, <2>1, ConstantsAssumption DEF OwnSession, LocalsSet, DestroyLabels
  <2>3. Service!Close
    BY <1>1, <1>2, <1>5, <2>1, <2>2 DEF Service!Close
  <2> QED BY <2>3 DEF Service!Next
<1> QED BY <1>4, <1>5

(* Exactly one write of a removal takes the struct out of the list, or     *)
(* clears its id if it is the only one.                                    *)
LEMMA UnlinkStep ==
  ASSUME NEW t \in Threads, t = TheThread, SInv(t), ListAhead(t)', WalkNow(t)',
         cur[t] \in Slots,
         Unlink1(t) \/ Unlink2(t) \/ TearDown(t) \/ DestroyLeave(t)
  PROVE  [Service!Next]_(Service!vars)
<1> USE DEF SInv
<1>1. /\ req' = req /\ PhaseOf(t)' = PhaseOf(t)
      /\ DestroyLeave(t) \/ cur' = cur
      /\ OpenIds' = OpenIds => UNCHANGED Service!vars
  BY DestroySteps DEF Unlink1, Unlink2, TearDown, DestroyLeave, localVars,
     Service!vars
<1>2. pc[t] \in {"unlink1", "unlink2", "tear"} =>
        cur[t] \in Members /\ sid[cur[t]] # NULL /\ Leaving(t) = {cur[t]}
          /\ \A s \in Members : sid[s] = sid[cur[t]] => s = cur[t]
  <2>1. SUFFICES ASSUME pc[t] \in {"unlink1", "unlink2", "tear"}
                 PROVE  /\ cur[t] \in Members /\ sid[cur[t]] # NULL
                           /\ Leaving(t) = {cur[t]}
                        /\ \A s \in Members : sid[s] = sid[cur[t]] => s = cur[t]
    OBVIOUS
  <2>2. cur[t] \in Members
    BY <2>1 DEF PointersGood, Body, DestroyLabels
  <2>3. sid[cur[t]] # NULL
    BY <2>1, <2>2 DEF IdsOwned
  <2>4. Leaving(t) = {cur[t]}
    BY <2>1 DEF Leaving, Body, DestroyLabels
  <2> QED BY <2>2, <2>3, <2>4, UniqueIds
<1>3. CASE Unlink1(t) /\ Role(cur[t]) \in {"root", "only"}
  BY <1>1, <1>3, OpenKept DEF Unlink1, registryVars
<1>4. CASE Unlink1(t) /\ Role(cur[t]) \in {"middle", "leaf"}
  <2>1. /\ pc[t] = "unlink1" /\ pc'[t] = "unlink2"
           /\ role'[t] \in {"middle", "leaf"} /\ cur' = cur
        /\ sid' = sid /\ mem' = mem /\ readyState' = readyState
    BY <1>4 DEF Unlink1, Goto, TypeOK
  <2>2. Registered = Members
    BY <2>1 DEF WalkNow
  <2>3. (RootAhead(t) = root /\ NxtAhead(t) = nxt)'
    BY <2>1 DEF RootAhead, NxtAhead, RoleAhead, Body, DestroyLabels
  <2>4. (Members \ Leaving(t))' = Members \ {cur[t]}
    BY <1>1, <2>1 DEF Leaving, Members, Body, DestroyLabels
  <2>5. Registered' = Registered \ {cur[t]}
    BY <2>2, <2>3, <2>4, RegisteredAtRestNext
  <2>6. sid[cur[t]] \in OpenIds /\ OpenIds' = OpenIds \ {sid[cur[t]]}
    BY <1>2, <2>1, <2>2, <2>5, OpenDrops
  <2> QED BY <1>4, <2>6, GoneStep
<1>5. CASE Unlink2(t) /\ role[t] = "root"
  <2>1. /\ pc[t] = "unlink2" /\ pc'[t] = "tear" /\ role'[t] = "root"
        /\ cur' = cur /\ sid' = sid /\ mem' = mem /\ readyState' = readyState
    BY <1>5 DEF Unlink2, Goto, TypeOK, localVars
  <2>2. Registered = Members
    BY <1>5, <2>1 DEF WalkNow
  <2>3. (RootAhead(t) = root /\ NxtAhead(t) = nxt)'
    BY <2>1 DEF RootAhead, NxtAhead, RoleAhead, Body, DestroyLabels
  <2>4. (Members \ Leaving(t))' = Members \ {cur[t]}
    BY <1>1, <2>1 DEF Leaving, Members, Body, DestroyLabels
  <2>5. Registered' = Registered \ {cur[t]}
    BY <2>2, <2>3, <2>4, RegisteredAtRestNext
  <2>6. sid[cur[t]] \in OpenIds /\ OpenIds' = OpenIds \ {sid[cur[t]]}
    BY <1>2, <2>1, <2>2, <2>5, OpenDrops
  <2> QED BY <1>5, <2>6, GoneStep
<1>6. CASE Unlink2(t) /\ role[t] # "root"
  BY <1>1, <1>6, OpenKept DEF Unlink2
<1>7. CASE TearDown(t) /\ role[t] = "only"
  <2>1. pc[t] = "tear" /\ Registered = {cur[t]}
    BY <1>7 DEF TearDown, WalkNow
  <2>2. Registered' = {cur[t]} /\ sid'[cur[t]] = NULL
    BY <1>7, <2>1 DEF TearDown, Registered, registryVars, TypeOK
  <2>3. OpenIds = {sid[cur[t]]} /\ OpenIds' = {}
    BY <1>2, <2>1, <2>2 DEF OpenIds
  <2> QED BY <1>7, <2>3, GoneStep
<1>8. CASE TearDown(t) /\ role[t] # "only"
  <2>1. /\ pc[t] = "tear" /\ Registered' = Registered
        /\ \A s \in Slots \ {cur[t]} : sid'[s] = sid[s]
    BY <1>8 DEF TearDown, Registered, registryVars, TypeOK
  <2>2. RootAhead(t) = root /\ NxtAhead(t) = nxt
    BY <1>8, <2>1 DEF RootAhead, NxtAhead, RoleAhead, Body, DestroyLabels
  <2>3. Registered = Members \ {cur[t]}
    BY <1>2, <2>1, <2>2, RegisteredAtRest
  <2>4. \A s \in Registered : sid'[s] = sid[s]
    BY <2>1, <2>3 DEF Members
  <2>5. OpenIds' = OpenIds
    BY <2>1, <2>4 DEF OpenIds
  <2> QED BY <1>1, <2>5
<1>9. CASE DestroyLeave(t) /\ role[t] = "only"
  <2>1. /\ Registered = {cur[t]} /\ sid[cur[t]] = NULL
    BY <1>9 DEF DestroyLeave, WalkNow, IdsOwned
  <2>2. Registered' = {}
    BY <1>9, WalkNull DEF DestroyLeave, Registered
  <2>3. OpenIds' = OpenIds
    BY <2>1, <2>2 DEF OpenIds
  <2> QED BY <1>1, <2>3
<1>10. CASE DestroyLeave(t) /\ role[t] # "only"
  BY <1>1, <1>10, OpenKept DEF DestroyLeave, structVars
<1>11. Role(cur[t]) \in {"middle", "root", "leaf", "only"}
  BY DEF Role
<1> QED BY <1>3, <1>4, <1>5, <1>6, <1>7, <1>8, <1>9, <1>10, <1>11

(* Every step of the only thread is a step of the service or none.         *)
LEMMA ServiceStep ==
  ASSUME Threads = {TheThread}, LifeInv, SequentialInv,
         [Next]_vars
  PROVE  [Service!Next]_(Service!vars)
<1> DEFINE t == TheThread
<1>0. /\ t \in Threads /\ \A u \in Threads : u = t
      /\ SInv(t) /\ FreedUnder(t) /\ TypeOK'
      /\ LifeInv' /\ SequentialInv'
  BY SequentialStep, NextLifeInv DEF SequentialInv, LifeInv, IInv, SInv
<1>1. ListAhead(t)' /\ WalkNow(t)'
  BY <1>0 DEF SequentialInv
<1> HIDE DEF t
<1>2. CASE Accept(t) \/ Step(t)
  <2>1. CASE \/ FindMiss(t) \/ FindHit(t) \/ SetLeaf(t) \/ AddPrev(t)
        \/ SweepStart(t) \/ SweepSkip(t)
             \/ SweepKill(t) \/ NameMutex(t) \/ Timing(t) \/ WaitMutex(t) \/ Dispatch(t)
                \/ EndParse(t)
             \/ RefreshBlock(t) \/ RefreshDone(t) \/ SmallDone(t)
                \/ InitCheck(t) \/ FreeInit(t)
             \/ FreeBody(t) \/ DestroyEnter(t) \/ MarkKilled(t)
    BY <1>0, <2>1, StutterStep DEF t
  <2>2. CASE Alloc(t)
    BY <1>0, <2>2, AllocStutter DEF t
  <2>3. CASE SetRoot(t) \/ AddNext(t)
    BY <1>0, <1>1, <2>3, LinkStep DEF t
  <2>4. CASE Accept(t) \/ DispatchDone(t) \/ Release(t)
    BY <1>0, <2>4, RequestStep DEF t
  <2>5. CASE CheckKilled(t)
    BY <1>0, <2>5, CheckStep DEF t
  <2>6. CASE Unlink1(t) \/ Unlink2(t) \/ TearDown(t) \/ DestroyLeave(t)
    <3>1. cur[t] \in Slots
      BY <1>0, <2>6 DEF SInv, Unlink1, Unlink2, TearDown, DestroyLeave,
         LocalsSet, TypeOK, DestroyLabels
    <3> QED BY <1>0, <1>1, <2>6, <3>1, UnlinkStep DEF t
  <2> QED BY <1>2, <2>1, <2>2, <2>3, <2>4, <2>5, <2>6 DEF Step
<1>3. ASSUME nxt' = nxt, root' = root, sid' = sid, req' = req, pc' = pc,
             ret' = ret
      PROVE  UNCHANGED Service!vars
  <2>1. PhaseOf(t)' = PhaseOf(t)
    BY <1>3 DEF PhaseOf
  <2> QED BY <1>3, <2>1, OpenKept DEF Service!vars, t
<1>4. ASSUME NEW s \in Slots, TimePasses(s)
      PROVE  UNCHANGED Service!vars
  BY <1>3, <1>4 DEF TimePasses, registryVars, localVars
<1>5. CASE UNCHANGED vars
  BY <1>3, <1>5 DEF vars, structVars, registryVars, localVars
<1>6. CASE Crash(t)
  BY <1>3, <1>6 DEF Crash, structVars, registryVars, localVars
<1> QED BY <1>0, <1>2, <1>4, <1>5, <1>6 DEF Next, ThreadStep, Finished

-----------------------------------------------------------------------------
(* The invariant of a server with one thread.                              *)
LEMMA SpecSequential ==
  ASSUME Threads = {TheThread}
  PROVE  Spec => [](LifeInv /\ SequentialInv /\ OnlyKnownDeaths)
<1>1. Init => LifeInv /\ SequentialInv /\ OnlyKnownDeaths
  BY InitSequential, InitLifeInv DEF Init, OnlyKnownDeaths
<1>2. (LifeInv /\ SequentialInv /\ OnlyKnownDeaths) /\ [Next]_vars
      => (LifeInv /\ SequentialInv /\ OnlyKnownDeaths)'
  BY SequentialStep, NextLifeInv
<1> QED BY <1>1, <1>2, PTL DEF Spec

(* Of one request at a time the process dies only if its Cookie header     *)
(* lacks the session cookie, if it killed its session, or if it is an      *)
(* upload whose session never got ready.                                   *)
THEOREM SequentialDeaths ==
  ASSUME Threads = {TheThread}
  PROVE  Spec => []OnlyKnownDeaths
BY SpecSequential, PTL

(* Between requests the list holds the sessions that are not killed, in    *)
(* both directions, and no user has two.                                   *)
THEOREM SequentialRegistry ==
  ASSUME Threads = {TheThread}
  PROVE  Spec => []RegistrySound
<1>1. LifeInv /\ SequentialInv => RegistrySound
  <2> SUFFICES ASSUME LifeInv, SequentialInv
               PROVE  RegistrySound
    OBVIOUS
  <2> DEFINE t == TheThread
  <2>1. t \in Threads /\ ListAhead(t) /\ IdsOwned(t) /\ TypeOK
    BY DEF SequentialInv, LifeInv, IInv
  <2> HIDE DEF t
  <2>2. OneSessionPerUser
    BY <2>1 DEF IdsOwned
  <2>3. ASSUME Quiet
        PROVE  IsList(Members, nxt, prv, root, leaf)
    BY <2>1, <2>3, ListAtRest DEF Quiet, ListNow, Adding, Body, DestroyLabels
  <2>4. RegistryHoldsLive
    BY <2>3 DEF RegistryHoldsLive, Registered, Members, IsList
  <2>5. RegistryLinked
    BY <2>3 DEF RegistryLinked, Registered, IsList
  <2> QED BY <2>2, <2>4, <2>5 DEF RegistrySound
<1> QED BY <1>1, SpecSequential, PTL

(* One request at a time implements SessionService.                        *)
THEOREM SequentialImplements ==
  ASSUME Threads = {TheThread}
  PROVE  Spec => ImplementsService
<1>1. Init => Service!Init
  <2> SUFFICES ASSUME Init PROVE Service!Init
    OBVIOUS
  <2>1. Registered = {}
    BY WalkNull DEF Init, Registered
  <2>2. OpenIds = {}
    BY <2>1 DEF OpenIds
  <2>3. pc[TheThread] = "idle" /\ req[TheThread].id = NULL
    BY DEF Init, NoRequest
  <2>4. PhaseOf(TheThread) = "free"
    BY <2>3, PhaseIs
  <2> QED BY <2>2, <2>3, <2>4 DEF Service!Init
<1>2. LifeInv /\ SequentialInv /\ [Next]_vars => [Service!Next]_(Service!vars)
  BY ServiceStep
<1> QED BY <1>1, <1>2, SpecSequential, PTL DEF Spec, ImplementsService,
   Service!Spec
=============================================================================
