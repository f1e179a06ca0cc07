----------------------- MODULE SodiumSessions_proofs -----------------------
(***************************************************************************)
(* Theorems about SodiumSessions for any threads, structs, ids, kinds of   *)
(* request and any number of requests.                                     *)
(***************************************************************************)
EXTENDS SodiumSessions, TLAPS

(* A thread that follows a pointer has one; a request without a session    *)
(* gets no further than the start of the sweep.                            *)
LocalsSet ==
  \A t \in Threads :
    /\ pc[t] \in DestroyLabels \cup {"find", "sweep"} => cur[t] # NULL
    /\ pc[t] \in {"idle", "find", "alloc"} => ptr[t] = NULL
    /\ ptr[t] = NULL => pc[t] \in {"idle", "find", "alloc", "sweepStart"}
    /\ pc[t] \in {"find", "alloc"} => req[t].id \in Ids

(* Whoever is inside the critical section owns it; the owner count agrees. *)
CSOwned ==
  /\ cs = NULL <=> csDepth = 0
  /\ \A t \in Threads : pc[t] \in Body \cup {"leave"} => cs = t

(* Nobody clears leaf while the last session is being unlinked. *)
LeafPending ==
  \A t \in Threads : pc[t] = "unlink2" /\ role[t] = "leaf" => leaf # NULL

MutexOwned ==
  \A t \in Threads : Holding(t) /\ mtx[t] # NULL => mutex[mtx[t]] = t

(* A pointer is good until its session is destroyed under the thread. *)
FreshPointers ==
  \A t \in Threads :
    ptr[t] # NULL /\ t \notin stale => mem[ptr[t]] = "live" /\ sid[ptr[t]] # NULL

(* ... and until then the mutex it waits for or holds is the one named by  *)
(* the id of its session.                                                  *)
NamedBySession ==
  \A t \in Threads :
    (pc[t] = "wait" \/ Holding(t)) /\ t \notin stale => mtx[t] = sid[ptr[t]]

(* The section is entered once for the thread inside and once for each     *)
(* early return.                                                           *)
CSCounted == csDepth = leaks + (IF \E t \in Threads : Inside(t) THEN 1 ELSE 0)

(* destroySession is called on the request's own session, or by the sweep. *)
CalledOnOwn ==
  \A t \in Threads : pc[t] \in DestroyLabels /\ ret[t] # "name" => cur[t] = ptr[t]

(* The request that created a session and did not reach its end.           *)
Creator(t, s) ==
  /\ ptr[t] = s
  /\ pc[t] \notin {"freeInit", "body", "release"}
  /\ pc[t] \in Body => cur[t] # s

InitHasCreator ==
  \A s \in Slots :
    mem[s] = "live" /\ readyState[s] = "INIT" => \E t \in Threads : Creator(t, s)

(* The killer of a session that is being killed has not yet marked it.     *)
KillerAtWork ==
  \A s \in Slots :
    mem[s] = "live" /\ readyState[s] = "BEING_KILLED"
      => \E t \in Threads : pc[t] \in Body \ {"leaveCS"} /\ cur[t] = s

KilledHasNoHeap == \A s \in Slots : heap[s] => readyState[s] # "KILLED"

(* A step keeps every variable in its type.                                *)
LEMMA TypeStep ==
  ASSUME TypeOK, LocalsSet, CSOwned, LeafPending, [Next]_vars
  PROVE  TypeOK'
<1> USE ConstantsAssumption DEF RequestKinds, structVars, registryVars,
    lockVars, localVars, ReadyStates, FindLabels, DispatchLabels,
    DestroyLabels, Labels, Body, SmallPosts, Goto, TypeOK, LocalsSet, CSOwned,
    LeafPending
<1>1. ASSUME NEW t \in Threads, Accept(t) \/ ThreadStep(t)
      PROVE  TypeOK'
  <2>1. CASE Crash(t)
    BY <2>1 DEF Role, Dies, Crash
  <2>2. CASE Accept(t)
    BY <2>2 DEF FreshIds, Accept
  <2>3. CASE FindMiss(t)
    BY <2>3 DEF Matches, FindMiss
  <2>4. CASE FindHit(t)
    BY <2>4 DEF Matches, FindHit
  <2>5. CASE Alloc(t)
    BY <2>5 DEF Alloc
  <2>6. CASE SetRoot(t)
    BY <2>6 DEF SetRoot
  <2>7. CASE SetLeaf(t)
    BY <2>7 DEF SetLeaf
  <2>8. CASE AddPrev(t)
    BY <2>8 DEF AddPrev
  <2>9. CASE AddNext(t)
    BY <2>9 DEF AddNext
  <2>10. CASE SweepStart(t)
    BY <2>10 DEF SweepStart
  <2>11. CASE SweepSkip(t)
    BY <2>11 DEF Expired, SweepSkip
  <2>12. CASE SweepKill(t)
    BY <2>12 DEF Expired, SweepKill
  <2>13. CASE NameMutex(t)
    BY <2>13 DEF MutexName, NameMutex
  <2>14. CASE WaitMutex(t)
    BY <2>14 DEF MayOwn, WaitMutex
  <2>15. CASE CheckKilled(t)
    BY <2>15 DEF CheckKilled
  <2>16. CASE Dispatch(t)
    BY <2>16 DEF SessionIsDead, Dispatch
  <2>17. CASE EndParse(t)
    BY <2>17 DEF EndParse
  <2>17a. CASE Timing(t)
    BY <2>17a DEF Timing
  <2>18. CASE RefreshBlock(t)
    BY <2>18 DEF EnterCS, RefreshBlock
  <2>19. CASE RefreshDone(t)
    BY <2>19 DEF LeaveCS, RefreshDone
  <2>20. CASE SmallDone(t)
    <3>1. mem' \in [Slots -> {"free", "live"}] /\ stale' \in SUBSET Threads
      BY <2>20 DEF Using, Free, SmallDone
    <3> QED BY <2>20, <3>1 DEF SmallDone
  <2>21. CASE DispatchDone(t)
    BY <2>21 DEF DispatchDone
  <2>22. CASE InitCheck(t)
    BY <2>22 DEF NeverReady, InitCheck, BodyOrRelease
  <2>23. CASE FreeInit(t)
    BY <2>23 DEF Using, Free, FreeInit, BodyOrRelease
  <2>24. CASE FreeBody(t)
    BY <2>24 DEF FreeBody
  <2>25. CASE Release(t)
    BY <2>25 DEF NoRequest, Release
  <2>26. CASE DestroyEnter(t)
    BY <2>26 DEF EnterCS, DestroyEnter
  <2>27. CASE Unlink1(t)
    <3>1. pc' \in [Threads -> Labels] /\ role' \in [Threads -> {"middle", "root", "leaf", "only"}]
      BY <2>27 DEF Unlink1, Role
    <3>2. prv' \in [Slots -> Slots \cup {NULL}]
      BY <2>27, <3>1 DEF Unlink1
    <3>3. nxt[cur[t]] \in Slots \cup {NULL}
      BY <2>27, <3>1, <3>2 DEF Unlink1
    <3>4. [nxt EXCEPT ![prv[cur[t]]] = nxt[cur[t]]] \in [Slots -> Slots \cup {NULL}]
      BY <2>27, <3>1, <3>2, <3>3 DEF Unlink1
    <3>5. [nxt EXCEPT ![prv[cur[t]]] = NULL] \in [Slots -> Slots \cup {NULL}]
      BY <2>27, <3>1, <3>2, <3>3, <3>4 DEF Unlink1
    <3>6. nxt' \in [Slots -> Slots \cup {NULL}]
      BY <2>27, <3>1, <3>2, <3>3, <3>4, <3>5 DEF Unlink1
    <3> QED BY <2>27, <3>1, <3>2, <3>3, <3>4, <3>5, <3>6 DEF Role, Unlink1
  <2>28. CASE Unlink2(t)
    <3>1. prv[cur[t]] \in Slots \cup {NULL}
      BY <2>28 DEF Unlink2
    <3>2. [prv EXCEPT ![nxt[cur[t]]] = prv[cur[t]]] \in [Slots -> Slots \cup {NULL}]
      BY <2>28, <3>1 DEF Unlink2
    <3>3. prv' \in [Slots -> Slots \cup {NULL}]
      BY <2>28, <3>1, <3>2 DEF Unlink2
    <3>4. root' \in Slots \cup {NULL} /\ leaf' \in Slots \cup {NULL}
      BY <2>28, <3>1, <3>2, <3>3 DEF Unlink2
    <3> QED BY <2>28, <3>1, <3>2, <3>3, <3>4 DEF Unlink2
  <2>29. CASE TearDown(t)
    BY <2>29 DEF Using, TearDown
  <2>30. CASE MarkKilled(t)
    BY <2>30 DEF MarkKilled
  <2>31. CASE DestroyLeave(t)
    BY <2>31 DEF LeaveCS, DestroyLeave
  <2> QED
    BY <1>1, <2>1, <2>2, <2>3, <2>4, <2>5, <2>6, <2>7, <2>8, <2>9, <2>10,
        <2>11, <2>12, <2>13, <2>14, <2>15, <2>16, <2>17, <2>17a, <2>18, <2>19, <2>20,
        <2>21, <2>22, <2>23, <2>24, <2>25, <2>26, <2>27, <2>28, <2>29, <2>30,
        <2>31 DEF ThreadStep, Step
<1>2. ASSUME NEW s \in Slots, TimePasses(s)
      PROVE  TypeOK'
  BY <1>2 DEF Using, TimePasses
<1>3. CASE UNCHANGED vars
  BY <1>3 DEF vars
<1> QED BY <1>1, <1>2, <1>3 DEF Next, Finished

(* A thread follows a cursor or its session only after setting it.         *)
LEMMA LocalsStep ==
  ASSUME TypeOK, LocalsSet, [Next]_vars
  PROVE  LocalsSet'
<1> USE ConstantsAssumption DEF RequestKinds, structVars, registryVars,
    lockVars, localVars, ReadyStates, FindLabels, DispatchLabels,
    DestroyLabels, Labels, Body, SmallPosts, Goto, TypeOK, LocalsSet
<1>1. ASSUME NEW t \in Threads, Accept(t) \/ ThreadStep(t)
      PROVE  LocalsSet'
  <2>1. CASE Accept(t)
    <3>1. PICK i \in Ids \cup {NULL}, known \in BOOLEAN, kind \in Kinds :
            /\ req' = [req EXCEPT ![t] = [id |-> i, kind |-> kind]]
            /\ cur' = [cur EXCEPT ![t] = IF known /\ i # NULL THEN root ELSE NULL]
            /\ pc' = [pc EXCEPT ![t] = IF i = NULL THEN "sweepStart"
                                       ELSE IF known /\ root # NULL THEN "find" ELSE "alloc"]
      BY <2>1 DEF Accept
    <3>2. ptr' = ptr /\ pc[t] = "idle"
      BY <2>1 DEF Accept
    <3>3. \A u \in Threads \ {t} : pc'[u] = pc[u] /\ cur'[u] = cur[u] /\ req'[u] = req[u]
      BY <3>1
    <3>4. /\ pc'[t] \in {"sweepStart", "find", "alloc"}
          /\ pc'[t] = "sweepStart" \/ req'[t].id \in Ids
          /\ pc'[t] = "find" => cur'[t] # NULL
      BY <3>1
    <3> QED BY <3>2, <3>3, <3>4
  <2>2. CASE FindMiss(t)
    BY <2>2 DEF Matches, FindMiss
  <2>3. CASE FindHit(t)
    BY <2>3 DEF Matches, FindHit
  <2>4. CASE Alloc(t)
    BY <2>4 DEF Alloc
  <2>5. CASE ~Dies(t) /\ SweepStart(t)
    BY <2>5 DEF SweepStart, Dies, Accessed, Neighbours
  <2>6. CASE SweepSkip(t)
    BY <2>6 DEF Expired, SweepSkip
  <2>7. CASE SweepKill(t)
    BY <2>7 DEF Expired, SweepKill
  <2>8. CASE Dispatch(t)
    BY <2>8 DEF SessionIsDead, Dispatch
  <2>9. CASE InitCheck(t)
    BY <2>9 DEF NeverReady, InitCheck, BodyOrRelease
  <2>10. CASE Release(t)
    BY <2>10 DEF NoRequest, Release
  <2>11. CASE Unlink1(t)
    BY <2>11 DEF Role, Unlink1
  <2>12. CASE Unlink2(t)
    BY <2>12 DEF Unlink2
  <2>13. CASE DestroyLeave(t)
    BY SMTT(30), <2>13 DEF LeaveCS, DestroyLeave
  <2>14. CASE Crash(t) \/ SetRoot(t) \/ SetLeaf(t) \/ AddPrev(t) \/ AddNext(t)
    BY <2>14 DEF SetRoot, SetLeaf, AddPrev, AddNext, Role, Dies, Crash
  <2>15. CASE NameMutex(t) \/ WaitMutex(t) \/ CheckKilled(t) \/ EndParse(t) \/ Timing(t) \/
      RefreshBlock(t)
    BY <2>15 DEF MutexName, MayOwn, NameMutex, WaitMutex, CheckKilled,
        EndParse, Timing, EnterCS, RefreshBlock
  <2>16. CASE RefreshDone(t) \/ SmallDone(t) \/ DispatchDone(t) \/
      FreeInit(t) \/ FreeBody(t)
    BY <2>16 DEF Using, LeaveCS, RefreshDone, Free, SmallDone, DispatchDone,
        FreeInit, BodyOrRelease, FreeBody
  <2>17. CASE DestroyEnter(t) \/ TearDown(t) \/ MarkKilled(t)
    BY <2>17 DEF Using, EnterCS, DestroyEnter, TearDown, MarkKilled
  <2> QED
    BY <1>1, <2>1, <2>2, <2>3, <2>4, <2>5, <2>6, <2>7, <2>8, <2>9, <2>10,
        <2>11, <2>12, <2>13, <2>14, <2>15, <2>16, <2>17 DEF ThreadStep, Step
<1>2. ASSUME NEW s \in Slots, TimePasses(s)
      PROVE  LocalsSet'
  BY <1>2 DEF Using, TimePasses
<1>3. CASE UNCHANGED vars
  BY <1>3 DEF vars
<1> QED BY <1>1, <1>2, <1>3 DEF Next, Finished

(* Only its owner leaves the critical section, so the owner stays inside.  *)
LEMMA CSStep ==
  ASSUME TypeOK, CSOwned, [Next]_vars
  PROVE  CSOwned'
<1>0. /\ pc \in [Threads -> Labels]
      /\ cs \in Threads \cup {NULL} /\ csDepth \in Nat
      /\ ret \in [Threads -> {"name", "small", "freeInit"}]
  BY DEF TypeOK
<1> USE ConstantsAssumption, <1>0 DEF lockVars, localVars, DestroyLabels,
    Body, Goto, CSOwned
<1>1. ASSUME NEW t \in Threads, Accept(t) \/ ThreadStep(t)
      PROVE  CSOwned'
  <2>1. CASE SweepKill(t)
    BY <2>1 DEF Expired, SweepKill
  <2>2. CASE Dispatch(t)
    BY <2>2 DEF SessionIsDead, Dispatch
  <2>3. CASE RefreshBlock(t)
    BY <2>3 DEF EnterCS, RefreshBlock
  <2>4. CASE RefreshDone(t)
    BY <2>4 DEF LeaveCS, RefreshDone
  <2>5. CASE InitCheck(t)
    BY <2>5 DEF NeverReady, InitCheck, BodyOrRelease
  <2>6. CASE DestroyEnter(t)
    BY <2>6 DEF EnterCS, DestroyEnter
  <2>7. CASE DestroyLeave(t)
    BY <2>7 DEF LeaveCS, DestroyLeave
  <2>8. CASE Unlink1(t)
    BY <2>8 DEF Role, Unlink1
  <2>9. CASE Unlink2(t)
    BY <2>9 DEF Unlink2
  <2>10. CASE Crash(t) \/ Accept(t) \/ FindMiss(t) \/ FindHit(t)
    BY <2>10 DEF FreshIds, Accept, Matches, FindMiss, FindHit, Role, Dies,
        Crash
  <2>11. CASE Alloc(t) \/ SetRoot(t) \/ SetLeaf(t) \/ AddPrev(t)
    BY <2>11 DEF Alloc, SetRoot, SetLeaf, AddPrev
  <2>12. CASE AddNext(t) \/ SweepStart(t) \/ SweepSkip(t) \/ NameMutex(t)
    BY <2>12 DEF AddNext, SweepStart, Expired, SweepSkip, MutexName, NameMutex
  <2>13. CASE WaitMutex(t) \/ CheckKilled(t) \/ EndParse(t) \/ Timing(t) \/ SmallDone(t)
    BY <2>13 DEF Using, MayOwn, WaitMutex, CheckKilled, EndParse, Timing, Free,
        SmallDone
  <2>14. CASE DispatchDone(t) \/ FreeInit(t) \/ FreeBody(t) \/ Release(t)
    BY <2>14 DEF NoRequest, Using, Free, DispatchDone, FreeInit, BodyOrRelease, FreeBody,
        Release
  <2>15. CASE TearDown(t) \/ MarkKilled(t)
    BY <2>15 DEF Using, TearDown, MarkKilled
  <2> QED
    BY <1>1, <2>1, <2>2, <2>3, <2>4, <2>5, <2>6, <2>7, <2>8, <2>9, <2>10,
        <2>11, <2>12, <2>13, <2>14, <2>15 DEF ThreadStep, Step
<1>2. ASSUME NEW s \in Slots, TimePasses(s)
      PROVE  CSOwned'
  BY <1>2 DEF Using, TimePasses
<1>3. CASE UNCHANGED vars
  BY <1>3 DEF vars
<1> QED BY <1>1, <1>2, <1>3 DEF Next, Finished

(* Only the owner of the critical section clears leaf, never while another *)
(* thread unlinks the last session.                                        *)
LEMMA LeafStep ==
  ASSUME TypeOK, LocalsSet, CSOwned, LeafPending, [Next]_vars
  PROVE  LeafPending'
<1> USE ConstantsAssumption DEF RequestKinds, structVars, registryVars,
    lockVars, localVars, ReadyStates, FindLabels, DispatchLabels,
    DestroyLabels, Labels, Body, SmallPosts, Goto, TypeOK, LocalsSet, CSOwned,
    LeafPending
<1>1. ASSUME NEW t \in Threads, Accept(t) \/ ThreadStep(t)
      PROVE  LeafPending'
  <2>1. CASE SetLeaf(t)
    BY <2>1 DEF SetLeaf
  <2>2. CASE Unlink1(t)
    BY <2>2 DEF Role, Unlink1
  <2>3. CASE Unlink2(t)
    BY <2>3 DEF Unlink2
  <2>4. CASE DestroyLeave(t)
    BY <2>4 DEF LeaveCS, DestroyLeave
  <2>5. CASE Crash(t) \/ Accept(t) \/ FindMiss(t) \/ FindHit(t) \/ Alloc(t)
    BY <2>5 DEF FreshIds, Accept, Matches, FindMiss, FindHit, Alloc, Role,
        Dies, Crash
  <2>6. CASE SetRoot(t) \/ AddPrev(t) \/ AddNext(t) \/ SweepStart(t) \/
      SweepSkip(t)
    BY <2>6 DEF SetRoot, AddPrev, AddNext, SweepStart, Expired, SweepSkip
  <2>7. CASE SweepKill(t) \/ NameMutex(t) \/ WaitMutex(t) \/ CheckKilled(t) \/
      Dispatch(t)
    BY <2>7 DEF Expired, SweepKill, MutexName, MayOwn, NameMutex, WaitMutex,
        CheckKilled, SessionIsDead, Dispatch
  <2>8. CASE EndParse(t) \/ Timing(t) \/ RefreshBlock(t) \/ RefreshDone(t) \/
      SmallDone(t) \/ DispatchDone(t)
    BY <2>8 DEF Using, EndParse, Timing, EnterCS, LeaveCS, RefreshBlock, RefreshDone,
        Free, SmallDone, DispatchDone
  <2>9. CASE InitCheck(t) \/ FreeInit(t) \/ FreeBody(t) \/ Release(t) \/
      DestroyEnter(t)
    BY <2>9 DEF NoRequest, Using, EnterCS, Free, NeverReady, InitCheck, BodyOrRelease,
        FreeInit, BodyOrRelease, FreeBody, Release, DestroyEnter
  <2>10. CASE TearDown(t) \/ MarkKilled(t)
    BY <2>10 DEF Using, TearDown, MarkKilled
  <2> QED
    BY <1>1, <2>1, <2>2, <2>3, <2>4, <2>5, <2>6, <2>7, <2>8, <2>9, <2>10 DEF ThreadStep, Step
<1>2. ASSUME NEW s \in Slots, TimePasses(s)
      PROVE  LeafPending'
  BY <1>2 DEF Using, TimePasses
<1>3. CASE UNCHANGED vars
  BY <1>3 DEF vars
<1> QED BY <1>1, <1>2, <1>3 DEF Next, Finished

(* WaitMutex takes a free mutex and Release gives back only its own.       *)
LEMMA MutexStep ==
  ASSUME TypeOK, MutexOwned, [Next]_vars
  PROVE  MutexOwned'
<1> USE ConstantsAssumption DEF RequestKinds, structVars, registryVars,
    lockVars, localVars, ReadyStates, FindLabels, DispatchLabels,
    DestroyLabels, Labels, Body, SmallPosts, Goto, TypeOK, MutexOwned, Holding
<1>1. ASSUME NEW t \in Threads, Accept(t) \/ ThreadStep(t)
      PROVE  MutexOwned'
  <2>1. CASE NameMutex(t)
    BY <2>1 DEF MutexName, NameMutex
  <2>2. CASE WaitMutex(t)
    BY <2>2 DEF MayOwn, WaitMutex
  <2>3. CASE Dispatch(t)
    BY <2>3 DEF SessionIsDead, Dispatch
  <2>4. CASE InitCheck(t)
    BY <2>4 DEF NeverReady, InitCheck, BodyOrRelease
  <2>5. CASE Release(t)
    BY <2>5 DEF NoRequest, Release
  <2>6. CASE SweepKill(t)
    BY <2>6 DEF Expired, SweepKill
  <2>7. CASE DestroyLeave(t)
    BY <2>7 DEF LeaveCS, DestroyLeave
  <2>8. CASE Crash(t) \/ Accept(t) \/ FindMiss(t) \/ FindHit(t) \/ Alloc(t)
    BY <2>8 DEF FreshIds, Accept, Matches, FindMiss, FindHit, Alloc, Role,
        Dies, Crash
  <2>9. CASE SetRoot(t) \/ SetLeaf(t) \/ AddPrev(t) \/ AddNext(t) \/
      SweepStart(t)
    BY <2>9 DEF SetRoot, SetLeaf, AddPrev, AddNext, SweepStart
  <2>10. CASE SweepSkip(t) \/ CheckKilled(t) \/ EndParse(t) \/ Timing(t) \/
      RefreshBlock(t) \/ RefreshDone(t)
    BY <2>10 DEF Expired, SweepSkip, CheckKilled, EndParse, Timing, EnterCS, LeaveCS,
        RefreshBlock, RefreshDone
  <2>11. CASE SmallDone(t) \/ DispatchDone(t) \/ FreeInit(t) \/ FreeBody(t) \/
      DestroyEnter(t)
    BY <2>11 DEF Using, EnterCS, Free, SmallDone, DispatchDone, FreeInit, BodyOrRelease,
        FreeBody, DestroyEnter
  <2>12. CASE Unlink1(t) \/ Unlink2(t) \/ TearDown(t) \/ MarkKilled(t)
    BY <2>12 DEF Using, Role, Unlink1, Unlink2, TearDown, MarkKilled
  <2> QED
    BY <1>1, <2>1, <2>2, <2>3, <2>4, <2>5, <2>6, <2>7, <2>8, <2>9, <2>10,
        <2>11, <2>12 DEF ThreadStep, Step
<1>2. ASSUME NEW s \in Slots, TimePasses(s)
      PROVE  MutexOwned'
  BY <1>2 DEF Using, TimePasses
<1>3. CASE UNCHANGED vars
  BY <1>3 DEF vars
<1> QED BY <1>1, <1>2, <1>3 DEF Next, Finished

(* An id is cleared and a struct freed only with the threads that use it   *)
(* recorded in stale; memory is handed out only when no good pointer has it.*)
LEMMA PointerStep ==
  ASSUME TypeOK, LocalsSet, FreshPointers, [Next]_vars
  PROVE  FreshPointers'
<1> USE ConstantsAssumption DEF RequestKinds, structVars, registryVars,
    lockVars, localVars, ReadyStates, FindLabels, DispatchLabels,
    DestroyLabels, Labels, Body, SmallPosts, Goto, TypeOK, LocalsSet,
    FreshPointers
<1>1. ASSUME NEW t \in Threads, Accept(t) \/ ThreadStep(t)
      PROVE  FreshPointers'
  <2>1. CASE FindHit(t)
    BY <2>1 DEF Matches, FindHit
  <2>2. CASE Alloc(t)
    BY <2>2 DEF Alloc
  <2>3. CASE SmallDone(t)
    BY <2>3 DEF Using, Free, SmallDone
  <2>4. CASE FreeInit(t)
    BY <2>4 DEF Using, Free, FreeInit, BodyOrRelease
  <2>5. CASE TearDown(t)
    BY <2>5 DEF Using, TearDown
  <2>6. CASE Release(t)
    BY <2>6 DEF NoRequest, Release
  <2>7. CASE Crash(t) \/ Accept(t) \/ FindMiss(t) \/ SetRoot(t) \/ SetLeaf(t)
    BY <2>7 DEF FreshIds, Accept, Matches, FindMiss, SetRoot, SetLeaf, Role,
        Dies, Crash
  <2>8. CASE AddPrev(t) \/ AddNext(t) \/ SweepStart(t) \/ SweepSkip(t) \/
      SweepKill(t)
    BY <2>8 DEF AddPrev, AddNext, SweepStart, Expired, SweepSkip, SweepKill
  <2>9. CASE NameMutex(t) \/ WaitMutex(t) \/ CheckKilled(t) \/ Dispatch(t) \/
      EndParse(t) \/ Timing(t)
    BY <2>9 DEF MutexName, MayOwn, NameMutex, WaitMutex, CheckKilled,
        SessionIsDead, Dispatch, EndParse, Timing
  <2>10. CASE RefreshBlock(t) \/ RefreshDone(t) \/ DispatchDone(t) \/
      InitCheck(t) \/ FreeBody(t)
    BY <2>10 DEF EnterCS, LeaveCS, RefreshBlock, RefreshDone, DispatchDone,
        NeverReady, InitCheck, BodyOrRelease, FreeBody
  <2>11. CASE DestroyEnter(t) \/ Unlink1(t) \/ Unlink2(t) \/ MarkKilled(t) \/
      DestroyLeave(t)
    BY <2>11 DEF EnterCS, LeaveCS, DestroyEnter, Role, Unlink1, Unlink2,
        MarkKilled, DestroyLeave
  <2> QED
    BY <1>1, <2>1, <2>2, <2>3, <2>4, <2>5, <2>6, <2>7, <2>8, <2>9, <2>10,
        <2>11 DEF ThreadStep, Step
<1>2. ASSUME NEW s \in Slots, TimePasses(s)
      PROVE  FreshPointers'
  BY <1>2 DEF Using, TimePasses
<1>3. CASE UNCHANGED vars
  BY <1>3 DEF vars
<1> QED BY <1>1, <1>2, <1>3 DEF Next, Finished

(* NameMutex reads the id of the session, and the id of a session with good*)
(* pointers is never rewritten.                                            *)
LEMMA NameStep ==
  ASSUME TypeOK, LocalsSet, FreshPointers, NamedBySession, [Next]_vars
  PROVE  NamedBySession'
<1> USE ConstantsAssumption DEF RequestKinds, structVars, registryVars,
    lockVars, localVars, ReadyStates, FindLabels, DispatchLabels,
    DestroyLabels, Labels, Body, SmallPosts, Goto, TypeOK, LocalsSet,
    FreshPointers, NamedBySession, Holding
<1>1. ASSUME NEW t \in Threads, Accept(t) \/ ThreadStep(t)
      PROVE  NamedBySession'
  <2>1. CASE FindHit(t)
    BY <2>1 DEF Matches, FindHit
  <2>2. CASE Alloc(t)
    BY <2>2 DEF Alloc
  <2>3. CASE SweepKill(t)
    BY <2>3 DEF Expired, SweepKill
  <2>4. CASE NameMutex(t)
    BY <2>4 DEF MutexName, NameMutex
  <2>5. CASE WaitMutex(t)
    BY <2>5 DEF MayOwn, WaitMutex
  <2>6. CASE Dispatch(t)
    BY <2>6 DEF SessionIsDead, Dispatch
  <2>7. CASE InitCheck(t)
    BY <2>7 DEF NeverReady, InitCheck, BodyOrRelease
  <2>8. CASE SmallDone(t)
    BY <2>8 DEF Using, Free, SmallDone
  <2>9. CASE FreeInit(t)
    BY <2>9 DEF Using, Free, FreeInit, BodyOrRelease
  <2>10. CASE TearDown(t)
    BY <2>10 DEF Using, TearDown
  <2>11. CASE Release(t)
    BY <2>11 DEF NoRequest, Release
  <2>12. CASE DestroyLeave(t)
    BY <2>12 DEF LeaveCS, DestroyLeave
  <2>13. CASE Crash(t) \/ Accept(t) \/ FindMiss(t) \/ SetRoot(t) \/ SetLeaf(t)
    BY <2>13 DEF FreshIds, Accept, Matches, FindMiss, SetRoot, SetLeaf, Role,
        Dies, Crash
  <2>14. CASE AddPrev(t) \/ AddNext(t) \/ SweepStart(t) \/ SweepSkip(t) \/
      CheckKilled(t)
    BY <2>14 DEF AddPrev, AddNext, SweepStart, Expired, SweepSkip, CheckKilled
  <2>15. CASE EndParse(t) \/ Timing(t) \/ RefreshBlock(t) \/ RefreshDone(t) \/
      DispatchDone(t) \/ FreeBody(t)
    BY <2>15 DEF EndParse, Timing, EnterCS, LeaveCS, RefreshBlock, RefreshDone,
        DispatchDone, FreeBody
  <2>16. CASE DestroyEnter(t) \/ Unlink1(t) \/ Unlink2(t) \/ MarkKilled(t)
    BY <2>16 DEF EnterCS, DestroyEnter, Role, Unlink1, Unlink2, MarkKilled
  <2> QED
    BY <1>1, <2>1, <2>2, <2>3, <2>4, <2>5, <2>6, <2>7, <2>8, <2>9, <2>10,
        <2>11, <2>12, <2>13, <2>14, <2>15, <2>16 DEF ThreadStep, Step
<1>2. ASSUME NEW s \in Slots, TimePasses(s)
      PROVE  NamedBySession'
  BY <1>2 DEF Using, TimePasses
<1>3. CASE UNCHANGED vars
  BY <1>3 DEF vars
<1> QED BY <1>1, <1>2, <1>3 DEF Next, Finished

(* Every Enter is followed by its Leave, or counted as a leak.             *)
LEMMA CSCountedStep ==
  ASSUME TypeOK, CSOwned, CSCounted, [Next]_vars
  PROVE  CSCounted'
<1>0. /\ pc \in [Threads -> Labels]
      /\ cs \in Threads \cup {NULL} /\ csDepth \in Nat
      /\ ret \in [Threads -> {"name", "small", "freeInit"}]
      /\ leaks \in Nat
  BY DEF TypeOK
<1> USE ConstantsAssumption, <1>0 DEF lockVars, localVars, DestroyLabels,
    Body, Inside, Goto, CSOwned, CSCounted
<1>1. ASSUME NEW t \in Threads, Accept(t) \/ ThreadStep(t)
      PROVE  CSCounted'
  <2>1. CASE Accept(t)
    BY <2>1 DEF FreshIds, Accept
  <2>2. CASE SweepKill(t)
    BY <2>2 DEF Expired, SweepKill
  <2>3. CASE Dispatch(t)
    BY <2>3 DEF SessionIsDead, Dispatch
  <2>4. CASE RefreshBlock(t)
    BY <2>4 DEF EnterCS, RefreshBlock
  <2>5. CASE RefreshDone(t)
    BY <2>5 DEF LeaveCS, RefreshDone
  <2>6. CASE InitCheck(t)
    BY <2>6 DEF NeverReady, InitCheck, BodyOrRelease
  <2>7. CASE Release(t)
    BY <2>7 DEF NoRequest, Release
  <2>8. CASE DestroyEnter(t)
    BY <2>8 DEF EnterCS, DestroyEnter
  <2>9. CASE DestroyLeave(t)
    BY <2>9 DEF LeaveCS, DestroyLeave
  <2>10. CASE Unlink1(t)
    BY <2>10 DEF Role, Unlink1
  <2>11. CASE Unlink2(t)
    BY <2>11 DEF Unlink2
  <2>12. CASE Crash(t) \/ FindMiss(t) \/ FindHit(t) \/ Alloc(t)
    BY <2>12 DEF Matches, FindMiss, FindHit, Alloc, Role, Dies, Crash
  <2>13. CASE SetRoot(t) \/ SetLeaf(t) \/ AddPrev(t) \/ AddNext(t)
    BY <2>13 DEF SetRoot, SetLeaf, AddPrev, AddNext
  <2>14. CASE SweepStart(t) \/ SweepSkip(t) \/ NameMutex(t) \/ WaitMutex(t)
    BY <2>14 DEF SweepStart, Expired, SweepSkip, MutexName, MayOwn, NameMutex,
        WaitMutex
  <2>15. CASE CheckKilled(t) \/ EndParse(t) \/ Timing(t) \/ SmallDone(t) \/ DispatchDone(t)
    BY <2>15 DEF Using, CheckKilled, EndParse, Timing, Free, SmallDone, DispatchDone
  <2>16. CASE FreeInit(t) \/ FreeBody(t) \/ TearDown(t) \/ MarkKilled(t)
    BY <2>16 DEF Using, Free, FreeInit, BodyOrRelease, FreeBody, TearDown, MarkKilled
  <2> QED
    BY <1>1, <2>1, <2>2, <2>3, <2>4, <2>5, <2>6, <2>7, <2>8, <2>9, <2>10,
        <2>11, <2>12, <2>13, <2>14, <2>15, <2>16 DEF ThreadStep, Step
<1>2. ASSUME NEW s \in Slots, TimePasses(s)
      PROVE  CSCounted'
  BY <1>2 DEF Using, TimePasses
<1>3. CASE UNCHANGED vars
  BY <1>3 DEF vars
<1> QED BY <1>1, <1>2, <1>3 DEF Next, Finished

(* dispatchRequest and HandleFrmxRequest destroy the session they serve.   *)
LEMMA CalledStep ==
  ASSUME TypeOK, CalledOnOwn, [Next]_vars
  PROVE  CalledOnOwn'
<1> USE ConstantsAssumption DEF RequestKinds, structVars, registryVars,
    lockVars, localVars, ReadyStates, FindLabels, DispatchLabels,
    DestroyLabels, Labels, Body, SmallPosts, Goto, TypeOK, CalledOnOwn
<1>1. ASSUME NEW t \in Threads, Accept(t) \/ ThreadStep(t)
      PROVE  CalledOnOwn'
  <2>1. CASE Accept(t)
    BY <2>1 DEF FreshIds, Accept
  <2>2. CASE FindMiss(t)
    BY <2>2 DEF Matches, FindMiss
  <2>3. CASE FindHit(t)
    BY <2>3 DEF Matches, FindHit
  <2>4. CASE Alloc(t)
    BY <2>4 DEF Alloc
  <2>5. CASE SweepStart(t)
    BY <2>5 DEF SweepStart
  <2>6. CASE SweepSkip(t)
    BY <2>6 DEF Expired, SweepSkip
  <2>7. CASE SweepKill(t)
    BY <2>7 DEF Expired, SweepKill
  <2>8. CASE Dispatch(t)
    BY <2>8 DEF SessionIsDead, Dispatch
  <2>9. CASE InitCheck(t)
    BY <2>9 DEF NeverReady, InitCheck, BodyOrRelease
  <2>10. CASE Release(t)
    BY <2>10 DEF NoRequest, Release
  <2>11. CASE Unlink1(t)
    BY <2>11 DEF Role, Unlink1
  <2>12. CASE Unlink2(t)
    BY <2>12 DEF Unlink2
  <2>13. CASE DestroyLeave(t)
    BY <2>13 DEF LeaveCS, DestroyLeave
  <2>14. CASE Crash(t) \/ SetRoot(t) \/ SetLeaf(t) \/ AddPrev(t)
    BY <2>14 DEF SetRoot, SetLeaf, AddPrev, Role, Dies, Crash
  <2>15. CASE AddNext(t) \/ NameMutex(t) \/ WaitMutex(t) \/ CheckKilled(t)
    BY <2>15 DEF AddNext, MutexName, MayOwn, NameMutex, WaitMutex, CheckKilled
  <2>16. CASE EndParse(t) \/ Timing(t) \/ RefreshBlock(t) \/ RefreshDone(t) \/ SmallDone(t)
    BY <2>16 DEF Using, EndParse, Timing, EnterCS, LeaveCS, RefreshBlock, RefreshDone,
        Free, SmallDone
  <2>17. CASE DispatchDone(t) \/ FreeInit(t) \/ FreeBody(t) \/ DestroyEnter(t)
    BY <2>17 DEF Using, EnterCS, Free, DispatchDone, FreeInit, BodyOrRelease, FreeBody,
        DestroyEnter
  <2>18. CASE TearDown(t) \/ MarkKilled(t)
    BY <2>18 DEF Using, TearDown, MarkKilled
  <2> QED
    BY <1>1, <2>1, <2>2, <2>3, <2>4, <2>5, <2>6, <2>7, <2>8, <2>9, <2>10,
        <2>11, <2>12, <2>13, <2>14, <2>15, <2>16, <2>17, <2>18 DEF ThreadStep, Step
<1>2. ASSUME NEW s \in Slots, TimePasses(s)
      PROVE  CalledOnOwn'
  BY <1>2 DEF Using, TimePasses
<1>3. CASE UNCHANGED vars
  BY <1>3 DEF vars
<1> QED BY <1>1, <1>2, <1>3 DEF Next, Finished

(* Leaving INIT behind would take a request that skips InitCheck, BodyOrRelease.          *)
LEMMA InitStep ==
  ASSUME TypeOK, LocalsSet, CalledOnOwn, InitHasCreator, [Next]_vars
  PROVE  InitHasCreator'
<1> USE ConstantsAssumption DEF RequestKinds, structVars, registryVars,
    lockVars, localVars, ReadyStates, FindLabels, DispatchLabels,
    DestroyLabels, Labels, Body, SmallPosts, Goto, TypeOK, LocalsSet,
    CalledOnOwn, InitHasCreator, Creator
<1>1. ASSUME NEW t \in Threads, Accept(t) \/ ThreadStep(t)
      PROVE  InitHasCreator'
  <2>1. CASE Accept(t)
    BY <2>1 DEF FreshIds, Accept
  <2>2. CASE FindMiss(t)
    BY <2>2 DEF Matches, FindMiss
  <2>3. CASE FindHit(t)
    BY <2>3 DEF Matches, FindHit
  <2>4. CASE Alloc(t)
    BY <2>4 DEF Alloc
  <2>5. CASE SweepStart(t)
    BY <2>5 DEF SweepStart
  <2>6. CASE SweepSkip(t)
    BY <2>6 DEF Expired, SweepSkip
  <2>7. CASE SweepKill(t)
    BY <2>7 DEF Expired, SweepKill
  <2>8. CASE CheckKilled(t)
    BY <2>8 DEF CheckKilled
  <2>9. CASE Dispatch(t)
    BY <2>9 DEF SessionIsDead, Dispatch
  <2>10. CASE EndParse(t) \/ Timing(t)
    BY SMTT(30), <2>10 DEF EndParse, Timing
  <2>11. CASE RefreshDone(t)
    BY <2>11 DEF LeaveCS, RefreshDone
  <2>12. CASE SmallDone(t)
    BY <2>12 DEF Using, Free, SmallDone
  <2>13. CASE InitCheck(t)
    BY <2>13 DEF NeverReady, InitCheck, BodyOrRelease
  <2>14. CASE FreeInit(t)
    BY <2>14 DEF Using, Free, FreeInit, BodyOrRelease
  <2>15. CASE Release(t)
    BY <2>15 DEF NoRequest, Release
  <2>16. CASE DestroyEnter(t)
    BY <2>16 DEF EnterCS, DestroyEnter
  <2>17. CASE Unlink1(t)
    BY <2>17 DEF Role, Unlink1
  <2>18. CASE Unlink2(t)
    BY <2>18 DEF Unlink2
  <2>19. CASE TearDown(t)
    BY <2>19 DEF Using, TearDown
  <2>20. CASE MarkKilled(t)
    BY <2>20 DEF MarkKilled
  <2>21. CASE DestroyLeave(t)
    BY SMTT(30), <2>21 DEF LeaveCS, DestroyLeave
  <2>22. CASE Crash(t) \/ SetRoot(t) \/ SetLeaf(t) \/ AddPrev(t)
    BY <2>22 DEF SetRoot, SetLeaf, AddPrev, Role, Dies, Crash
  <2>23. CASE AddNext(t) \/ NameMutex(t) \/ WaitMutex(t) \/ RefreshBlock(t)
    BY SMTT(30), <2>23 DEF AddNext, MutexName, MayOwn, NameMutex, WaitMutex, EnterCS,
        RefreshBlock
  <2>24. CASE DispatchDone(t)
    BY <2>24 DEF DispatchDone
  <2>25. CASE FreeBody(t)
    BY <2>25 DEF FreeBody
  <2> QED
    BY <1>1, <2>1, <2>2, <2>3, <2>4, <2>5, <2>6, <2>7, <2>8, <2>9, <2>10,
        <2>11, <2>12, <2>13, <2>14, <2>15, <2>16, <2>17, <2>18, <2>19, <2>20,
        <2>21, <2>22, <2>23, <2>24, <2>25 DEF ThreadStep, Step
<1>2. ASSUME NEW s \in Slots, TimePasses(s)
      PROVE  InitHasCreator'
  BY <1>2 DEF Using, TimePasses
<1>3. CASE UNCHANGED vars
  BY <1>3 DEF vars
<1> QED BY <1>1, <1>2, <1>3 DEF Next, Finished

(* BEING_KILLED is written inside the critical section only, and its       *)
(* writer writes KILLED before it leaves.                                  *)
LEMMA KillerStep ==
  ASSUME TypeOK, LocalsSet, KillerAtWork, [Next]_vars
  PROVE  KillerAtWork'
<1> USE ConstantsAssumption DEF RequestKinds, structVars, registryVars,
    lockVars, localVars, ReadyStates, FindLabels, DispatchLabels,
    DestroyLabels, Labels, Body, SmallPosts, Goto, TypeOK, LocalsSet,
    KillerAtWork
<1>1. ASSUME NEW t \in Threads, Accept(t) \/ ThreadStep(t)
      PROVE  KillerAtWork'
  <2>1. CASE Accept(t)
    BY SMTT(30), <2>1 DEF FreshIds, Accept
  <2>2. CASE FindMiss(t)
    BY <2>2 DEF Matches, FindMiss
  <2>3. CASE FindHit(t)
    BY <2>3 DEF Matches, FindHit
  <2>4. CASE Alloc(t)
    <3>1. PICK s \in Slots :
             /\ mem' = [mem EXCEPT ![s] = "live"]
             /\ readyState' = [readyState EXCEPT ![s] = "INIT"]
      BY <2>4 DEF Alloc
    <3> QED BY SMTT(30), <2>4, <3>1 DEF Alloc
  <2>5. CASE SweepStart(t)
    BY <2>5 DEF SweepStart
  <2>6. CASE SweepSkip(t)
    BY <2>6 DEF Expired, SweepSkip
  <2>7. CASE SweepKill(t)
    BY <2>7 DEF Expired, SweepKill
  <2>8. CASE Dispatch(t)
    BY SMTT(30), <2>8 DEF SessionIsDead, Dispatch
  <2>9. CASE EndParse(t)
    BY SMTT(30), <2>9 DEF EndParse
  <2>9a. CASE Timing(t)
    BY <2>9a DEF Timing
  <2>10. CASE SmallDone(t)
    BY <2>10 DEF Using, Free, SmallDone
  <2>11. CASE InitCheck(t)
    BY <2>11 DEF NeverReady, InitCheck, BodyOrRelease
  <2>12. CASE FreeInit(t)
    <3>1. pc' \in [Threads -> Labels] /\ pc[t] = "freeInit" /\ \A u \in Threads \ {t} : pc'[u] = pc[u]
      BY <2>12 DEF FreeInit, BodyOrRelease
    <3>2. /\ \A s \in Slots : mem'[s] = "live" => mem[s] = "live"
          /\ readyState' = readyState /\ cur' = cur
      BY <2>12 DEF Free, FreeInit
    <3> QED BY <3>1, <3>2
  <2>13. CASE Release(t)
    BY <2>13 DEF NoRequest, Release
  <2>14. CASE DestroyEnter(t)
    BY <2>14 DEF EnterCS, DestroyEnter
  <2>15. CASE Unlink1(t)
    BY <2>15 DEF Role, Unlink1
  <2>16. CASE Unlink2(t)
    BY <2>16 DEF Unlink2
  <2>17. CASE TearDown(t)
    BY <2>17 DEF Using, TearDown
  <2>18. CASE MarkKilled(t)
    BY <2>18 DEF MarkKilled
  <2>19. CASE DestroyLeave(t)
    BY <2>19 DEF LeaveCS, DestroyLeave
  <2>20. CASE Crash(t) \/ SetRoot(t) \/ SetLeaf(t) \/ AddPrev(t)
    BY <2>20 DEF SetRoot, SetLeaf, AddPrev, Role, Dies, Crash
  <2>21. CASE AddNext(t) \/ NameMutex(t) \/ WaitMutex(t) \/ CheckKilled(t)
    BY SMTT(30), <2>21 DEF AddNext, MutexName, MayOwn, NameMutex, WaitMutex, CheckKilled
  <2>22. CASE RefreshBlock(t) \/ RefreshDone(t) \/ DispatchDone(t) \/
      FreeBody(t)
    BY SMTT(30), <2>22 DEF EnterCS, LeaveCS, RefreshBlock, RefreshDone, DispatchDone,
        FreeBody
  <2> QED
    BY <1>1, <2>1, <2>2, <2>3, <2>4, <2>5, <2>6, <2>7, <2>8, <2>9, <2>9a, <2>10,
        <2>11, <2>12, <2>13, <2>14, <2>15, <2>16, <2>17, <2>18, <2>19, <2>20,
        <2>21, <2>22 DEF ThreadStep, Step
<1>2. ASSUME NEW s \in Slots, TimePasses(s)
      PROVE  KillerAtWork'
  BY <1>2 DEF Using, TimePasses
<1>3. CASE UNCHANGED vars
  BY <1>3 DEF vars
<1> QED BY <1>1, <1>2, <1>3 DEF Next, Finished

(* A struct is marked KILLED in the step that destroys its heap.           *)
LEMMA HeapStep ==
  ASSUME TypeOK, KilledHasNoHeap, [Next]_vars
  PROVE  KilledHasNoHeap'
<1> USE ConstantsAssumption DEF RequestKinds, structVars, registryVars,
    lockVars, localVars, ReadyStates, FindLabels, DispatchLabels,
    DestroyLabels, Labels, Body, SmallPosts, Goto, TypeOK, KilledHasNoHeap
<1>1. ASSUME NEW t \in Threads, Accept(t) \/ ThreadStep(t)
      PROVE  KilledHasNoHeap'
  <2>1. CASE Alloc(t)
    <3>1. PICK s \in Slots :
             /\ readyState' = [readyState EXCEPT ![s] = "INIT"]
             /\ heap' = [heap EXCEPT ![s] = TRUE]
      BY <2>1 DEF Alloc
    <3> QED BY <2>1, <3>1 DEF Alloc
  <2>2. CASE Dispatch(t)
    BY <2>2 DEF SessionIsDead, Dispatch
  <2>3. CASE EndParse(t) \/ Timing(t)
    BY <2>3 DEF EndParse, Timing
  <2>4. CASE DestroyEnter(t)
    BY <2>4 DEF EnterCS, DestroyEnter
  <2>5. CASE MarkKilled(t)
    BY <2>5 DEF MarkKilled
  <2>6. CASE Crash(t) \/ Accept(t) \/ FindMiss(t) \/ FindHit(t)
    BY <2>6 DEF FreshIds, Accept, Matches, FindMiss, FindHit, Role, Dies,
        Crash
  <2>7. CASE SetRoot(t) \/ SetLeaf(t) \/ AddPrev(t) \/ AddNext(t)
    BY <2>7 DEF SetRoot, SetLeaf, AddPrev, AddNext
  <2>8. CASE SweepStart(t) \/ SweepSkip(t) \/ SweepKill(t) \/ NameMutex(t)
    BY <2>8 DEF SweepStart, Expired, SweepSkip, SweepKill, MutexName,
        NameMutex
  <2>9. CASE WaitMutex(t) \/ CheckKilled(t) \/ RefreshBlock(t) \/
      RefreshDone(t)
    BY <2>9 DEF MayOwn, WaitMutex, CheckKilled, EnterCS, LeaveCS,
        RefreshBlock, RefreshDone
  <2>10. CASE SmallDone(t) \/ DispatchDone(t) \/ InitCheck(t) \/ FreeInit(t)
    BY <2>10 DEF Using, Free, SmallDone, DispatchDone, NeverReady, InitCheck, BodyOrRelease,
        FreeInit, BodyOrRelease
  <2>11. CASE FreeBody(t) \/ Release(t) \/ Unlink1(t) \/ Unlink2(t)
    BY <2>11 DEF NoRequest, FreeBody, Release, Role, Unlink1, Unlink2
  <2>12. CASE TearDown(t) \/ DestroyLeave(t)
    BY <2>12 DEF Using, LeaveCS, TearDown, DestroyLeave
  <2> QED
    BY <1>1, <2>1, <2>2, <2>3, <2>4, <2>5, <2>6, <2>7, <2>8, <2>9, <2>10,
        <2>11, <2>12 DEF ThreadStep, Step
<1>2. ASSUME NEW s \in Slots, TimePasses(s)
      PROVE  KilledHasNoHeap'
  BY <1>2 DEF Using, TimePasses
<1>3. CASE UNCHANGED vars
  BY <1>3 DEF vars
<1> QED BY <1>1, <1>2, <1>3 DEF Next, Finished

-----------------------------------------------------------------------------
(* The invariant that makes the first theorems inductive: types, set       *)
(* cursors, the owners of the two locks, and the good pointers.            *)
IInv ==
  /\ TypeOK /\ LocalsSet /\ CSOwned /\ LeafPending
  /\ MutexOwned /\ FreshPointers /\ NamedBySession

(* It holds when the server starts ...                                     *)
LEMMA InitIInv == Init => IInv
<1> SUFFICES ASSUME Init PROVE IInv
  OBVIOUS
<1>1. TypeOK
  BY ConstantsAssumption DEF Init, TypeOK, NoRequest, RequestKinds, ReadyStates, Labels
<1>2. LocalsSet /\ LeafPending /\ FreshPointers
  BY DEF Init, LocalsSet, LeafPending, FreshPointers, DestroyLabels
<1>3. CSOwned
  BY DEF Init, CSOwned, Body, DestroyLabels
<1>4. MutexOwned /\ NamedBySession
  BY DEF Init, MutexOwned, NamedBySession, Holding, DispatchLabels, DestroyLabels
<1> QED BY <1>1, <1>2, <1>3, <1>4 DEF IInv

(* ... and every step keeps it.                                            *)
LEMMA NextIInv == IInv /\ [Next]_vars => IInv'
  BY TypeStep, LocalsStep, CSStep, LeafStep, MutexStep, PointerStep, NameStep DEF IInv

(* So it holds in every reachable state.                                   *)
LEMMA SpecIInv == Spec => []IInv
  BY InitIInv, NextIInv, PTL DEF Spec

(* Every variable keeps its type, whatever the threads do to the unlocked  *)
(* registry: in particular no Leave without an Enter of the critical       *)
(* section, and no cursor is followed that was never set.                  *)
THEOREM TypeCorrect == Spec => []TypeOK
<1>1. IInv => TypeOK
  BY DEF IInv
<1> QED BY <1>1, SpecIInv, PTL

(* Requests that read the same session id are served one after the other.  *)
THEOREM MutexExcludes == Spec => []NamedMutexExclusion
<1>1. IInv => NamedMutexExclusion
  BY DEF IInv, MutexOwned, NamedMutexExclusion
<1> QED BY <1>1, SpecIInv, PTL

(* As long as a session is not destroyed under a request, that request has *)
(* the session for itself: its mutex carries the name of its session, and  *)
(* so does the mutex of every other thread with the same good pointer.     *)
THEOREM SerialService == Spec => []SerialUnlessDestroyed
<1>1. IInv => SerialUnlessDestroyed
  <2> SUFFICES ASSUME IInv,
                      NEW t \in Threads, NEW u \in Threads, t # u,
                      Holding(t), Holding(u), ptr[t] = ptr[u],
                      t \notin stale, u \notin stale
               PROVE  FALSE
    BY DEF SerialUnlessDestroyed
  <2>1. ptr[t] # NULL
    BY DEF IInv, LocalsSet, Holding, DispatchLabels, DestroyLabels, TypeOK,
       Labels, FindLabels
  <2>2. sid[ptr[t]] # NULL
    BY <2>1 DEF IInv, FreshPointers
  <2>3. mtx[t] = sid[ptr[t]] /\ mtx[u] = sid[ptr[t]]
    BY DEF IInv, NamedBySession
  <2>4. mutex[mtx[t]] = t /\ mutex[mtx[t]] = u
    BY <2>2, <2>3 DEF IInv, MutexOwned
  <2> QED BY <2>4
<1> QED BY <1>1, SpecIInv, PTL

-----------------------------------------------------------------------------
CSInv == IInv /\ CSCounted

(* The critical section belongs to the thread that destroys a session or   *)
(* refreshes a block, entered once, plus once for each early return of a   *)
(* refresh: while there was none, its owner never waits for the mutex of a *)
(* session; after the first, it is never free again.                       *)
THEOREM CriticalSection == Spec => []CSHeldOnlyInside
<1>1. Init => CSInv
  BY InitIInv DEF Init, CSInv, CSCounted, Inside, Body, DestroyLabels
<1>2. CSInv /\ [Next]_vars => CSInv'
  BY NextIInv, CSCountedStep DEF CSInv, IInv
<1>3. CSInv => CSHeldOnlyInside
  BY DEF CSInv, IInv, CSOwned, CSCounted, CSHeldOnlyInside, Inside
<1> QED BY <1>1, <1>2, <1>3, PTL DEF Spec

-----------------------------------------------------------------------------
LifeInv == IInv /\ CalledOnOwn /\ InitHasCreator /\ KillerAtWork /\ KilledHasNoHeap

(* The invariant of the life of a session: its creator, its killer, its heap.*)
LEMMA InitLifeInv == Init => LifeInv
  BY InitIInv DEF Init, LifeInv, CalledOnOwn, InitHasCreator, KillerAtWork,
     KilledHasNoHeap, DestroyLabels

(* Every step keeps it.                                                    *)
LEMMA NextLifeInv == LifeInv /\ [Next]_vars => LifeInv'
  BY NextIInv, CalledStep, InitStep, KillerStep, HeapStep DEF LifeInv, IInv

(* It holds of every state of the server.                                  *)
LEMMA SpecLifeInv == Spec => []LifeInv
  BY InitLifeInv, NextLifeInv, PTL DEF Spec

(* A session that never got READY is not left behind by its request.       *)
THEOREM InitOwned == Spec => []InitHasRequest
<1>1. LifeInv => InitHasRequest
  BY DEF LifeInv, InitHasCreator, Creator, InitHasRequest, Using
<1> QED BY <1>1, SpecLifeInv, PTL

(* BEING_KILLED never outlives destroySession.                             *)
THEOREM KillerPresent == Spec => []BeingKilledHasKiller
<1>1. LifeInv => BeingKilledHasKiller
  BY DEF LifeInv, KillerAtWork, BeingKilledHasKiller
<1> QED BY <1>1, SpecLifeInv, PTL

(* Half made and half destroyed sessions have a thread that finishes them. *)
THEOREM UnfinishedOwned == Spec => []UnfinishedHasOwner
  BY InitOwned, KillerPresent, PTL DEF UnfinishedHasOwner

(* A struct whose heap is destroyed and whose state is not KILLED was      *)
(* overwritten at the end of a parse, and its thread is about to die.      *)
AtTiming ==
  \A s \in Slots :
    mem[s] = "live" /\ ~heap[s] /\ readyState[s] # "KILLED"
      => \E t \in Threads : ptr[t] = s /\ pc[t] = "timing"

(* Only EndParse writes the state of a struct without a heap and survives. *)
LEMMA AtTimingStep ==
  ASSUME TypeOK, AtTiming, [Next]_vars
  PROVE  AtTiming'
<1> USE ConstantsAssumption DEF RequestKinds, structVars, registryVars,
    lockVars, localVars, ReadyStates, FindLabels, DispatchLabels,
    DestroyLabels, Labels, Body, SmallPosts, Goto, TypeOK, AtTiming
<1>1. ASSUME NEW t \in Threads, Accept(t) \/ ThreadStep(t)
      PROVE  AtTiming'
  <2>1. CASE Alloc(t)
    <3>1. PICK s \in Slots :
             /\ mem' = [mem EXCEPT ![s] = "live"]
             /\ readyState' = [readyState EXCEPT ![s] = "INIT"]
             /\ heap' = [heap EXCEPT ![s] = TRUE]
      BY <2>1 DEF Alloc
    <3> QED BY <2>1, <3>1 DEF Alloc
  <2>2. CASE ~Dies(t) /\ Dispatch(t)
    BY <2>2 DEF SessionIsDead, Dispatch, Dies
  <2>3. CASE EndParse(t)
    BY <2>3 DEF EndParse
  <2>4. CASE ~Dies(t) /\ Timing(t)
    BY <2>4 DEF Timing, Dies
  <2>5. CASE ~Dies(t) /\ DestroyEnter(t)
    BY <2>5 DEF EnterCS, DestroyEnter, Dies, EntersCS
  <2>6. CASE MarkKilled(t)
    BY <2>6 DEF MarkKilled
  <2>7. CASE Crash(t) \/ Accept(t) \/ FindMiss(t) \/ FindHit(t)
    BY <2>7 DEF Accept, FindMiss, FindHit, Crash
  <2>8. CASE SetRoot(t) \/ SetLeaf(t) \/ AddPrev(t) \/ AddNext(t)
    BY <2>8 DEF SetRoot, SetLeaf, AddPrev, AddNext
  <2>9. CASE SweepStart(t) \/ SweepSkip(t) \/ SweepKill(t) \/ NameMutex(t)
    BY <2>9 DEF SweepStart, SweepSkip, SweepKill, NameMutex
  <2>10. CASE WaitMutex(t) \/ CheckKilled(t) \/ RefreshBlock(t) \/ RefreshDone(t)
    BY <2>10 DEF WaitMutex, CheckKilled, RefreshBlock, RefreshDone
  <2>11. CASE SmallDone(t) \/ DispatchDone(t) \/ InitCheck(t) \/ FreeInit(t)
    BY <2>11 DEF Free, SmallDone, DispatchDone, InitCheck, FreeInit
  <2>12. CASE FreeBody(t) \/ Release(t) \/ Unlink1(t) \/ Unlink2(t)
    BY <2>12 DEF FreeBody, Release, Unlink1, Unlink2
  <2>13. CASE TearDown(t) \/ DestroyLeave(t)
    BY <2>13 DEF TearDown, DestroyLeave
  <2> QED
    BY <1>1, <2>1, <2>2, <2>3, <2>4, <2>5, <2>6, <2>7, <2>8, <2>9, <2>10,
        <2>11, <2>12, <2>13 DEF ThreadStep, Step
<1>2. ASSUME NEW s \in Slots, TimePasses(s)
      PROVE  AtTiming'
  BY <1>2 DEF TimePasses
<1>3. CASE UNCHANGED vars
  BY <1>3 DEF vars
<1> QED BY <1>1, <1>2, <1>3 DEF Next, Finished

(* Only a parse that was running when its session was destroyed writes     *)
(* READY over KILLED, and the process dies of what that parse does next.   *)
THEOREM RevivalIsFatal == Spec => []RevivedIsDoomed
<1>1. Init => AtTiming
  BY DEF Init, AtTiming
<1>2. IInv /\ AtTiming /\ [Next]_vars => AtTiming'
  BY AtTimingStep DEF IInv
<1>3. AtTiming => RevivedIsDoomed
  BY DEF AtTiming, RevivedIsDoomed, Dies
<1> QED BY <1>1, <1>2, <1>3, SpecIInv, PTL DEF Spec
=============================================================================
