--------------------------- MODULE SodiumSessions ---------------------------
(***************************************************************************)
(* The life of a request and of a session: HandleFrmxRequest run by        *)
(* several server threads over the registry of SodiumSession structs.      *)
(*                                                                         *)
(* The registry is a doubly linked list with two globals, mkRootSession-   *)
(* Instance (root) and mkCurrentMKSessionInstance (leaf, the last node).   *)
(* Creation and look-up take no lock; destroySession holds the process     *)
(* wide htsqlCriticalSection; the handling of a request holds a named      *)
(* mutex whose name is the session id read from the struct just before.    *)
(*                                                                         *)
(* A step of a thread is the code between two accesses to memory that      *)
(* another thread may write.  A struct returned to the application heap is *)
(* still used by the code: it either keeps its contents until the          *)
(* allocator hands it out again, or the access kills the process.          *)
(***************************************************************************)
EXTENDS Naturals, FiniteSets

CONSTANTS
  Threads,       \* server threads that call HandleFrmxRequest
  Slots,         \* addresses of SodiumSession structs
  Ids,           \* session ids (the cookie values)
  NULL,          \* the null pointer, the id of a dead session, the unnamed mutex
  Kinds,         \* what the clients ask for, a subset of RequestKinds
  ForeignCookies, \* do they send Cookie headers without SodiumSessionCookie=?
  SessionsIdle,  \* may a session sit idle longer than the limit?
  LongUptime,    \* has the process run longer than the idle limit?
  MaxRequests    \* bound: requests accepted in a behaviour

(* page: a GET whose FRMX file is parsed.  plain: a GET of the small       *)
(* dispatcher that leaves sessionReadyState alone (access refused, file    *)
(* missing, image).  upload: a multipart POST of the big dispatcher.       *)
(* ajax, refresh, refreshNoConn, kill: POSTs of the small dispatcher; the  *)
(* third asks for a block without data source or connection.               *)
RequestKinds == {"page", "plain", "upload", "ajax", "refresh", "refreshNoConn", "kill"}
SmallPosts   == {"ajax", "refresh", "refreshNoConn", "kill"}

ASSUME ConstantsAssumption ==
  /\ NULL \notin Threads \cup Slots \cup Ids
  /\ Kinds \subseteq RequestKinds
  /\ ForeignCookies \in BOOLEAN
  /\ SessionsIdle \in BOOLEAN
  /\ LongUptime \in BOOLEAN
  /\ MaxRequests \in Nat

VARIABLES
  \* one field of SodiumSession each, and the state of the struct's memory
  mem, sid, readyState, nxt, prv, heap, idle,
  root, leaf,          \* the two globals of the registry
  mutex,               \* owner of each named mutex
  cs, csDepth,         \* owner and recursion count of htsqlCriticalSection
  pc, ptr, cur, mtx,   \* per thread: position, session, cursor, mutex name
  req, ret, role,      \* per thread: request, return label, list position
  body,                \* per thread: has its context received an upload body?
  crashed,             \* the process died on a null or dangling access
  served,              \* requests accepted so far
  stale,               \* history: threads whose session died under them
  leaks                \* history: early returns that kept the critical section

structVars   == <<mem, sid, readyState, nxt, prv, heap, idle>>
registryVars == <<root, leaf>>
lockVars     == <<mutex, cs, csDepth>>
localVars    == <<ptr, cur, mtx, req, ret, role, body>>
vars == <<structVars, registryVars, lockVars, localVars, pc, crashed, served, stale, leaks>>

ReadyStates == {"INIT", "IN_PROGRESS", "READY", "BEING_KILLED", "KILLED"}

FindLabels     == {"find", "alloc", "setRoot", "setLeaf", "addPrev", "addNext", "addLeaf"}
DispatchLabels == {"dispatch", "parse", "timing", "refresh", "leave", "small", "after"}
DestroyLabels  == {"enter", "unlink1", "unlink2", "tear", "killed", "leaveCS"}
Labels == {"idle", "sweepStart", "sweep", "name", "wait", "check", "initCheck",
           "freeInit", "body", "release"}
          \cup FindLabels \cup DispatchLabels \cup DestroyLabels

Goto(t, label) == pc' = [pc EXCEPT ![t] = label]

NoRequest == [id |-> NULL, kind |-> "page"]

Using(s) == {t \in Threads : ptr[t] = s}

-----------------------------------------------------------------------------
(* The server hands a request to a thread.  A known user sends the id of   *)
(* its cookie; mkStrRandom draws the id of a new user, and ids of users    *)
(* that are alive at the same time are taken to differ.  For a Cookie      *)
(* header without SodiumSessionCookie= GetSodiumSession returns NULL, and  *)
(* the request goes on without a session.                                  *)
FreshIds ==
  {i \in Ids : /\ \A s \in Slots : mem[s] = "live" => sid[s] # i
              /\ \A t \in Threads : pc[t] # "idle" => req[t].id # i}

Accept(t) ==
  /\ pc[t] = "idle"
  /\ served < MaxRequests
  /\ \E i \in Ids \cup {NULL}, known \in BOOLEAN, kind \in Kinds :
       /\ i = NULL => ForeignCookies
       /\ known \/ i \in FreshIds
       /\ req' = [req EXCEPT ![t] = [id |-> i, kind |-> kind]]
       /\ cur' = [cur EXCEPT ![t] = IF known /\ i # NULL THEN root ELSE NULL]
       /\ Goto(t, IF i = NULL THEN "sweepStart"
                  ELSE IF known /\ root # NULL THEN "find" ELSE "alloc")
  /\ served' = served + 1
  /\ UNCHANGED <<structVars, registryVars, lockVars, ptr, mtx, ret, role, body, crashed, stale, leaks>>

(* FindSodiumSessionById, one node of the list at a time.                  *)
MatchesNever(t) == FALSE
Matches(t) == sid[cur[t]] = req[t].id

FindMiss(t) ==
  /\ pc[t] = "find"
  /\ sid[cur[t]] # NULL /\ ~Matches(t)
  /\ cur' = [cur EXCEPT ![t] = nxt[cur[t]]]
  /\ Goto(t, IF nxt[cur[t]] = NULL THEN "alloc" ELSE "find")
  /\ UNCHANGED <<structVars, registryVars, lockVars, ptr, mtx, req, ret, role, body, crashed, served, stale, leaks>>

FindHit(t) ==
  /\ pc[t] = "find"
  /\ Matches(t)
  /\ ptr' = [ptr EXCEPT ![t] = cur[t]]
  /\ cur' = [cur EXCEPT ![t] = NULL]
  /\ stale' = IF mem[cur[t]] = "live" THEN stale ELSE stale \cup {t}
  /\ Goto(t, "sweepStart")
  /\ UNCHANGED <<structVars, registryVars, lockVars, mtx, req, ret, role, body, crashed, served, leaks>>

(* CreateSodiumSession up to the test of the root instance.                *)
Alloc(t) ==
  /\ pc[t] = "alloc"
  /\ \E s \in Slots :
       /\ mem[s] # "live"
       /\ mem' = [mem EXCEPT ![s] = "live"]
       /\ sid' = [sid EXCEPT ![s] = req[t].id]
       /\ readyState' = [readyState EXCEPT ![s] = "INIT"]
       /\ nxt' = [nxt EXCEPT ![s] = NULL]
       /\ prv' = [prv EXCEPT ![s] = NULL]
       /\ heap' = [heap EXCEPT ![s] = TRUE]
       /\ idle' = [idle EXCEPT ![s] = LongUptime]   \* lastActivityTime is 0
       /\ ptr' = [ptr EXCEPT ![t] = s]
  /\ Goto(t, IF root = NULL THEN "setRoot" ELSE "addPrev")
  /\ UNCHANGED <<registryVars, lockVars, cur, mtx, req, ret, role, body, crashed, served, stale, leaks>>

SetRoot(t) ==                \* another thread may have set it meanwhile
  /\ pc[t] = "setRoot"
  /\ root' = IF root = NULL THEN ptr[t] ELSE root
  /\ Goto(t, IF root = NULL THEN "setLeaf" ELSE "sweepStart")
  /\ UNCHANGED <<structVars, leaf, lockVars, localVars, crashed, served, stale, leaks>>

SetLeaf(t) ==                \* also the last write of addMKSessionInstance
  /\ pc[t] \in {"setLeaf", "addLeaf"}
  /\ leaf' = ptr[t]
  /\ Goto(t, "sweepStart")
  /\ UNCHANGED <<structVars, root, lockVars, localVars, crashed, served, stale, leaks>>

AddPrevForgotten(t) ==
  /\ pc[t] = "addPrev"
  /\ Goto(t, "addNext")
  /\ UNCHANGED <<structVars, registryVars, lockVars, localVars, crashed, served, stale, leaks>>
AddPrev(t) ==
  /\ pc[t] = "addPrev"
  /\ prv' = [prv EXCEPT ![ptr[t]] = leaf]
  /\ Goto(t, "addNext")
  /\ UNCHANGED <<mem, sid, readyState, nxt, heap, idle, registryVars, lockVars, localVars, crashed, served, stale, leaks>>

AddNext(t) ==
  /\ pc[t] = "addNext"
  /\ nxt' = [nxt EXCEPT ![leaf] = ptr[t]]
  /\ Goto(t, "addLeaf")
  /\ UNCHANGED <<mem, sid, readyState, prv, heap, idle, registryVars, lockVars, localVars, crashed, served, stale, leaks>>

-----------------------------------------------------------------------------
(* InitCallstack writes into the session, then destroyIdleSessions runs: at *)
(* most one idle session is destroyed per request.                         *)
SweepStart(t) ==
  /\ pc[t] = "sweepStart"
  /\ cur' = [cur EXCEPT ![t] = root]
  /\ Goto(t, IF root = NULL THEN "name" ELSE "sweep")
  /\ UNCHANGED <<structVars, registryVars, lockVars, ptr, mtx, req, ret, role, body, crashed, served, stale, leaks>>

Expired(s) == readyState[s] = "READY" /\ idle[s]

SweepSkip(t) ==
  /\ pc[t] = "sweep"
  /\ ~Expired(cur[t])
  /\ cur' = [cur EXCEPT ![t] = nxt[cur[t]]]
  /\ Goto(t, IF nxt[cur[t]] = NULL THEN "name" ELSE "sweep")
  /\ UNCHANGED <<structVars, registryVars, lockVars, ptr, mtx, req, ret, role, body, crashed, served, stale, leaks>>

SweepKill(t) ==
  /\ pc[t] = "sweep"
  /\ Expired(cur[t])
  /\ ret' = [ret EXCEPT ![t] = "name"]     \* call destroySession(current)
  /\ Goto(t, "enter")
  /\ UNCHANGED <<structVars, registryVars, lockVars, ptr, cur, mtx, req, role, body, crashed, served, stale, leaks>>

(* CreateMutex reads the id of the struct; a null name gives a private     *)
(* mutex, that nobody else waits for.                                      *)
MutexNameLost(t) == NULL
MutexName(t) == sid[ptr[t]]

MayOwnAlways(t) == TRUE
MayOwn(t) == mtx[t] # NULL => mutex[mtx[t]] = NULL

NameMutex(t) ==
  /\ pc[t] = "name"
  /\ mtx' = [mtx EXCEPT ![t] = MutexName(t)]
  /\ Goto(t, "wait")
  /\ UNCHANGED <<structVars, registryVars, lockVars, ptr, cur, req, ret, role, body, crashed, served, stale, leaks>>

WaitMutex(t) ==
  /\ pc[t] = "wait"
  /\ MayOwn(t)
  /\ mutex' = [i \in Ids |-> IF i = mtx[t] THEN t ELSE mutex[i]]
  /\ Goto(t, "check")
  /\ UNCHANGED <<structVars, registryVars, cs, csDepth, localVars, crashed, served, stale, leaks>>

CheckKilled(t) ==
  /\ pc[t] = "check"
  /\ Goto(t, IF readyState[ptr[t]] # "KILLED" THEN "dispatch" ELSE "initCheck")
  /\ UNCHANGED <<structVars, registryVars, lockVars, localVars, crashed, served, stale, leaks>>

-----------------------------------------------------------------------------
(* dispatchRequest: CreateResponse and the page objects need the session   *)
(* heap; then the dispatcher of the request's kind.                        *)
SessionIsDead(t) ==          \* dispatchSmallRequest answers a POST with nothing
  req[t].kind \in SmallPosts /\ readyState[ptr[t]] # "READY"

Dispatch(t) ==
  LET kind  == req[t].kind
      kills == kind = "kill" /\ ~SessionIsDead(t)
  IN /\ pc[t] = "dispatch"
     /\ readyState' = IF kind = "page" THEN [readyState EXCEPT ![ptr[t]] = "IN_PROGRESS"]
                                       ELSE readyState
     /\ cur' = IF kills THEN [cur EXCEPT ![t] = ptr[t]] ELSE cur
     /\ ret' = IF kills THEN [ret EXCEPT ![t] = "small"] ELSE ret
     /\ \E received \in BOOLEAN :  \* in the context the session was created with
          body' = [body EXCEPT ![t] = (kind = "upload" /\ received)]
     /\ Goto(t, CASE kills            -> "enter"
                  [] kind = "page"    -> "parse"
                  [] kind = "upload"  -> "after"
                  [] kind \in {"refresh", "refreshNoConn"} /\ ~SessionIsDead(t) -> "refresh"
                  [] OTHER            -> "small")
     /\ UNCHANGED <<mem, sid, nxt, prv, heap, idle, registryVars, lockVars, ptr, mtx, req, role, crashed, served, stale, leaks>>

EndParse(t) ==               \* the end of ParseFRMXFile needs no session heap
  /\ pc[t] = "parse"
  /\ readyState' = [readyState EXCEPT ![ptr[t]] = "READY"]
  /\ Goto(t, "timing")
  /\ UNCHANGED <<mem, sid, nxt, prv, heap, idle, registryVars, lockVars, localVars, crashed, served, stale, leaks>>

Timing(t) ==                 \* printGetRequestTiming, which does
  /\ pc[t] = "timing"
  /\ Goto(t, "small")
  /\ UNCHANGED <<structVars, registryVars, lockVars, localVars, crashed, served, stale, leaks>>

EnterCSUncounted(t) == cs \in {NULL, t} /\ cs' = t /\ UNCHANGED csDepth
EnterCS(t) ==                \* EnterCriticalSection is recursive
  /\ cs \in {NULL, t}
  /\ cs' = t
  /\ csDepth' = csDepth + 1

LeaveCSForgotten(t) == UNCHANGED <<cs, csDepth>>
LeaveCS(t) ==
  /\ cs' = IF csDepth = 1 THEN NULL ELSE t
  /\ csDepth' = csDepth - 1

(* __sendRefreshBlockNativeResponse: the early returns, for a block        *)
(* without data source or connection, do not leave the critical section.   *)
RefreshBlock(t) ==
  /\ pc[t] = "refresh"
  /\ EnterCS(t)
  /\ Goto(t, IF req[t].kind = "refreshNoConn" THEN "small" ELSE "leave")
  /\ leaks' = leaks + (IF req[t].kind = "refreshNoConn" THEN 1 ELSE 0)
  /\ UNCHANGED <<structVars, registryVars, mutex, localVars, crashed, served, stale>>

RefreshDone(t) ==
  /\ pc[t] = "leave"
  /\ LeaveCS(t)
  /\ Goto(t, "small")
  /\ UNCHANGED <<structVars, registryVars, mutex, localVars, crashed, served, stale, leaks>>

Free(s) ==                   \* the struct goes back to the application heap
  /\ mem' = [mem EXCEPT ![s] = "free"]
  /\ stale' = stale \cup Using(s)

SmallDone(t) ==              \* the end of dispatchSmallRequest
  /\ pc[t] = "small"
  /\ IF readyState[ptr[t]] = "KILLED" THEN Free(ptr[t]) ELSE UNCHANGED <<mem, stale>>
  /\ Goto(t, "after")
  /\ UNCHANGED <<sid, readyState, nxt, prv, heap, idle, registryVars, lockVars, localVars, crashed, served, leaks>>

DispatchDone(t) ==           \* DestroyResponse, lastActivityTime = clock()
  /\ pc[t] = "after"
  /\ idle' = [idle EXCEPT ![ptr[t]] = FALSE]
  /\ Goto(t, "initCheck")
  /\ UNCHANGED <<mem, sid, readyState, nxt, prv, heap, registryVars, lockVars, localVars, crashed, served, stale, leaks>>

-----------------------------------------------------------------------------
(* The end of HandleFrmxRequest. *)
NeverReadyMissed(s) == FALSE
NeverReady(s) == readyState[s] = "INIT"

BodyOrRelease(t) == IF body[t] THEN "body" ELSE "release"

InitCheck(t) ==
  /\ pc[t] = "initCheck"
  /\ cur' = IF NeverReady(ptr[t]) THEN [cur EXCEPT ![t] = ptr[t]] ELSE cur
  /\ ret' = IF NeverReady(ptr[t]) THEN [ret EXCEPT ![t] = "freeInit"] ELSE ret
  /\ Goto(t, IF NeverReady(ptr[t]) THEN "enter" ELSE BodyOrRelease(t))
  /\ UNCHANGED <<structVars, registryVars, lockVars, ptr, mtx, req, role, body, crashed, served, stale, leaks>>

FreeInit(t) ==
  /\ pc[t] = "freeInit"
  /\ Free(ptr[t])
  /\ Goto(t, BodyOrRelease(t))
  /\ UNCHANGED <<sid, readyState, nxt, prv, heap, idle, registryVars, lockVars, localVars, crashed, served, leaks>>

FreeBody(t) ==               \* the body of an upload lives in the session heap
  /\ pc[t] = "body"
  /\ Goto(t, "release")
  /\ UNCHANGED <<structVars, registryVars, lockVars, localVars, crashed, served, stale, leaks>>

Release(t) ==
  /\ pc[t] = "release"
  /\ mutex' = [i \in Ids |-> IF i = mtx[t] THEN NULL ELSE mutex[i]]
  /\ ptr' = [ptr EXCEPT ![t] = NULL]
  /\ cur' = [cur EXCEPT ![t] = NULL]
  /\ mtx' = [mtx EXCEPT ![t] = NULL]
  /\ req' = [req EXCEPT ![t] = NoRequest]
  /\ ret' = [ret EXCEPT ![t] = "name"]
  /\ role' = [role EXCEPT ![t] = "only"]
  /\ body' = [body EXCEPT ![t] = FALSE]
  /\ stale' = stale \ {t}
  /\ Goto(t, "idle")
  /\ UNCHANGED <<structVars, registryVars, cs, csDepth, crashed, served, leaks>>

-----------------------------------------------------------------------------
(* destroySession(cur). *)
DestroyEnter(t) ==           \* then user_session_end runs on the session heap
  /\ pc[t] = "enter"
  /\ EnterCS(t)
  /\ readyState' = [readyState EXCEPT ![cur[t]] = "BEING_KILLED"]
  /\ Goto(t, "unlink1")
  /\ UNCHANGED <<mem, sid, nxt, prv, heap, idle, registryVars, mutex, localVars, crashed, served, stale, leaks>>

RoleOfLeafMissed(s) == IF s = leaf THEN "only" ELSE IF s = root THEN "root" ELSE "middle"
RoleOfRootMissed(s) == IF s = root /\ s = leaf THEN "only" ELSE IF s = leaf THEN "leaf" ELSE "middle"
Role(s) ==
  CASE s # root /\ s # leaf -> "middle"
    [] s = root /\ s # leaf -> "root"
    [] s # root /\ s = leaf -> "leaf"
    [] OTHER                -> "only"

Unlink1(t) ==                \* the first write, by the position in the list
  LET s == cur[t]
      r == Role(s)
  IN /\ pc[t] = "unlink1"
     /\ nxt' = CASE r = "middle" -> [nxt EXCEPT ![prv[s]] = nxt[s]]
                 [] r = "leaf"   -> [nxt EXCEPT ![prv[s]] = NULL]
                 [] OTHER        -> nxt
     /\ prv' = IF r = "root" THEN [prv EXCEPT ![nxt[s]] = NULL] ELSE prv
     /\ role' = [role EXCEPT ![t] = r]
     /\ Goto(t, IF r = "only" THEN "tear" ELSE "unlink2")
     /\ UNCHANGED <<mem, sid, readyState, heap, idle, registryVars, lockVars, ptr, cur, mtx, req, ret, body, crashed, served, stale, leaks>>

Unlink2(t) ==                \* the second write
  LET s == cur[t]
  IN /\ pc[t] = "unlink2"
     /\ prv'  = IF role[t] = "middle" THEN [prv EXCEPT ![nxt[s]] = prv[s]] ELSE prv
     /\ root' = IF role[t] = "root" THEN nxt[s] ELSE root
     /\ leaf' = IF role[t] = "leaf" THEN prv[leaf] ELSE leaf
     /\ Goto(t, "tear")
     /\ UNCHANGED <<mem, sid, readyState, nxt, heap, idle, lockVars, localVars, crashed, served, stale, leaks>>

TearDown(t) ==               \* pages, connections, variables, then the id
  /\ pc[t] = "tear"
  /\ sid' = [sid EXCEPT ![cur[t]] = NULL]
  /\ stale' = stale \cup Using(cur[t])
  /\ Goto(t, "killed")
  /\ UNCHANGED <<mem, readyState, nxt, prv, heap, idle, registryVars, lockVars, localVars, crashed, served, leaks>>

MarkKilledUnmarked(t) ==
  /\ pc[t] = "killed"
  /\ heap' = [heap EXCEPT ![cur[t]] = FALSE]
  /\ Goto(t, "leaveCS")
  /\ UNCHANGED <<mem, sid, readyState, nxt, prv, idle, registryVars, lockVars, localVars, crashed, served, stale, leaks>>
MarkKilled(t) ==             \* the state, then HeapDestroy
  /\ pc[t] = "killed"
  /\ readyState' = [readyState EXCEPT ![cur[t]] = "KILLED"]
  /\ heap' = [heap EXCEPT ![cur[t]] = FALSE]
  /\ Goto(t, "leaveCS")
  /\ UNCHANGED <<mem, sid, nxt, prv, idle, registryVars, lockVars, localVars, crashed, served, stale, leaks>>

DestroyLeave(t) ==           \* and the return to the caller
  /\ pc[t] = "leaveCS"
  /\ root' = IF role[t] = "only" THEN NULL ELSE root
  /\ leaf' = IF role[t] = "only" THEN NULL ELSE leaf
  /\ LeaveCS(t)
  /\ Goto(t, ret[t])
  /\ cur' = [cur EXCEPT ![t] = NULL]
  /\ ret' = [ret EXCEPT ![t] = "name"]
  /\ role' = [role EXCEPT ![t] = "only"]
  /\ UNCHANGED <<structVars, mutex, ptr, mtx, req, body, crashed, served, stale, leaks>>

-----------------------------------------------------------------------------
(* A READY session no request uses stays untouched past the idle limit     *)
(* (a request is taken to be much shorter than the limit).                 *)
TimePasses(s) ==
  /\ SessionsIdle
  /\ mem[s] = "live" /\ readyState[s] = "READY" /\ ~idle[s]
  /\ Using(s) = {}
  /\ idle' = [idle EXCEPT ![s] = TRUE]
  /\ UNCHANGED <<mem, sid, readyState, nxt, prv, heap, registryVars, lockVars, localVars, pc, crashed, served, stale, leaks>>

Init ==
  /\ mem = [s \in Slots |-> "free"]
  /\ sid = [s \in Slots |-> NULL]
  /\ readyState = [s \in Slots |-> "KILLED"]
  /\ nxt = [s \in Slots |-> NULL] /\ prv = [s \in Slots |-> NULL]
  /\ heap = [s \in Slots |-> FALSE] /\ idle = [s \in Slots |-> FALSE]
  /\ root = NULL /\ leaf = NULL
  /\ mutex = [i \in Ids |-> NULL] /\ cs = NULL /\ csDepth = 0
  /\ pc = [t \in Threads |-> "idle"]
  /\ ptr = [t \in Threads |-> NULL] /\ cur = [t \in Threads |-> NULL]
  /\ mtx = [t \in Threads |-> NULL]
  /\ req = [t \in Threads |-> NoRequest]
  /\ ret = [t \in Threads |-> "name"] /\ role = [t \in Threads |-> "only"]
  /\ body = [t \in Threads |-> FALSE]
  /\ crashed = FALSE /\ served = 0 /\ stale = {} /\ leaks = 0

(* The structs the next step of a thread reads or writes.                  *)
Neighbours(t) ==
  CASE pc[t] = "addNext"                                             -> {leaf}
    [] pc[t] = "unlink1" /\ Role(cur[t]) \in {"middle", "leaf"}      -> {prv[cur[t]]}
    [] pc[t] = "unlink1" /\ Role(cur[t]) = "root"                    -> {nxt[cur[t]]}
    [] pc[t] = "unlink2" /\ role[t] = "middle"                       -> {nxt[cur[t]]}
    [] pc[t] = "unlink2" /\ role[t] = "leaf"                         -> {leaf}
    [] OTHER                                                         -> {}

Accessed(t) ==
  Neighbours(t) \cup
  (CASE pc[t] \in {"find", "sweep", "enter", "unlink1", "unlink2", "tear", "killed"} -> {cur[t]}
     [] pc[t] \in {"addPrev", "addNext", "sweepStart", "name", "check", "initCheck",
                   "freeInit"} \cup DispatchLabels                  -> {ptr[t]}
     [] OTHER                                                       -> {})

(* Where the process dies: a null pointer, the heap of a destroyed session *)
(* or a struct freed for the second time.                                  *)
EntersCS(t) == pc[t] \in {"enter", "refresh"} /\ cs \in {NULL, t}

Dies(t) ==
  \/ NULL \in Accessed(t)
  \/ pc[t] = "find" /\ sid[cur[t]] = NULL                  \* strcmp(NULL, ..)
  \/ pc[t] \in {"dispatch", "timing"} /\ ~heap[ptr[t]]
  \/ pc[t] = "after" /\ readyState[ptr[t]] # "KILLED" /\ ~heap[ptr[t]]
  \/ pc[t] = "body" /\ ~heap[ptr[t]]
  \/ pc[t] = "small" /\ readyState[ptr[t]] = "KILLED" /\ mem[ptr[t]] = "free"
  \/ pc[t] = "freeInit" /\ mem[ptr[t]] = "free"
  \/ EntersCS(t) /\ ~heap[IF pc[t] = "enter" THEN cur[t] ELSE ptr[t]]

(* Where it may die: an access to freed memory, and a parse whose session  *)
(* is destroyed before or after its last use of the session heap.          *)
MayDie(t) ==
  \/ \E s \in Accessed(t) \ {NULL} : mem[s] = "free"
  \/ pc[t] = "parse" /\ ~heap[ptr[t]]

Crash(t) ==
  /\ Dies(t) \/ MayDie(t)
  /\ crashed' = TRUE
  /\ UNCHANGED <<structVars, registryVars, lockVars, localVars, pc, served, stale, leaks>>

Step(t) ==
  \/ FindMiss(t) \/ FindHit(t) \/ Alloc(t)
  \/ SetRoot(t) \/ SetLeaf(t) \/ AddPrev(t) \/ AddNext(t)
  \/ SweepStart(t) \/ SweepSkip(t) \/ SweepKill(t)
  \/ NameMutex(t) \/ WaitMutex(t) \/ CheckKilled(t)
  \/ Dispatch(t) \/ EndParse(t) \/ Timing(t) \/ RefreshBlock(t) \/ RefreshDone(t)
  \/ SmallDone(t) \/ DispatchDone(t)
  \/ InitCheck(t) \/ FreeInit(t) \/ FreeBody(t) \/ Release(t)
  \/ DestroyEnter(t) \/ Unlink1(t) \/ Unlink2(t) \/ TearDown(t) \/ MarkKilled(t) \/ DestroyLeave(t)

ThreadStep(t) == Crash(t) \/ (~Dies(t) /\ Step(t))

(* Nothing need happen any more: the process died, a refresh kept the      *)
(* critical section others wait for, or every accepted request is answered *)
(* and the bound is reached.                                               *)
Done ==
  \/ crashed \/ leaks > 0
  \/ served = MaxRequests /\ \A t \in Threads : pc[t] = "idle"

Finished == Done /\ UNCHANGED vars

Next ==
  \/ /\ ~crashed
     /\ \/ \E t \in Threads : Accept(t) \/ ThreadStep(t)
        \/ \E s \in Slots : TimePasses(s)
  \/ Finished

Spec == Init /\ [][Next]_vars

(* Threads are scheduled; a thread waiting for a mutex or for the critical *)
(* section is queued by the kernel and gets it when it is released often   *)
(* enough.  An access to freed memory need never kill the process.  Nothing *)
(* forces a client to send a request.                                      *)
Fairness ==
  \A t \in Threads : SF_vars(~crashed /\ IF Dies(t) THEN Crash(t) ELSE Step(t))

FairSpec == Spec /\ Fairness
-----------------------------------------------------------------------------
(* Properties.                                                             *)

(* Every variable keeps its type; the recursion count of the critical      *)
(* section never drops below zero (a Leave without an Enter).              *)
TypeOK ==
  /\ mem \in [Slots -> {"free", "live"}]
  /\ sid \in [Slots -> Ids \cup {NULL}]
  /\ readyState \in [Slots -> ReadyStates]
  /\ nxt \in [Slots -> Slots \cup {NULL}] /\ prv \in [Slots -> Slots \cup {NULL}]
  /\ heap \in [Slots -> BOOLEAN] /\ idle \in [Slots -> BOOLEAN]
  /\ root \in Slots \cup {NULL} /\ leaf \in Slots \cup {NULL}
  /\ mutex \in [Ids -> Threads \cup {NULL}]
  /\ cs \in Threads \cup {NULL} /\ csDepth \in Nat
  /\ pc \in [Threads -> Labels]
  /\ ptr \in [Threads -> Slots \cup {NULL}] /\ cur \in [Threads -> Slots \cup {NULL}]
  /\ mtx \in [Threads -> Ids \cup {NULL}]
  /\ req \in [Threads -> [id : Ids \cup {NULL}, kind : RequestKinds]]
  /\ ret \in [Threads -> {"name", "small", "freeInit"}]
  /\ role \in [Threads -> {"middle", "root", "leaf", "only"}] /\ body \in [Threads -> BOOLEAN]
  /\ crashed \in BOOLEAN /\ served \in Nat /\ stale \in SUBSET Threads /\ leaks \in Nat

Body == DestroyLabels \ {"enter"}

(* Between WaitForSingleObject and ReleaseMutex. *)
Holding(t) ==
  \/ pc[t] \in DispatchLabels \cup {"check", "initCheck", "freeInit", "body", "release"}
  \/ pc[t] \in DestroyLabels /\ ret[t] # "name"

(* Two threads never hold the same named mutex: requests that read the     *)
(* same session id are served one after the other                          *)
(* (mkWaitTillPreviousRequestOfTheCurrentSessionEnds).                     *)
NamedMutexExclusion ==
  \A t, u \in Threads : Holding(t) /\ Holding(u) /\ mtx[t] # NULL /\ mtx[t] = mtx[u] => t = u

(* Two threads work on one SodiumSession at the same time only if the      *)
(* session was destroyed under one of them: what the mutex does protect,   *)
(* although its name is read from the struct without any lock.             *)
SerialUnlessDestroyed ==
  \A t, u \in Threads :
    t # u /\ Holding(t) /\ Holding(u) /\ ptr[t] = ptr[u] => t \in stale \/ u \in stale

Inside(t) == pc[t] \in Body \cup {"leave"}

(* htsqlCriticalSection belongs to the thread inside destroySession or a   *)
(* block refresh, entered once, plus once for each early return of         *)
(* __sendRefreshBlockNativeResponse so far: while there was none, its      *)
(* owner never waits for the mutex of a session (no lock cycle); after the *)
(* first it is never free again.                                           *)
CSHeldOnlyInside ==
  /\ \A t \in Threads : Inside(t) => cs = t
  /\ csDepth = leaks + (IF \E t \in Threads : Inside(t) THEN 1 ELSE 0)
  /\ cs = NULL <=> csDepth = 0

(* A session that no request completed its page for is never left behind:  *)
(* in state INIT it belongs to the request that created it                 *)
(* (HandleFrmxRequest destroys it, the idle sweep never would).            *)
InitHasRequest ==
  \A s \in Slots : mem[s] = "live" /\ readyState[s] = "INIT" => Using(s) # {}

(* A session is BEING_KILLED only while a thread is inside destroySession  *)
(* for it: the state never survives the destruction.                       *)
BeingKilledHasKiller ==
  \A s \in Slots :
    mem[s] = "live" /\ readyState[s] = "BEING_KILLED"
      => \E t \in Threads : pc[t] \in Body /\ cur[t] = s

(* Whatever a half made or half destroyed session needs, a thread is there  *)
(* to do it: both of the above.                                            *)
UnfinishedHasOwner == InitHasRequest /\ BeingKilledHasKiller

(* A killed struct comes back to life only at the end of a parse that was  *)
(* running when it was destroyed (READY is written over KILLED), and then  *)
(* only as long as that parse's thread has not used the destroyed heap,    *)
(* which kills the process: no request is ever dispatched to it and ends.  *)
RevivedIsDoomed ==
  \A s \in Slots :
    mem[s] = "live" /\ ~heap[s] /\ readyState[s] # "KILLED"
      => \E t \in Threads : ptr[t] = s /\ pc[t] = "timing" /\ Dies(t)

(* The structs a walk along n from x meets: what every set that holds x    *)
(* and is closed under n has in common.                                    *)
Walk(x, n) ==
  {s \in Slots :
     \A S \in SUBSET Slots :
       x \in S \cup {NULL} /\ (\A r \in S : n[r] \in S \cup {NULL}) => s \in S}

(* The list the thread walks has become a circle: unlocked appends and     *)
(* removals can link a reused struct to itself.                            *)
Circling(t) == pc[t] \in {"find", "sweep"} /\ \A s \in Walk(cur[t], nxt) : nxt[s] # NULL

(* Every accepted request ends, with waiting threads served by the kernel  *)
(* in turn, unless the process died, a refresh kept the critical section   *)
(* for good, or the request walks a list that keeps being a circle.        *)
EveryRequestEnds ==
  \A t \in Threads : (pc[t] # "idle") ~> (pc[t] = "idle" \/ crashed \/ leaks > 0 \/ Circling(t))

-----------------------------------------------------------------------------
(* Properties of a server that handles one request at a time.              *)
Quiet == \A t \in Threads : pc[t] = "idle"

Registered == Walk(root, nxt)

(* Between requests the list holds every session that is not killed and    *)
(* nothing else: look-ups and sweeps neither miss one nor meet freed or    *)
(* killed memory.                                                          *)
RegistryHoldsLive ==
  Quiet => Registered = {s \in Slots : mem[s] = "live" /\ readyState[s] # "KILLED"}

(* Between requests next and prev are inverse and the two globals are the  *)
(* ends of the list, so that every later unlink takes the right branch.    *)
RegistryLinked ==
  Quiet =>
    /\ (root = NULL <=> leaf = NULL)
    /\ root # NULL => prv[root] = NULL
    /\ \A s \in Registered : IF nxt[s] = NULL THEN s = leaf ELSE prv[nxt[s]] = s

(* A user has at most one session: two requests with the same cookie never *)
(* end up in different structs (GetSodiumSession).                         *)
OneSessionPerUser ==
  \A r, s \in Slots :
    mem[r] = "live" /\ mem[s] = "live" /\ sid[r] # NULL /\ sid[r] = sid[s] => r = s

(* Served one at a time, users find their own session by the list and      *)
(* nothing else: all of the above (mkSession.c, mkapplication.c).          *)
RegistrySound == RegistryHoldsLive /\ RegistryLinked /\ OneSessionPerUser

(* Three requests a server dies of, one at a time: a Cookie header without *)
(* SodiumSessionCookie= (InitCallstack writes through NULL); a kill, whose *)
(* freed struct dispatchRequest and HandleFrmxRequest go on using; and an  *)
(* upload by a new user, whose body is freed with the freed struct's heap. *)
ForeignCookie(t) == pc[t] = "sweepStart" /\ ptr[t] = NULL /\ req[t].id = NULL
UsedAfterKill(t) == pc[t] \in {"after", "initCheck"} /\ req[t].kind = "kill" /\ mem[ptr[t]] = "free"
FirstUpload(t)   == pc[t] = "body" /\ req[t].kind = "upload" /\ mem[ptr[t]] = "free"

(* Served one at a time, requests meet no other null pointer, destroyed    *)
(* heap or freed struct.                                                   *)
OnlyKnownDeaths ==
  crashed => \E t \in Threads : ForeignCookie(t) \/ UsedAfterKill(t) \/ FirstUpload(t)

(* SodiumSession.h:114 "Cannot be process more than one request from the   *)
(* same session."                                                          *)
OneRequestPerSession ==
  \A t, u \in Threads :
    t # u /\ pc[t] \in DispatchLabels \cup Body /\ pc[u] \in DispatchLabels /\ Holding(t)
      => ptr[t] # ptr[u]
=============================================================================
