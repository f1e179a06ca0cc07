------------------------- MODULE SequentialSessions -------------------------
(***************************************************************************)
(* SodiumSessions with one server thread: the invariant that keeps the     *)
(* linked list of sessions sound, and the abstract service it implements.  *)
(***************************************************************************)
EXTENDS SodiumSessions

TheThread == CHOOSE t \in Threads : TRUE

-----------------------------------------------------------------------------
(* The refinement mapping to SessionService.                               *)
PhaseOf(t) ==
  CASE pc[t] = "idle" -> "free"
    [] pc[t] \in DispatchLabels -> "working"
    [] pc[t] \in DestroyLabels /\ ret[t] = "small" -> "working"
    [] pc[t] \in {"initCheck", "freeInit", "body", "release"} -> "done"
    [] pc[t] \in DestroyLabels /\ ret[t] = "freeInit" -> "done"
    [] OTHER -> "arrived"

OpenIds == {sid[s] : s \in Registered} \ {NULL}

Service ==
  INSTANCE SessionService WITH
    open   <- OpenIds,
    client <- req[TheThread].id,
    phase  <- PhaseOf(TheThread)

(* A server that handles one request at a time implements SessionService:  *)
(* every write to the linked list opens or closes at most one session.     *)
ImplementsService == Service!Spec

-----------------------------------------------------------------------------
(* A doubly linked list from r to l whose nodes are the structs of M.      *)
IsList(M, n, p, r, l) ==
  /\ r \in M \cup {NULL} /\ l \in M \cup {NULL}
  /\ r = NULL <=> l = NULL
  /\ M = Walk(r, n)
  /\ r # NULL => p[r] = NULL /\ n[l] = NULL
  /\ \A s \in M : IF n[s] = NULL THEN s = l ELSE n[s] \in M /\ p[n[s]] = s
  /\ \A s \in M : IF p[s] = NULL THEN s = r ELSE p[s] \in M /\ n[p[s]] = s

(* The next, previous, root and leaf once the thread has done the writes   *)
(* that are left of the insertion or removal it is in.                     *)
Adding == {"setRoot", "setLeaf", "addPrev", "addNext", "addLeaf"}

RoleAhead(t) == IF pc[t] = "unlink1" THEN Role(cur[t]) ELSE role[t]

NxtAhead(t) ==
  LET s == cur[t]
      r == RoleAhead(t)
  IN CASE pc[t] \in {"addPrev", "addNext"}      -> [nxt EXCEPT ![leaf] = ptr[t]]
       [] pc[t] = "unlink1" /\ r = "middle"     -> [nxt EXCEPT ![prv[s]] = nxt[s]]
       [] pc[t] = "unlink1" /\ r = "leaf"       -> [nxt EXCEPT ![prv[s]] = NULL]
       [] OTHER                                 -> nxt

PrvAhead(t) ==
  LET s == cur[t]
      r == RoleAhead(t)
  IN CASE pc[t] = "addPrev"                     -> [prv EXCEPT ![ptr[t]] = leaf]
       [] pc[t] = "unlink1" /\ r = "root"       -> [prv EXCEPT ![nxt[s]] = NULL]
       [] pc[t] \in {"unlink1", "unlink2"} /\ r = "middle"
                                                -> [prv EXCEPT ![nxt[s]] = prv[s]]
       [] OTHER                                 -> prv

RootAhead(t) ==
  LET r == RoleAhead(t)
  IN CASE pc[t] = "setRoot"                     -> ptr[t]
       [] pc[t] \in {"unlink1", "unlink2"} /\ r = "root" -> nxt[cur[t]]
       [] pc[t] \in Body /\ r = "only"          -> NULL
       [] OTHER                                 -> root

LeafAhead(t) ==
  LET r == RoleAhead(t)
  IN CASE pc[t] \in Adding                      -> ptr[t]
       [] pc[t] \in {"unlink1", "unlink2"} /\ r = "leaf" -> prv[leaf]
       [] pc[t] \in Body /\ r = "only"          -> NULL
       [] OTHER                                 -> leaf

Members    == {s \in Slots : mem[s] = "live" /\ readyState[s] # "KILLED"}
Leaving(t) == {s \in Slots : pc[t] \in Body /\ s = cur[t]}

(* The pending writes leave a list of the sessions that stay.              *)
ListAhead(t) ==
  IsList(Members \ Leaving(t), NxtAhead(t), PrvAhead(t), RootAhead(t), LeafAhead(t))

(* A write that is left goes to a session that is not killed.              *)
WritesLand(t) ==
  /\ pc[t] = "setRoot" => root = NULL
  /\ pc[t] \in {"addPrev", "addNext"} => leaf \in Members \ {ptr[t]}
  /\ pc[t] = "unlink1" =>
       /\ Role(cur[t]) = "middle" => prv[cur[t]] \in Members \ {cur[t]} /\ nxt[cur[t]] \in Members
       /\ Role(cur[t]) = "leaf" => prv[cur[t]] \in Members
       /\ Role(cur[t]) = "root" => nxt[cur[t]] \in Members
  /\ pc[t] = "unlink2" =>
       /\ role[t] # "only"
       /\ role[t] = "middle" => nxt[cur[t]] \in Members
       /\ role[t] = "leaf" => leaf \in Members

(* A session that is not killed has its heap and, until it is torn down,   *)
(* an id of its own; a killed one has lost its id.                         *)
IdsOwned(t) ==
  /\ \A s \in Members : heap[s]
  /\ \A s \in Slots : mem[s] = "live" /\ readyState[s] = "KILLED" => sid[s] = NULL
  /\ \A s \in Members : sid[s] = NULL => pc[t] = "killed" /\ s = cur[t]
  /\ pc[t] \in {"killed", "leaveCS"} => sid[cur[t]] = NULL
  /\ OneSessionPerUser

(* No session with the wanted id lies behind the cursor of a look-up, and  *)
(* a new session is only made for an id that has none.                     *)
NotPassed(t) ==
  \A s \in Members :
    sid[s] = req[t].id =>
      /\ pc[t] # "alloc"
      /\ pc[t] = "find" => s \in Walk(cur[t], nxt)

(* What the thread's two pointers point to.                                *)
PointersGood(t) ==
  /\ pc[t] \in {"find", "sweep", "enter"} => cur[t] \in Members
  /\ pc[t] \in Body \ {"leaveCS"} => cur[t] \in Members /\ readyState[cur[t]] = "BEING_KILLED"
  /\ pc[t] = "leaveCS" => mem[cur[t]] = "live" /\ readyState[cur[t]] = "KILLED"
  /\ pc[t] = "freeInit" => readyState[ptr[t]] = "KILLED"
  /\ pc[t] \in Adding \cup {"sweep", "dispatch", "parse", "timing", "refresh", "leave"}
       => ptr[t] \in Members
  /\ pc[t] = "sweepStart" => ptr[t] \in Members \/ ForeignCookie(t)
  /\ pc[t] \in {"name", "wait", "check", "small", "freeInit"} \cup DestroyLabels
       => ptr[t] \in Slots /\ mem[ptr[t]] = "live"
  /\ pc[t] \in {"after", "initCheck"} =>
       ptr[t] \in Members \/ (ptr[t] \in Slots /\ readyState[ptr[t]] = "KILLED")

(* What a walk from the root meets while writes are left.                  *)
WalkNow(t) ==
  /\ pc[t] \in {"setRoot", "addPrev", "addNext"} => Registered = Members \ {ptr[t]}
  /\ pc[t] = "unlink1" \/ (pc[t] = "unlink2" /\ role[t] = "root") => Registered = Members
  /\ pc[t] \in {"tear", "killed", "leaveCS"} /\ role[t] = "only" => Registered = {cur[t]}

(* A request works on the session of its user, and its user has no other.  *)
OwnSession(t) ==
  pc[t] \notin {"idle", "find", "alloc"} /\ ptr[t] # NULL =>
    /\ req[t].id # NULL /\ sid[ptr[t]] \in {req[t].id, NULL}
    /\ \A s \in Members : sid[s] = req[t].id => s = ptr[t]

(* Only a request that killed its session, or an upload that never got one *)
(* ready, goes on with a freed struct.                                     *)
FreedUnder(t) ==
  /\ pc[t] \in {"after", "initCheck"} /\ mem[ptr[t]] = "free" => req[t].kind = "kill"
  /\ pc[t] = "small" /\ readyState[ptr[t]] = "KILLED"         => req[t].kind = "kill"
  /\ pc[t] \in DestroyLabels /\ ret[t] = "small"             => req[t].kind = "kill"
  /\ pc[t] = "body" => body[t] /\ (ptr[t] \in Members \/ mem[ptr[t]] = "free")
  /\ body[t] =>
       /\ req[t].kind = "upload"
       /\ \/ pc[t] \in {"freeInit", "body", "release"}
          \/ pc[t] \in {"after", "initCheck"} /\ ptr[t] \in Members
          \/ pc[t] \in DestroyLabels /\ ret[t] = "freeInit"

SequentialInv ==
  \A t \in Threads :
    /\ ListAhead(t) /\ WritesLand(t) /\ IdsOwned(t)
    /\ NotPassed(t) /\ PointersGood(t) /\ FreedUnder(t)
    /\ WalkNow(t) /\ OwnSession(t)
=============================================================================
