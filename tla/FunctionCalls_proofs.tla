------------------------- MODULE FunctionCalls_proofs -------------------------
(***************************************************************************)
(* Proofs about FunctionCalls: types, returned values, the connection a    *)
(* function works on, the depth that is counted and how a return unwinds.  *)
(* The invariant says of each function on the stack what its parses are,   *)
(* and of each caller and the function it called that the caller waits,    *)
(* has got the value if there is one, and will find its connection again   *)
(* when the called function restores it.                                   *)
(***************************************************************************)
EXTENDS FunctionCalls, SequenceTheorems, TLAPS

FrameOK(fr) ==
  /\ fr \in Frame
  /\ fr.blocks # <<>> <=> fr.phase = "run"
  /\ fr.blocks # <<>> => fr.blocks[1].kind = "body"
  /\ \A k \in 1 .. Len(fr.blocks) - 1 : fr.blocks[k].kind \in StatementKinds
  /\ fr.returning => fr.phase = "run" /\ fr.blocks[Len(fr.blocks)].kind \in StatementKinds
  /\ fr.returned # NULL => fr.returning /\ fr.slot = fr.returned

(* The connection a function counts on, and the one that will be active    *)
(* when the function it called has ended.                                  *)
Expects(fr)   == IF fr.phase = "run" THEN fr.conn ELSE fr.backup
Leaves(fr, c) == IF fr.phase = "enter" THEN c ELSE fr.backup

Link(a, b, c) ==             \* a caller, the function it called, the active connection
  /\ a.phase # "enter" /\ ~a.returning
  /\ b.returned # NULL => a.slot = b.returned
  /\ Expects(a) # NULL => Leaves(b, c) = Expects(a)

Stack(fs, c) ==
  /\ fs \in Seq(Frame)
  /\ \A i \in 1 .. Len(fs) : FrameOK(fs[i])
  /\ \A i \in 1 .. Len(fs) - 1 : Link(fs[i], fs[i + 1], c)
  /\ fs # <<>> => fs[1].by = "engine"

OnTop(fs, c) ==              \* the function that runs finds the connection it counts on
  fs # <<>> /\ fs[Len(fs)].phase # "enter" /\ Expects(fs[Len(fs)]) # NULL => c = Expects(fs[Len(fs)])

BackedBy(fs, r) == \A i \in 1 .. Len(fs) : fs[i].backup # NULL => r # NULL

Counted(fs, d) == d = IF fs # <<>> /\ fs[Len(fs)].phase = "enter" THEN Len(fs) - 1 ELSE Len(fs)

RestOK ==
  /\ stop \in BOOLEAN /\ test \in BOOLEAN /\ crashed \in BOOLEAN
  /\ active \in OrNull(Conns) /\ root \in OrNull(Conns)
  /\ handle \in [Conns -> {"none", "open", "dangling"}]
  /\ depth \in Int /\ steps \in Nat /\ overtaken \in BOOLEAN
  /\ active = NULL <=> root = NULL
  /\ \A c \in Conns : handle[c] # "none" => root # NULL

ToldOK ==
  /\ told \in [value : OrNull(Values), returned : OrNull(Values), reported : BOOLEAN]
  /\ ReturnedValueArrives

IInv ==
  /\ RestOK /\ ToldOK
  /\ Stack(frames, active) /\ OnTop(frames, active) /\ BackedBy(frames, root)
  /\ ~overtaken => Counted(frames, depth)

-----------------------------------------------------------------------------
(* What the steps do to the stack.                                         *)

LEMMA LastFrame ==
  ASSUME NEW c, Stack(frames, c), frames # <<>>
  PROVE  /\ Len(frames) \in Nat /\ Len(frames) >= 1 /\ Top \in Frame /\ FrameOK(Top)
         /\ Len(frames) > 1 => Caller \in Frame /\ FrameOK(Caller) /\ Link(Caller, Top, c)
<1>1. Len(frames) \in Nat /\ Len(frames) >= 1
  BY DEF Stack
<1>2. Top \in Frame /\ FrameOK(Top)
  BY <1>1 DEF Stack, Top
<1>3. ASSUME Len(frames) > 1
      PROVE  Caller \in Frame /\ FrameOK(Caller) /\ Link(Caller, Top, c)
  <2>1. Len(frames) - 1 \in 1 .. Len(frames) - 1 /\ Len(frames) - 1 \in 1 .. Len(frames)
    BY <1>1, <1>3
  <2>2. Link(frames[Len(frames) - 1], frames[Len(frames) - 1 + 1], c)
    BY <2>1 DEF Stack
  <2>3. Len(frames) - 1 + 1 = Len(frames)
    BY <1>1
  <2> QED
    BY <2>1, <2>2, <2>3 DEF Stack, Top, Caller
<1> QED
  BY <1>1, <1>2, <1>3

(* No function that called another one is about to enter: what is active   *)
(* matters to the innermost one only.                                      *)
LEMMA OtherConnection ==
  ASSUME NEW a, NEW b, NEW c, NEW d, Link(a, b, c), b.phase # "enter"
  PROVE  Link(a, b, d)
BY DEF Link, Leaves

(* The innermost function changes.                                         *)
LEMMA TopSet ==
  ASSUME NEW c, NEW d, Stack(frames, c), frames # <<>>,
         NEW fr, FrameOK(fr), fr.by = Top.by,
         Len(frames) > 1 => Link(Caller, fr, d)
  PROVE  /\ Stack(SetTop(fr), d) /\ SetTop(fr) # <<>>
         /\ Len(SetTop(fr)) = Len(frames) /\ SetTop(fr)[Len(frames)] = fr
         /\ \A i \in 1 .. Len(frames) : SetTop(fr)[i] = IF i = Len(frames) THEN fr ELSE frames[i]
<1> DEFINE n  == Len(frames)
           gs == SetTop(fr)
<1>1. n \in Nat /\ n >= 1 /\ frames \in Seq(Frame) /\ fr \in Frame
  BY LastFrame DEF Stack, FrameOK
<1>2. /\ gs \in Seq(Frame) /\ Len(gs) = n /\ gs # <<>>
      /\ \A i \in 1 .. n : gs[i] = IF i = n THEN fr ELSE frames[i]
  BY <1>1 DEF SetTop
<1>3. Top = frames[n] /\ (n > 1 => Caller = frames[n - 1])
  BY DEF Top, Caller
<1>4. /\ \A i \in 1 .. n : FrameOK(frames[i])
      /\ \A i \in 1 .. n - 1 : Link(frames[i], frames[i + 1], c)
      /\ frames[1].by = "engine"
  BY DEF Stack
<1> HIDE DEF n, gs
<1>5. \A i \in 1 .. Len(gs) : FrameOK(gs[i])
  BY <1>2, <1>4
<1>6. gs[1].by = "engine"
  BY <1>1, <1>2, <1>3, <1>4
<1>7. ASSUME NEW i \in 1 .. n - 1
      PROVE  Link(gs[i], gs[i + 1], d)
  <2>1. i \in 1 .. n /\ i # n /\ i + 1 \in 1 .. n /\ gs[i] = frames[i]
    BY <1>1, <1>2
  <2>2. CASE i + 1 = n
    <3>1. gs[i + 1] = fr /\ n > 1 /\ i = n - 1
      BY <1>1, <1>2, <2>1, <2>2
    <3> QED
      BY <1>3, <2>1, <3>1 DEF n
  <2>3. CASE i + 1 # n
    <3>1. gs[i + 1] = frames[i + 1] /\ i + 1 \in 1 .. n - 1
      BY <1>1, <1>2, <2>1, <2>3
    <3>2. frames[i + 1].phase # "enter"
      BY <1>4, <3>1 DEF Link
    <3>3. Link(frames[i], frames[i + 1], c)
      BY <1>4
    <3> QED
      BY <2>1, <3>1, <3>2, <3>3, OtherConnection
  <2> QED
    BY <2>2, <2>3
<1>8. \A i \in 1 .. Len(gs) - 1 : Link(gs[i], gs[i + 1], d)
  BY <1>2, <1>7
<1>9. Stack(gs, d)
  BY <1>2, <1>5, <1>6, <1>8 DEF Stack
<1>10. n \in 1 .. n
  BY <1>1
<1> QED
  BY <1>2, <1>9, <1>10 DEF n, gs

(* A function is called on a stack.                                        *)
LEMMA Pushed ==
  ASSUME NEW fs, NEW c, Stack(fs, c), fs # <<>>, NEW nf, FrameOK(nf), Link(fs[Len(fs)], nf, c)
  PROVE  /\ Stack(Append(fs, nf), c) /\ Append(fs, nf) # <<>>
         /\ Len(Append(fs, nf)) = Len(fs) + 1 /\ Append(fs, nf)[Len(fs) + 1] = nf
         /\ \A i \in 1 .. Len(fs) : Append(fs, nf)[i] = fs[i]
<1> DEFINE n  == Len(fs)
           gs == Append(fs, nf)
<1>1. n \in Nat /\ n >= 1 /\ fs \in Seq(Frame) /\ nf \in Frame
  BY DEF Stack, FrameOK
<1>2. /\ gs \in Seq(Frame) /\ Len(gs) = n + 1 /\ gs # <<>> /\ gs[n + 1] = nf
      /\ \A i \in 1 .. n : gs[i] = fs[i]
  BY <1>1
<1>3. /\ \A i \in 1 .. n : FrameOK(fs[i])
      /\ \A i \in 1 .. n - 1 : Link(fs[i], fs[i + 1], c)
      /\ fs[1].by = "engine"
  BY DEF Stack
<1> HIDE DEF n, gs
<1>4. \A i \in 1 .. Len(gs) : FrameOK(gs[i])
  BY <1>1, <1>2, <1>3
<1>5. gs[1].by = "engine"
  BY <1>1, <1>2, <1>3
<1>6. ASSUME NEW i \in 1 .. n
      PROVE  Link(gs[i], gs[i + 1], c)
  <2>1. CASE i = n
    BY <1>1, <1>2, <2>1 DEF n
  <2>2. CASE i # n
    <3>1. i \in 1 .. n - 1 /\ gs[i] = fs[i] /\ gs[i + 1] = fs[i + 1]
      BY <1>1, <1>2, <2>2
    <3> QED
      BY <1>3, <3>1
  <2> QED
    BY <2>1, <2>2
<1>7. \A i \in 1 .. Len(gs) - 1 : Link(gs[i], gs[i + 1], c)
  BY <1>1, <1>2, <1>6
<1>8. Stack(gs, c)
  BY <1>2, <1>4, <1>5, <1>7 DEF Stack
<1> QED
  BY <1>2, <1>8 DEF n, gs

(* The innermost function ends.                                            *)
LEMMA OneLess ==
  ASSUME NEW c, NEW d, Stack(frames, c), frames # <<>>
  PROVE  /\ Stack(Popped, d) /\ Len(Popped) = Len(frames) - 1
         /\ \A i \in 1 .. Len(frames) - 1 : Popped[i] = frames[i]
<1> DEFINE n  == Len(frames)
           gs == Popped
<1>1. n \in Nat /\ n >= 1 /\ frames \in Seq(Frame)
  BY LastFrame DEF Stack
<1>2. /\ gs \in Seq(Frame) /\ Len(gs) = n - 1
      /\ \A i \in 1 .. n - 1 : gs[i] = frames[i]
  <2>1. \A i \in 1 .. n - 1 : frames[i] \in Frame
    BY <1>1
  <2>2. 1 \in Int /\ n - 1 \in Int
    BY <1>1
  <2>3. /\ SubSeq(frames, 1, n - 1) \in Seq(Frame)
        /\ Len(SubSeq(frames, 1, n - 1)) = IF 1 <= n - 1 THEN n - 1 - 1 + 1 ELSE 0
        /\ \A i \in 1 .. n - 1 - 1 + 1 : SubSeq(frames, 1, n - 1)[i] = frames[1 + i - 1]
    BY <2>1, <2>2, SubSeqProperties
  <2>4. gs = SubSeq(frames, 1, n - 1)
    BY DEF Popped
  <2>5. \A i \in 1 .. n - 1 : 1 + i - 1 = i
    OBVIOUS
  <2> HIDE DEF n, gs
  <2> QED
    BY <1>1, <2>3, <2>4, <2>5
<1>3. /\ \A i \in 1 .. n : FrameOK(frames[i])
      /\ \A i \in 1 .. n - 1 : Link(frames[i], frames[i + 1], c)
      /\ frames[1].by = "engine"
  BY DEF Stack
<1> HIDE DEF n, gs
<1>4. ASSUME NEW i \in 1 .. n - 2
      PROVE  Link(gs[i], gs[i + 1], d)
  <2>1. i \in 1 .. n - 1 /\ i + 1 \in 1 .. n - 1 /\ gs[i] = frames[i] /\ gs[i + 1] = frames[i + 1]
    BY <1>1, <1>2
  <2>2. frames[i + 1].phase # "enter" /\ Link(frames[i], frames[i + 1], c)
    BY <1>3, <2>1 DEF Link
  <2> QED
    BY <2>1, <2>2, OtherConnection
<1>5. /\ \A i \in 1 .. Len(gs) : FrameOK(gs[i])
      /\ \A i \in 1 .. Len(gs) - 1 : Link(gs[i], gs[i + 1], d)
      /\ gs # <<>> => gs[1].by = "engine"
  <2>1. Len(gs) - 1 = n - 2
    BY <1>1, <1>2
  <2>2. gs # <<>> => 1 \in 1 .. n - 1
    BY <1>1, <1>2
  <2>3. \A i \in 1 .. n - 1 : i \in 1 .. n
    BY <1>1
  <2> QED
    BY <1>2, <1>3, <1>4, <2>1, <2>2, <2>3
<1>6. Stack(gs, d)
  BY <1>2, <1>5 DEF Stack
<1> QED
  BY <1>2, <1>6 DEF n, gs
-----------------------------------------------------------------------------
(* What the steps do to the innermost function.                            *)

FramesInv ==
  /\ Stack(frames, active) /\ OnTop(frames, active) /\ BackedBy(frames, root)
  /\ ~overtaken => Counted(frames, depth)

(* The parses of a function that runs.                                     *)
LEMMA Parses ==
  ASSUME FrameOK(Top), Top.phase = "run"
  PROVE  /\ Top.blocks \in Seq(Block) /\ Len(Top.blocks) \in Nat /\ Len(Top.blocks) >= 1
         /\ Innermost \in Block
         /\ Innermost.kind # "body" => Len(Top.blocks) >= 2
         /\ Innermost.kind \notin StatementKinds => ~Top.returning /\ Top.returned = NULL
<1>1. Top.blocks \in Seq(Block) /\ Top.blocks # <<>> /\ Top.blocks[1].kind = "body"
  BY DEF FrameOK, Frame
<1>2. Len(Top.blocks) \in Nat /\ Len(Top.blocks) >= 1
  BY <1>1
<1>3. Innermost \in Block
  BY <1>1, <1>2 DEF Innermost
<1>4. Innermost.kind # "body" => Len(Top.blocks) >= 2
  BY <1>1, <1>2 DEF Innermost
<1>5. Innermost.kind \notin StatementKinds => ~Top.returning /\ Top.returned = NULL
  BY DEF FrameOK, Innermost
<1> QED
  BY <1>1, <1>2, <1>3, <1>4, <1>5

(* Any parse may be opened where statements are executed.                  *)
LEMMA Opened ==
  ASSUME FrameOK(Top), Top.phase = "run", ~Top.returning, Innermost.kind \in StatementKinds,
         NEW kind \in Kinds
  PROVE  /\ FrameOK(Open(kind)) /\ Open(kind).by = Top.by /\ Open(kind).phase = Top.phase
         /\ Open(kind).backup = Top.backup /\ Open(kind).conn = Top.conn
         /\ Open(kind).returning = Top.returning /\ Open(kind).returned = Top.returned
<1> DEFINE n  == Len(Top.blocks)
           b  == [kind |-> kind, saved |-> FALSE]
           bs == Append(Top.blocks, b)
           fr == Open(kind)
<1>1. /\ Top \in Frame /\ Top.blocks \in Seq(Block) /\ n \in Nat /\ n >= 1
      /\ Top.blocks[1].kind = "body" /\ Top.blocks # <<>>
      /\ \A k \in 1 .. n - 1 : Top.blocks[k].kind \in StatementKinds
      /\ Top.blocks[n].kind \in StatementKinds
      /\ Top.returned = NULL
  BY Parses DEF FrameOK, Innermost
<1>2. b \in Block
  BY DEF Block
<1>3. bs \in Seq(Block) /\ Len(bs) = n + 1 /\ \A k \in 1 .. n : bs[k] = Top.blocks[k]
  BY <1>1, <1>2
<1>4. fr = [Top EXCEPT !.blocks = bs]
  BY DEF Open
<1> HIDE DEF n, b, bs, fr
<1>5. /\ fr \in Frame /\ fr.blocks = bs /\ fr.by = Top.by /\ fr.phase = Top.phase
      /\ fr.backup = Top.backup /\ fr.conn = Top.conn
      /\ fr.returning = Top.returning /\ fr.returned = Top.returned /\ fr.slot = Top.slot
  BY <1>1, <1>3, <1>4 DEF Frame
<1>6. bs # <<>> /\ bs[1].kind = "body" /\ \A k \in 1 .. Len(bs) - 1 : bs[k].kind \in StatementKinds
  BY <1>1, <1>3 DEF n
<1>7. FrameOK(fr)
  BY <1>1, <1>5, <1>6 DEF FrameOK
<1> QED
  BY <1>5, <1>7 DEF fr

(* ... and any but the body's may end.                                     *)
LEMMA Closed ==
  ASSUME FrameOK(Top), Top.phase = "run", Innermost.kind # "body"
  PROVE  /\ FrameOK(Close) /\ Close.by = Top.by /\ Close.phase = Top.phase
         /\ Close.backup = Top.backup /\ Close.conn = Top.conn
         /\ Close.returning = Top.returning /\ Close.returned = Top.returned
         /\ Close.slot = Top.slot /\ Len(Close.blocks) = Len(Top.blocks) - 1
         /\ Close.blocks[Len(Close.blocks)].kind \in StatementKinds
         /\ Close \in Frame
<1> DEFINE n  == Len(Top.blocks)
           bs == SubSeq(Top.blocks, 1, n - 1)
<1>1. /\ Top \in Frame /\ Top.blocks \in Seq(Block) /\ n \in Nat /\ n >= 2
      /\ Top.blocks[1].kind = "body"
      /\ \A k \in 1 .. n - 1 : Top.blocks[k].kind \in StatementKinds
  BY Parses DEF FrameOK, Innermost
<1>2. bs \in Seq(Block) /\ Len(bs) = n - 1 /\ \A k \in 1 .. n - 1 : bs[k] = Top.blocks[k]
  <2>1. \A k \in 1 .. n - 1 : Top.blocks[k] \in Block
    BY <1>1
  <2>2. 1 \in Int /\ n - 1 \in Int
    BY <1>1
  <2>3. /\ bs \in Seq(Block)
        /\ Len(bs) = IF 1 <= n - 1 THEN n - 1 - 1 + 1 ELSE 0
        /\ \A k \in 1 .. n - 1 - 1 + 1 : bs[k] = Top.blocks[1 + k - 1]
    BY <2>1, <2>2, SubSeqProperties
  <2>4. \A k \in 1 .. n - 1 : 1 + k - 1 = k
    OBVIOUS
  <2> HIDE DEF n, bs
  <2> QED
    BY <1>1, <2>3, <2>4
<1>3. /\ Close \in Frame /\ Close.blocks = bs /\ Close.by = Top.by /\ Close.phase = Top.phase
      /\ Close.backup = Top.backup /\ Close.conn = Top.conn
      /\ Close.returning = Top.returning /\ Close.returned = Top.returned /\ Close.slot = Top.slot
  BY <1>1, <1>2 DEF Close, Frame
<1> HIDE DEF n, bs
<1>4. /\ bs # <<>> /\ bs[1].kind = "body" /\ bs[Len(bs)].kind \in StatementKinds
      /\ \A k \in 1 .. Len(bs) - 1 : bs[k].kind \in StatementKinds
  BY <1>1, <1>2
<1>5. FrameOK(Close)
  BY <1>3, <1>4 DEF FrameOK
<1> QED
  BY <1>2, <1>3, <1>4, <1>5 DEF n

(* ... or turn into another one, in a function that does not return.       *)
LEMMA Turned ==
  ASSUME FrameOK(Top), Top.phase = "run", Innermost.kind # "body", ~Top.returning,
         NEW kind \in Kinds, NEW saved \in BOOLEAN
  PROVE  LET fr == TurnInto(kind, saved)
         IN /\ FrameOK(fr) /\ fr.by = Top.by /\ fr.phase = Top.phase
            /\ fr.backup = Top.backup /\ fr.conn = Top.conn
            /\ fr.returning = Top.returning /\ fr.returned = Top.returned
<1> DEFINE n  == Len(Top.blocks)
           b  == [kind |-> kind, saved |-> saved]
           bs == [Top.blocks EXCEPT ![n] = b]
           fr == TurnInto(kind, saved)
<1>1. /\ Top \in Frame /\ Top.blocks \in Seq(Block) /\ n \in Nat /\ n >= 2
      /\ Top.blocks[1].kind = "body" /\ Top.returned = NULL
      /\ \A k \in 1 .. n - 1 : Top.blocks[k].kind \in StatementKinds
  BY Parses DEF FrameOK
<1>2. b \in Block
  BY DEF Block
<1>3. bs \in Seq(Block) /\ Len(bs) = n /\ \A k \in 1 .. n - 1 : bs[k] = Top.blocks[k]
  BY <1>1, <1>2
<1>4. fr = [Top EXCEPT !.blocks = bs]
  BY DEF TurnInto
<1> HIDE DEF n, b, bs, fr
<1>5. /\ fr \in Frame /\ fr.blocks = bs /\ fr.by = Top.by /\ fr.phase = Top.phase
      /\ fr.backup = Top.backup /\ fr.conn = Top.conn
      /\ fr.returning = Top.returning /\ fr.returned = Top.returned /\ fr.slot = Top.slot
  BY <1>1, <1>3, <1>4 DEF Frame
<1>6. /\ bs # <<>> /\ bs[1].kind = "body"
      /\ \A k \in 1 .. Len(bs) - 1 : bs[k].kind \in StatementKinds
  BY <1>1, <1>3
<1>7. FrameOK(fr)
  BY <1>1, <1>5, <1>6 DEF FrameOK
<1> QED
  BY <1>5, <1>7 DEF fr

(* The innermost function goes on: its connection and its caller are what  *)
(* they were.                                                              *)
LEMMA GoesOn ==
  ASSUME IInv, Running,
         NEW fr, FrameOK(fr), fr.by = Top.by, fr.phase = Top.phase, fr.backup = Top.backup,
         fr.conn = Top.conn, fr.returned = Top.returned,
         frames' = SetTop(fr), UNCHANGED <<active, root, depth, overtaken>>
  PROVE  FramesInv'
<1>1. Stack(frames, active) /\ frames # <<>> /\ Top.phase = "run"
  BY DEF IInv, Running
<1>2. Len(frames) > 1 => Link(Caller, fr, active)
  BY <1>1, LastFrame DEF Link, Leaves
<1>3. /\ Stack(SetTop(fr), active) /\ SetTop(fr) # <<>>
      /\ Len(SetTop(fr)) = Len(frames) /\ SetTop(fr)[Len(frames)] = fr
      /\ \A i \in 1 .. Len(frames) : SetTop(fr)[i] = IF i = Len(frames) THEN fr ELSE frames[i]
  BY <1>1, <1>2, TopSet
<1> DEFINE gs == SetTop(fr)
<1> HIDE DEF gs
<1>4. OnTop(gs, active)
  BY <1>1, <1>3 DEF OnTop, Expects, IInv, Top, gs
<1>5. BackedBy(gs, root)
  BY <1>1, <1>3 DEF BackedBy, IInv, Top, gs
<1>6. ~overtaken => Counted(gs, depth)
  BY <1>1, <1>3 DEF Counted, IInv, Top, gs
<1>7. Stack(gs, active) /\ frames' = gs
  BY <1>3 DEF gs
<1> QED
  BY <1>4, <1>5, <1>6, <1>7 DEF FramesInv

(* It calls another one, on the connection it counts on.                   *)
LEMMA Calls ==
  ASSUME IInv, Running, ~Top.returning, NEW f \in Functions, NEW by \in {"engine", "htsql"},
         NEW used \in {"no", "plain", "args"},
         frames' = Append(frames, NewFrame(f, by, used)), UNCHANGED <<active, root, depth, overtaken>>
  PROVE  FramesInv'
<1> DEFINE nf == NewFrame(f, by, used)
<1>1. Stack(frames, active) /\ frames # <<>> /\ Top.phase = "run"
  BY DEF IInv, Running
<1>2. /\ FrameOK(nf) /\ nf.phase = "enter" /\ nf.returned = NULL /\ nf.backup = NULL
  BY DEF FrameOK, NewFrame, Frame, OrNull
<1> HIDE DEF nf
<1>3. Link(Top, nf, active)
  BY <1>1, <1>2 DEF Link, Leaves, IInv, OnTop, Top
<1>4. /\ Stack(Append(frames, nf), active) /\ Append(frames, nf) # <<>>
      /\ Len(Append(frames, nf)) = Len(frames) + 1 /\ Append(frames, nf)[Len(frames) + 1] = nf
      /\ \A i \in 1 .. Len(frames) : Append(frames, nf)[i] = frames[i]
  BY <1>1, <1>2, <1>3, Pushed DEF Top
<1>5. Len(frames) \in Nat
  BY <1>1, LastFrame
<1> DEFINE gs == Append(frames, nf)
<1> HIDE DEF gs
<1>6. OnTop(gs, active)
  BY <1>2, <1>4, <1>5 DEF OnTop, gs
<1>7. BackedBy(gs, root)
  <2>1. \A i \in 1 .. Len(gs) : i \in 1 .. Len(frames) \/ i = Len(frames) + 1
    BY <1>4, <1>5 DEF gs
  <2> QED
    BY <1>2, <1>4, <2>1 DEF BackedBy, IInv, gs
<1>8. ~overtaken => Counted(gs, depth)
  BY <1>1, <1>2, <1>4, <1>5 DEF Counted, IInv, Top, gs
<1>9. Stack(gs, active) /\ frames' = gs
  BY <1>4 DEF gs, nf
<1> QED
  BY <1>6, <1>7, <1>8, <1>9 DEF FramesInv
-----------------------------------------------------------------------------
(* The invariant holds at first and after every step.                      *)

LEMMA Parts ==
  ASSUME RestOK', ToldOK', FramesInv'
  PROVE  IInv'
BY DEF IInv, FramesInv

LEMMA QuietOK ==
  ASSUME told' = NoResult
  PROVE  ToldOK'
BY DEF ToldOK, NoResult, ReturnedValueArrives, OrNull

(* What a statement or the end of a parse leaves alone.                    *)
LEMMA Aside ==
  ASSUME IInv, UNCHANGED <<connVars, crashed, overtaken>>,
         stop' \in BOOLEAN, test' \in BOOLEAN, depth' \in Int, steps' \in Nat
  PROVE  RestOK'
BY DEF IInv, RestOK, connVars

LEMMA CountNat ==
  ASSUME IInv, Count
  PROVE  steps' \in Nat
BY DEF IInv, RestOK, Count

LEMMA InnermostRuns ==
  ASSUME IInv, Running
  PROVE  FrameOK(Top) /\ Top.phase = "run" /\ Stack(frames, active) /\ frames # <<>>
BY LastFrame DEF IInv, Running

LEMMA Opening ==
  ASSUME IInv, InStatements, NEW kind \in Kinds,
         frames' = SetTop(Open(kind)), Quiet, UNCHANGED <<pageVars, connVars, depth, crashed>>
  PROVE  IInv'
<1>1. /\ Running /\ ~Top.returning /\ Innermost.kind \in StatementKinds /\ Count
  BY DEF InStatements, Evaluating
<1>2. FramesInv'
  BY <1>1, InnermostRuns, Opened, GoesOn DEF Quiet, connVars
<1>3. RestOK'
  BY <1>1, CountNat, Aside DEF IInv, RestOK, Quiet, pageVars
<1> QED
  BY <1>2, <1>3, QuietOK, Parts DEF Quiet

LEMMA OpeningSteps ==
  ASSUME IInv, BeginReturn \/ If \/ While \/ Operation
  PROVE  IInv'
<1>1. {"return", "ifCond", "loopCond", "handler"} \subseteq Kinds
  BY DEF Kinds
<1> QED
  BY <1>1, Opening DEF BeginReturn, If, While, Operation

LEMMA ParseEnds ==
  ASSUME IInv, Running, Innermost.kind # "body", frames' = SetTop(Close), told' = NoResult,
         UNCHANGED <<connVars, depth, crashed, overtaken, steps>>,
         stop' \in BOOLEAN, test' \in BOOLEAN
  PROVE  IInv'
<1>1. FramesInv'
  BY InnermostRuns, Closed, GoesOn DEF connVars
<1>2. RestOK'
  BY Aside DEF IInv, RestOK
<1> QED
  BY <1>1, <1>2, QuietOK, Parts

LEMMA ParseFollows ==
  ASSUME IInv, Running, Innermost.kind # "body", ~Top.returning,
         NEW kind \in Kinds, NEW saved \in BOOLEAN,
         frames' = SetTop(TurnInto(kind, saved)), told' = NoResult,
         UNCHANGED <<connVars, depth, crashed, overtaken, steps>>,
         stop' \in BOOLEAN, test' \in BOOLEAN
  PROVE  IInv'
<1>1. FramesInv'
  <2> DEFINE fr == TurnInto(kind, saved)
  <2>1. /\ FrameOK(fr) /\ fr.by = Top.by /\ fr.phase = Top.phase
        /\ fr.backup = Top.backup /\ fr.conn = Top.conn
        /\ fr.returning = Top.returning /\ fr.returned = Top.returned
    BY InnermostRuns, Turned
  <2> HIDE DEF fr
  <2>2. frames' = SetTop(fr)
    BY DEF fr
  <2> QED
    BY <2>1, <2>2, GoesOn DEF connVars
<1>2. RestOK'
  BY Aside DEF IInv, RestOK
<1> QED
  BY <1>1, <1>2, QuietOK, Parts

LEMMA BlockSteps ==
  ASSUME IInv, BlockStep
  PROVE  IInv'
<1>1. stop \in BOOLEAN /\ test \in BOOLEAN
  BY DEF IInv, RestOK
<1>2. {"if", "loop", "again"} \subseteq Kinds /\ TRUE \in BOOLEAN /\ FALSE \in BOOLEAN
  BY DEF Kinds
<1>3. Running => /\ Innermost \in Block
                 /\ Innermost.kind \notin StatementKinds => ~Top.returning
  BY InnermostRuns, Parses
<1>4. CASE EndIf
  <2>1. test' \in BOOLEAN
    BY <1>3, <1>4 DEF EndIf, Block
  <2> QED
    BY <1>1, <1>4, <2>1, ParseEnds DEF EndIf, Quiet
<1>5. CASE EndHandler
  BY <1>1, <1>5, ParseEnds DEF EndHandler, Quiet, pageVars
<1>6. CASE EndLoop
  <2>1. CASE LoopLeft
    BY <1>1, <1>6, <2>1, ParseEnds DEF EndLoop, Quiet
  <2>2. CASE ~LoopLeft
    BY <1>1, <1>2, <1>6, <2>2, ParseFollows DEF EndLoop, LoopLeft, Quiet
  <2> QED
    BY <2>1, <2>2
<1>7. ASSUME NEW result \in BOOLEAN, EndLoopCondition(result)
      PROVE  IInv'
  <2>1. Running /\ Innermost.kind = "loopCond" /\ ~Top.returning
    BY <1>3, <1>7 DEF EndLoopCondition, StatementKinds
  <2>2. CASE ~stop /\ result
    <3>1. frames' = SetTop(TurnInto("loop", FALSE))
      BY <1>7, <2>2 DEF EndLoopCondition
    <3> QED
      BY <1>1, <1>2, <1>7, <2>1, <3>1, ParseFollows DEF EndLoopCondition, Quiet
  <2>3. CASE ~(~stop /\ result)
    BY <1>1, <1>7, <2>1, <2>3, ParseEnds DEF EndLoopCondition, Quiet
  <2> QED
    BY <2>2, <2>3
<1>8. ASSUME NEW result \in BOOLEAN, EndAgain(result)
      PROVE  IInv'
  <2>1. Running /\ Innermost.kind = "again" /\ ~Top.returning /\ test' = result
    BY <1>3, <1>8 DEF EndAgain, StatementKinds
  <2>2. CASE test'
    BY <1>1, <1>2, <1>8, <2>1, <2>2, ParseFollows DEF EndAgain, Quiet
  <2>3. CASE ~test'
    BY <1>1, <1>8, <2>1, <2>3, ParseEnds DEF EndAgain, Quiet
  <2> QED
    BY <2>2, <2>3
<1>9. ASSUME NEW result \in BOOLEAN, NEW block \in BOOLEAN, EndIfCondition(result, block)
      PROVE  IInv'
  <2>1. Running /\ Innermost.kind = "ifCond" /\ ~Top.returning
    BY <1>3, <1>9 DEF EndIfCondition, StatementKinds
  <2>2. CASE ~stop /\ block
    <3>1. frames' = SetTop(TurnInto("if", result))
      BY <1>9, <2>2 DEF EndIfCondition
    <3> QED
      BY <1>1, <1>2, <1>9, <2>1, <3>1, ParseFollows DEF EndIfCondition, Quiet
  <2>3. CASE ~(~stop /\ block)
    BY <1>1, <1>9, <2>1, <2>3, ParseEnds DEF EndIfCondition, Quiet
  <2> QED
    BY <2>2, <2>3
<1> QED
  BY <1>4, <1>5, <1>6, <1>7, <1>8, <1>9 DEF BlockStep

(* Nothing of the functions changes.                                       *)
LEMMA FramesStay ==
  ASSUME IInv, UNCHANGED <<frames, connVars, depth, overtaken>>
  PROVE  FramesInv'
BY DEF IInv, FramesInv, Stack, OnTop, BackedBy, Counted, connVars

LEMMA PlainSteps ==
  ASSUME IInv, UnknownVariable \/ Dies
  PROVE  IInv'
<1>1. /\ told' = NoResult /\ Count
      /\ UNCHANGED <<frames, test, connVars, depth, overtaken>>
      /\ stop' \in BOOLEAN /\ crashed' \in BOOLEAN
  BY DEF UnknownVariable, Dies, InStatements, Evaluating, Quiet, IInv, RestOK, pageVars
<1>2. RestOK'
  BY <1>1, CountNat DEF IInv, RestOK, connVars
<1> QED
  BY <1>1, <1>2, FramesStay, QuietOK, Parts

LEMMA Refused ==
  ASSUME IInv, NEW u \in {"plain", "args"}, CallRefused(u)
  PROVE  IInv'
<1>1. /\ Running /\ Count /\ told' = Operand(Top, u, NULL)
      /\ UNCHANGED <<frames, pageVars, connVars, depth, crashed, overtaken>>
  BY DEF CallRefused, Evaluating
<1>2. RestOK'
  BY <1>1, CountNat, Aside DEF IInv, RestOK, pageVars
<1>3. Top.slot \in OrNull(Values)
  BY <1>1, InnermostRuns DEF FrameOK, Frame
<1>4. ToldOK'
  BY <1>1, <1>3 DEF ToldOK, Operand, ReturnedValueArrives, OrNull
<1> QED
  BY <1>1, <1>2, <1>4, FramesStay, Parts
LEMMA CallSteps ==
  ASSUME IInv, NEW f \in Functions,
         RunTrigger(f) \/ (\E u \in {"no", "plain", "args"} : Call(f, u))
  PROVE  IInv'
<1>1. Running /\ ~Top.returning /\ Count
  BY InnermostRuns, Parses DEF RunTrigger, Call, Evaluating, StatementKinds
<1>2. /\ told' = NoResult
      /\ UNCHANGED <<pageVars, connVars, depth, crashed, overtaken>>
  BY DEF RunTrigger, Call, Quiet
<1>3. RestOK'
  BY <1>1, <1>2, CountNat, Aside DEF IInv, RestOK, pageVars
<1>4. PICK by \in {"engine", "htsql"}, u \in {"no", "plain", "args"} :
           frames' = Append(frames, NewFrame(f, by, u))
  BY DEF RunTrigger, Call
<1>5. FramesInv'
  BY <1>1, <1>2, <1>4, Calls DEF connVars
<1> QED
  BY <1>2, <1>3, <1>5, QuietOK, Parts

LEMMA StartStep ==
  ASSUME IInv, NEW f \in Functions, Start(f)
  PROVE  IInv'
<1> DEFINE nf == NewFrame(f, "engine", "no")
           gs == <<nf>>
<1>1. /\ frames = <<>> /\ frames' = gs /\ told' = NoResult /\ Count
      /\ UNCHANGED <<pageVars, connVars, depth, crashed, overtaken>>
  BY DEF Start, Quiet
<1>2. RestOK'
  BY <1>1, CountNat, Aside DEF IInv, RestOK, pageVars
<1>3. FrameOK(nf) /\ nf.phase = "enter" /\ nf.backup = NULL /\ nf.by = "engine" /\ nf \in Frame
  BY DEF FrameOK, NewFrame, Frame, OrNull
<1>4. gs \in Seq(Frame) /\ Len(gs) = 1 /\ gs[1] = nf /\ gs # <<>>
  BY <1>3
<1> HIDE DEF nf, gs
<1>5. Stack(gs, active)
  BY <1>3, <1>4 DEF Stack
<1>6. OnTop(gs, active) /\ BackedBy(gs, root)
  BY <1>3, <1>4 DEF OnTop, BackedBy
<1>7. ~overtaken => Counted(gs, depth)
  BY <1>1, <1>3, <1>4 DEF Counted, IInv
<1>8. FramesInv'
  BY <1>1, <1>5, <1>6, <1>7 DEF FramesInv, connVars
<1> QED
  BY <1>1, <1>2, <1>8, QuietOK, Parts

(* The connection of a function that begins is an open one, or the one     *)
(* that was active.                                                        *)
LEMMA ItsConnection ==
  ASSUME IInv, ConstantsAssumption, NEW f \in Functions
  PROVE  /\ ConnFor(f) \in OrNull(Conns)
         /\ ConnFor(f) = NULL <=> root = NULL
BY DEF IInv, RestOK, ConnFor, Known, OrNull, ConstantsAssumption

(* The innermost function begins: the connection it leaves is the one that *)
(* was active when it was called.                                          *)
LEMMA Begins ==
  ASSUME IInv, ~crashed, frames # <<>>, Top.phase \in {"enter", "connect"},
         NEW c \in OrNull(Conns), c = NULL <=> root = NULL,
         NEW b \in OrNull(Conns), b = Leaves(Top, active), b # NULL => root # NULL,
         frames' = SetTop(Begin([Top EXCEPT !.backup = b], c)),
         active' = c, stop' = FALSE, told' = NoResult,
         depth' = IF Top.phase = "enter" THEN depth + 1 ELSE depth,
         UNCHANGED <<test, root, handle, crashed, steps, overtaken>>
  PROVE  IInv'
<1> DEFINE body == [kind |-> "body", saved |-> FALSE]
           fr   == Begin([Top EXCEPT !.backup = b], c)
           gs   == SetTop(fr)
<1>1. Stack(frames, active) /\ Top \in Frame /\ FrameOK(Top)
  BY LastFrame DEF IInv
<1>2. Top.blocks = <<>> /\ ~Top.returning /\ Top.returned = NULL
  BY <1>1 DEF FrameOK
<1>3. body \in Block /\ <<body>> \in Seq(Block) /\ Len(<<body>>) = 1 /\ <<body>>[1] = body
  BY DEF Block, Kinds
<1> HIDE DEF body
<1>4. /\ fr \in Frame /\ fr.phase = "run" /\ fr.blocks = <<body>> /\ fr.conn = c
      /\ fr.backup = b /\ fr.by = Top.by /\ ~fr.returning /\ fr.returned = NULL
  BY <1>1, <1>2, <1>3 DEF Begin, Frame, body
<1>5. body.kind = "body"
  BY DEF body
<1> HIDE DEF fr
<1>6. FrameOK(fr)
  <2>1. <<body>> # <<>>
    OBVIOUS
  <2>2. \A k \in 1 .. Len(<<body>>) - 1 : <<body>>[k].kind \in StatementKinds
    BY <1>3
  <2> QED
    BY <1>3, <1>4, <1>5, <2>1, <2>2 DEF FrameOK
<1>7. Len(frames) > 1 => Link(Caller, fr, c)
  BY <1>1, <1>4, LastFrame DEF Link, Leaves
<1>8. /\ Stack(gs, c) /\ gs # <<>>
      /\ Len(gs) = Len(frames) /\ gs[Len(frames)] = fr
      /\ \A i \in 1 .. Len(frames) : gs[i] = IF i = Len(frames) THEN fr ELSE frames[i]
  <2>1. Stack(frames, active) /\ frames # <<>> /\ FrameOK(fr) /\ fr.by = Top.by
    BY <1>1, <1>4, <1>6
  <2>2. Len(frames) > 1 => Link(Caller, fr, c)
    BY <1>7
  <2>3. Stack(gs, c)
    BY <2>1, <2>2, TopSet
  <2>4. /\ gs # <<>> /\ Len(gs) = Len(frames) /\ gs[Len(frames)] = fr
        /\ \A i \in 1 .. Len(frames) : gs[i] = IF i = Len(frames) THEN fr ELSE frames[i]
    BY <1>1, <1>4, LastFrame DEF SetTop, Stack
  <2> QED
    BY <2>3, <2>4
<1>9. frames' = gs
  BY DEF fr
<1> HIDE DEF gs
<1>10. OnTop(gs, c)
  BY <1>4, <1>8 DEF OnTop, Expects
<1>11. BackedBy(gs, root)
  BY <1>4, <1>8 DEF BackedBy, IInv
<1>12. ~overtaken => Counted(gs, depth')
  <2>1. Len(frames) \in Nat /\ depth \in Int
    BY <1>1, LastFrame DEF IInv, RestOK
  <2> QED
    BY <1>4, <1>8, <2>1 DEF Counted, IInv, Top
<1>13. FramesInv'
  BY <1>8, <1>9, <1>10, <1>11, <1>12 DEF FramesInv
<1>14. RestOK'
  <2>1. stop' \in BOOLEAN
    OBVIOUS
  <2>2. depth' \in Int
    BY DEF IInv, RestOK
  <2>3. active' \in OrNull(Conns) /\ (active' = NULL <=> root' = NULL)
    OBVIOUS
  <2> QED
    BY <2>1, <2>2, <2>3 DEF IInv, RestOK
<1> QED
  BY <1>13, <1>14, QuietOK, Parts

LEMMA EnterStep ==
  ASSUME IInv, ConstantsAssumption, Enter
  PROVE  IInv'
<1>1. Top \in Frame
  BY LastFrame DEF IInv, Enter
<1>2. active \in OrNull(Conns) /\ (active # NULL => root # NULL)
  BY DEF IInv, RestOK
<1>3. Top.fn \in Functions
  BY <1>1 DEF Frame
<1>4. BackedUp(Top.fn) = active /\ active = Leaves(Top, active)
  BY DEF BackedUp, Leaves, Enter
<1> QED
  BY <1>2, <1>3, <1>4, ItsConnection, Begins DEF Enter, Quiet

LEMMA ConnectedStep ==
  ASSUME IInv, ConstantsAssumption, Connected
  PROVE  IInv'
<1>1. Top \in Frame
  BY LastFrame DEF IInv, Connected
<1>2. Top.fn \in Functions /\ Top.backup \in OrNull(Conns) /\ Top.phase = "connect"
  BY <1>1 DEF Frame, Connected
<1>3. Top.backup # NULL => root # NULL
  <2>1. Len(frames) \in 1 .. Len(frames)
    BY LastFrame DEF IInv, Connected
  <2> QED
    BY <2>1 DEF IInv, BackedBy, Top
<1>4. [Top EXCEPT !.backup = Top.backup] = Top
  BY <1>1 DEF Frame
<1>5. Top.backup = Leaves(Top, active)
  BY <1>2 DEF Leaves
<1> QED
  BY <1>2, <1>3, <1>4, <1>5, ItsConnection, Begins DEF Connected, Quiet

LEMMA EnterMissingStep ==
  ASSUME IInv, ConstantsAssumption, EnterMissing
  PROVE  IInv'
<1> DEFINE fr == [Top EXCEPT !.backup = active, !.phase = "connect"]
           nf == NewFrame(Trigger, "connect", "no")
           fs == SetTop(fr)
           gs == Append(fs, nf)
<1>1. Stack(frames, active) /\ frames # <<>> /\ Top \in Frame /\ FrameOK(Top) /\ Top.phase = "enter"
  BY LastFrame DEF IInv, EnterMissing
<1>2. active \in OrNull(Conns) /\ Trigger \in Functions
  BY DEF IInv, RestOK, EnterMissing, Missing, ConstantsAssumption
<1>3. /\ fr \in Frame /\ fr.phase = "connect" /\ fr.backup = active /\ fr.by = Top.by
      /\ fr.returning = Top.returning /\ fr.returned = Top.returned /\ fr.blocks = Top.blocks
  BY <1>1, <1>2 DEF Frame
<1>4. Top.blocks = <<>> /\ ~Top.returning /\ Top.returned = NULL
  BY <1>1 DEF FrameOK
<1>5. FrameOK(nf) /\ nf.phase = "enter" /\ nf.returned = NULL /\ nf.backup = NULL
  BY <1>2 DEF FrameOK, NewFrame, Frame, OrNull
<1> HIDE DEF fr, nf
<1>6. FrameOK(fr)
  BY <1>3, <1>4 DEF FrameOK
<1>7. Len(frames) > 1 => Link(Caller, fr, active)
  BY <1>1, <1>3, <1>4, LastFrame DEF Link, Leaves
<1>8. /\ Stack(fs, active) /\ fs # <<>>
      /\ Len(fs) = Len(frames) /\ fs[Len(frames)] = fr
      /\ \A i \in 1 .. Len(frames) : fs[i] = IF i = Len(frames) THEN fr ELSE frames[i]
  <2>1. Stack(frames, active) /\ frames # <<>> /\ FrameOK(fr) /\ fr.by = Top.by
    BY <1>1, <1>3, <1>6
  <2>2. Len(frames) > 1 => Link(Caller, fr, active)
    BY <1>7
  <2> QED
    BY <2>1, <2>2, TopSet
<1>9. Link(fs[Len(fs)], nf, active)
  BY <1>3, <1>4, <1>5, <1>8 DEF Link, Leaves, Expects
<1> HIDE DEF fs
<1>10. /\ Stack(gs, active) /\ gs # <<>> /\ Len(gs) = Len(frames) + 1 /\ gs[Len(gs)] = nf
       /\ \A i \in 1 .. Len(frames) : gs[i] = fs[i]
  BY <1>5, <1>8, <1>9, Pushed
<1>11. /\ frames' = gs /\ depth' = depth + 1 /\ told' = NoResult
       /\ UNCHANGED <<pageVars, connVars, crashed, overtaken, steps>>
  BY DEF EnterMissing, Quiet, gs, fs, fr, nf
<1> HIDE DEF gs
<1>12. Len(frames) \in Nat /\ depth \in Int
  BY <1>1, LastFrame DEF IInv, RestOK
<1>13. OnTop(gs, active)
  BY <1>5, <1>10 DEF OnTop
<1>14. BackedBy(gs, root)
  <2>1. \A i \in 1 .. Len(gs) : i \in 1 .. Len(frames) \/ i = Len(gs)
    BY <1>10, <1>12
  <2>2. active # NULL => root # NULL
    BY DEF IInv, RestOK
  <2> QED
    BY <1>3, <1>5, <1>8, <1>10, <2>1, <2>2 DEF BackedBy, IInv
<1>15. ~overtaken => Counted(gs, depth')
  BY <1>1, <1>5, <1>10, <1>11, <1>12 DEF Counted, IInv, Top
<1>16. FramesInv'
  BY <1>10, <1>11, <1>13, <1>14, <1>15 DEF FramesInv, connVars
<1>17. RestOK'
  BY <1>11, <1>12, Aside DEF IInv, RestOK, pageVars
<1> QED
  BY <1>11, <1>16, <1>17, QuietOK, Parts
(* A function ends: its caller finds its connection and the value.         *)
LEMMA FinishStep ==
  ASSUME IInv, Finish
  PROVE  IInv'
<1> DEFINE n  == Len(frames)
           gs == Popped
<1>1. /\ Running /\ frames' = gs /\ active' = Restored /\ depth' = depth - 1
      /\ UNCHANGED <<pageVars, root, handle, crashed, steps, overtaken>>
  BY DEF Finish, CountedDown
<1>2. /\ FrameOK(Top) /\ Top \in Frame /\ Top.phase = "run" /\ Stack(frames, active)
      /\ frames # <<>> /\ n \in Nat /\ n >= 1
  BY <1>1, InnermostRuns, LastFrame
<1>3. n > 1 => /\ Caller \in Frame /\ FrameOK(Caller) /\ Link(Caller, Top, active)
               /\ Caller = frames[n - 1]
  BY <1>2, LastFrame DEF Caller
<1>4. /\ Stack(gs, active') /\ Len(gs) = n - 1
      /\ \A i \in 1 .. n - 1 : gs[i] = frames[i]
  BY <1>2, OneLess
<1> HIDE DEF gs
<1>5. gs # <<>> => n > 1 /\ gs[Len(gs)] = Caller /\ Caller.phase # "enter"
  <2>1. gs \in Seq(Frame)
    BY <1>4 DEF Stack
  <2>2. gs # <<>> => Len(gs) \in 1 .. n - 1 /\ n > 1
    BY <1>2, <1>4, <2>1
  <2> QED
    BY <1>3, <1>4, <2>2 DEF Link
<1>6. OnTop(gs, active')
  <2>1. ASSUME gs # <<>>, Expects(Caller) # NULL
        PROVE  active' = Expects(Caller)
    <3>1. Top.backup = Expects(Caller)
      BY <1>2, <1>3, <1>5, <2>1 DEF Link, Leaves
    <3> QED
      BY <1>1, <2>1, <3>1 DEF Restored
  <2> QED
    BY <1>5, <2>1 DEF OnTop
<1>7. BackedBy(gs, root)
  <2>1. \A i \in 1 .. n - 1 : i \in 1 .. n
    BY <1>2
  <2> QED
    BY <1>4, <2>1 DEF BackedBy, IInv
<1>8. ~overtaken => Counted(gs, depth - 1)
  <2>1. depth \in Int
    BY DEF IInv, RestOK
  <2> QED
    BY <1>2, <1>4, <1>5, <2>1 DEF Counted, IInv, Top
<1>9. FramesInv'
  BY <1>1, <1>4, <1>6, <1>7, <1>8 DEF FramesInv
<1>10. RestOK'
  <2>1. Top.backup # NULL => root # NULL
    <3>1. n \in 1 .. n
      BY <1>2
    <3> QED
      BY <3>1 DEF IInv, BackedBy, Top
  <2>2. active' \in OrNull(Conns) /\ (active' = NULL <=> root = NULL)
    BY <1>1, <1>2, <2>1 DEF Restored, Frame, IInv, RestOK
  <2>3. depth' \in Int
    BY <1>1 DEF IInv, RestOK
  <2> QED
    BY <1>1, <2>2, <2>3 DEF IInv, RestOK, pageVars
<1>11. ToldOK'
  <2>1. CASE Top.by = "engine"
    <3>1. told' = Answer
      BY <2>1 DEF Finish
    <3>2. Top.slot \in OrNull(Values) /\ Top.returned \in OrNull(Values)
          /\ (Top.returned # NULL => Top.slot = Top.returned)
      BY <1>2 DEF FrameOK, Frame
    <3> QED
      BY <3>1, <3>2 DEF ToldOK, Answer, ReturnedValueArrives
  <2>2. CASE Top.by = "htsql" /\ Top.used # "no"
    <3>1. told' = Operand(Caller, Top.used, Top.returned)
      BY <2>2 DEF Finish
    <3>2. n > 1
      BY <1>2, <2>2 DEF Stack, Top
    <3>3. /\ Caller.slot \in OrNull(Values) /\ Top.returned \in OrNull(Values)
          /\ Top.returned # NULL => Caller.slot = Top.returned
      BY <1>2, <1>3, <3>2 DEF Link, Frame
    <3> QED
      BY <3>1, <3>3 DEF ToldOK, Operand, ReturnedValueArrives
  <2>3. CASE Top.by # "engine" /\ ~(Top.by = "htsql" /\ Top.used # "no")
    <3>1. told' = NoResult
      BY <2>3 DEF Finish
    <3> QED
      BY <3>1, QuietOK
  <2> QED
    BY <2>1, <2>2, <2>3
<1> QED
  BY <1>9, <1>10, <1>11, Parts

(* A return: its function has the value, and its caller if it is declared  *)
(* to return one.                                                          *)
LEMMA Returns ==
  ASSUME IInv, Running, Innermost.kind = "return", NEW v \in OrNull(Values)
  PROVE  LET with == [Returning EXCEPT !.slot = v, !.returned = v]
         IN /\ FrameOK(Returning) /\ Returning.by = Top.by /\ Returning.phase = Top.phase
            /\ Returning.backup = Top.backup /\ Returning.conn = Top.conn
            /\ Returning.returned = Top.returned
            /\ FrameOK(with) /\ with.by = Top.by /\ with.phase = Top.phase
            /\ with.backup = Top.backup /\ with.conn = Top.conn /\ with.returned = v
<1> DEFINE with == [Returning EXCEPT !.slot = v, !.returned = v]
<1>1. Top.phase = "run" /\ Top.returned = NULL
  BY InnermostRuns, Parses DEF StatementKinds
<1>2. /\ FrameOK(Close) /\ Close.by = Top.by /\ Close.phase = Top.phase
      /\ Close.backup = Top.backup /\ Close.conn = Top.conn /\ Close.returned = Top.returned
      /\ Close.blocks[Len(Close.blocks)].kind \in StatementKinds /\ Close \in Frame
  BY InnermostRuns, Closed
<1>3. /\ Returning \in Frame /\ Returning.returning
      /\ Returning.by = Close.by /\ Returning.phase = Close.phase
      /\ Returning.backup = Close.backup /\ Returning.conn = Close.conn
      /\ Returning.returned = Close.returned /\ Returning.blocks = Close.blocks
  BY <1>2 DEF Returning, Frame
<1>4. /\ with \in Frame /\ with.returning /\ with.slot = v /\ with.returned = v
      /\ with.by = Close.by /\ with.phase = Close.phase
      /\ with.backup = Close.backup /\ with.conn = Close.conn /\ with.blocks = Close.blocks
  BY <1>3 DEF Frame
<1> HIDE DEF with
<1>5. FrameOK(Returning)
  BY <1>1, <1>2, <1>3 DEF FrameOK
<1>6. FrameOK(with)
  BY <1>1, <1>2, <1>4 DEF FrameOK
<1> QED
  BY <1>2, <1>3, <1>4, <1>5, <1>6 DEF with

(* Both the function and its caller get the value.                         *)
LEMMA BothSet ==
  ASSUME NEW c, Stack(frames, c), frames # <<>>, Top.phase # "enter",
         NEW v \in OrNull(Values), v # NULL,
         NEW fr, FrameOK(fr), fr.by = Top.by, fr.phase = Top.phase, fr.backup = Top.backup,
         fr.returned = v,
         NEW gs, gs = [i \in DOMAIN frames |->
                         IF i = Len(frames) THEN fr
                         ELSE IF i = Len(frames) - 1 THEN [frames[i] EXCEPT !.slot = v]
                         ELSE frames[i]]
  PROVE  /\ Stack(gs, c) /\ gs # <<>> /\ Len(gs) = Len(frames) /\ gs[Len(frames)] = fr
         /\ \A i \in 1 .. Len(frames) - 1 : gs[i].backup = frames[i].backup
<1> DEFINE n == Len(frames)
           ca == [Caller EXCEPT !.slot = v]
<1>1. /\ n \in Nat /\ n >= 1 /\ frames \in Seq(Frame) /\ fr \in Frame
      /\ n > 1 => Caller \in Frame /\ FrameOK(Caller) /\ Link(Caller, Top, c)
  BY LastFrame DEF Stack, FrameOK
<1>2. /\ Top = frames[n] /\ Caller = frames[n - 1]
      /\ \A i \in 1 .. n : FrameOK(frames[i])
      /\ \A i \in 1 .. n - 1 : Link(frames[i], frames[i + 1], c)
      /\ frames[1].by = "engine"
  BY DEF Stack, Top, Caller
<1>3. n > 1 => /\ ca \in Frame /\ ca.slot = v /\ ca.fn = Caller.fn /\ ca.by = Caller.by
               /\ ca.used = Caller.used /\ ca.phase = Caller.phase
               /\ ca.returning = Caller.returning /\ ca.backup = Caller.backup
               /\ ca.blocks = Caller.blocks /\ ca.returned = Caller.returned
               /\ ca.conn = Caller.conn
  BY <1>1 DEF Frame
<1>4. /\ DOMAIN frames = 1 .. n /\ DOMAIN gs = 1 .. n
      /\ gs[n] = fr /\ (n > 1 => gs[n - 1] = ca)
      /\ \A i \in 1 .. n - 2 : gs[i] = frames[i]
  BY <1>1, <1>2
<1> HIDE DEF n, ca
<1>5. \A i \in 1 .. n : i = n \/ (i = n - 1 /\ n > 1) \/ i \in 1 .. n - 2
  BY <1>1
<1>6. gs \in Seq(Frame) /\ Len(gs) = n
  <2>1. \A i \in 1 .. n : frames[i] \in Frame
    BY <1>1 DEF n
  <2>2. ASSUME NEW i \in 1 .. n
        PROVE  gs[i] \in Frame
    <3>1. CASE i \in 1 .. n - 2
      <4>1. gs[i] = frames[i]
        BY <1>4, <3>1
      <4> QED
        BY <2>1, <4>1
    <3> QED
      BY <1>1, <1>3, <1>4, <1>5, <3>1
  <2>3. gs \in [1 .. n -> Frame]
    BY <1>4, <2>2
  <2>4. gs \in Seq(Frame)
    BY <1>1, <2>3, SeqDef
  <2> QED
    BY <1>1, <1>4, <2>4, LenProperties
<1>7. n > 1 => FrameOK(ca)
  BY <1>1, <1>2, <1>3 DEF FrameOK, Link
<1>8. ASSUME NEW i \in 1 .. n
      PROVE  FrameOK(gs[i])
  <2>1. CASE i \in 1 .. n - 2
    <3>1. gs[i] = frames[i]
      BY <1>4, <2>1
    <3> QED
      BY <1>2, <3>1
  <2> QED
    BY <1>4, <1>5, <1>7, <2>1
<1>9. ASSUME NEW i \in 1 .. n - 1
      PROVE  Link(gs[i], gs[i + 1], c)
  <2>1. Link(frames[i], frames[i + 1], c)
    BY <1>2
  <2>2. CASE i = n - 1
    <3>1. n > 1 /\ gs[i] = ca /\ gs[i + 1] = fr /\ frames[i] = Caller /\ frames[i + 1] = Top
      BY <1>1, <1>2, <1>4, <2>2
    <3> QED
      BY <1>3, <2>1, <3>1 DEF Link, Leaves, Expects
  <2>3. CASE i = n - 2
    <3>1. n > 1 /\ gs[i] = frames[i] /\ gs[i + 1] = ca /\ frames[i + 1] = Caller
      BY <1>1, <1>2, <1>4, <2>3
    <3> QED
      BY <1>3, <2>1, <3>1 DEF Link, Leaves
  <2>4. CASE i # n - 1 /\ i # n - 2
    <3>1. gs[i] = frames[i] /\ gs[i + 1] = frames[i + 1]
      BY <1>1, <1>4, <2>4
    <3> QED
      BY <2>1, <3>1
  <2> QED
    BY <2>2, <2>3, <2>4
<1>10. gs # <<>> /\ gs[1].by = "engine"
  <2>1. 1 \in 1 .. n
    BY <1>1
  <2>2. gs # <<>>
    BY <1>1, <1>6
  <2> QED
    BY <1>1, <1>2, <1>3, <1>4, <1>5, <2>1, <2>2
<1>11. Stack(gs, c)
  BY <1>6, <1>8, <1>9, <1>10 DEF Stack
<1>12. \A i \in 1 .. n - 1 : gs[i].backup = frames[i].backup
  BY <1>1, <1>2, <1>3, <1>4, <1>5
<1> QED
  BY <1>4, <1>6, <1>10, <1>11, <1>12 DEF n
LEMMA ReturnStep ==
  ASSUME IInv, NEW v \in OrNull(Values), Return(v)
  PROVE  IInv'
<1>1. /\ Running /\ Innermost.kind = "return" /\ told' = NoResult
      /\ UNCHANGED <<pageVars, connVars, depth, crashed, overtaken, steps>>
  BY DEF Return, Quiet
<1>2. RestOK'
  BY <1>1, Aside DEF IInv, RestOK, pageVars
<1>3. CASE v # NULL /\ Top.fn \in Declares
  <2> DEFINE fr == [Returning EXCEPT !.slot = v, !.returned = v]
  <2>1. /\ FrameOK(fr) /\ fr.by = Top.by /\ fr.phase = Top.phase
        /\ fr.backup = Top.backup /\ fr.conn = Top.conn /\ fr.returned = v
    BY <1>1, Returns
  <2>2. frames' = [i \in DOMAIN frames |->
                     IF i = Len(frames) THEN fr
                     ELSE IF i = Len(frames) - 1 THEN [frames[i] EXCEPT !.slot = v]
                     ELSE frames[i]]
    BY <1>3 DEF Return, WithResult
  <2> HIDE DEF fr
  <2>3. Stack(frames, active) /\ frames # <<>> /\ Top.phase = "run"
    BY <1>1, InnermostRuns
  <2>4. Top.phase # "enter"
    BY <2>3
  <2>5. /\ Stack(frames', active) /\ frames' # <<>> /\ Len(frames') = Len(frames)
        /\ frames'[Len(frames)] = fr
        /\ \A i \in 1 .. Len(frames) - 1 : frames'[i].backup = frames[i].backup
    BY <1>3, <2>1, <2>2, <2>3, <2>4, BothSet
  <2>6. OnTop(frames', active)
    BY <2>1, <2>3, <2>5 DEF OnTop, Expects, IInv, Top
  <2>7. BackedBy(frames', root)
    <3>1. Len(frames) \in Nat
      BY <2>3, LastFrame
    <3>2. \A i \in 1 .. Len(frames) : i = Len(frames) \/ i \in 1 .. Len(frames) - 1
      BY <3>1
    <3> QED
      BY <2>1, <2>5, <3>2 DEF BackedBy, IInv, Top
  <2>8. ~overtaken => Counted(frames', depth)
    BY <2>1, <2>3, <2>5 DEF Counted, IInv, Top
  <2>9. FramesInv'
    BY <1>1, <2>5, <2>6, <2>7, <2>8 DEF FramesInv, connVars
  <2> QED
    BY <1>1, <1>2, <2>9, QuietOK, Parts
<1>4. CASE ~(v # NULL /\ Top.fn \in Declares)
  <2>1. frames' = SetTop(Returning)
    BY <1>4 DEF Return
  <2>2. /\ FrameOK(Returning) /\ Returning.by = Top.by /\ Returning.phase = Top.phase
        /\ Returning.backup = Top.backup /\ Returning.conn = Top.conn
        /\ Returning.returned = Top.returned
    BY <1>1, Returns
  <2>3. FramesInv'
    BY <1>1, <2>1, <2>2, GoesOn DEF connVars
  <2> QED
    BY <1>1, <1>2, <2>3, QuietOK, Parts
<1> QED
  BY <1>3, <1>4

(* A connection is made: the first one becomes the active connection.      *)
LEMMA ConnectStep ==
  ASSUME IInv, ConstantsAssumption, NEW c \in Conns, NEW works \in BOOLEAN, Connect(c, works)
  PROVE  IInv'
<1> DEFINE first == handle[c] = "none" /\ works /\ root = NULL
           h     == IF works THEN "open" ELSE IF handle[c] = "none" THEN "none" ELSE "dangling"
           fr    == [Top EXCEPT !.conn = c]
<1>1. /\ Running /\ ~Top.returning /\ Count /\ told' = NoResult
      /\ UNCHANGED <<pageVars, depth, crashed, overtaken>>
      /\ handle' = [handle EXCEPT ![c] = h]
  BY DEF Connect, Evaluating, Quiet
<1>2. /\ FrameOK(Top) /\ Top \in Frame /\ Top.phase = "run"
      /\ Stack(frames, active) /\ frames # <<>>
  BY <1>1, InnermostRuns, LastFrame
<1>3. c # NULL
  BY DEF ConstantsAssumption
<1>4. h \in {"none", "open", "dangling"} /\ (h # "none" => works \/ handle[c] # "none")
  OBVIOUS
<1>5. handle \in [Conns -> {"none", "open", "dangling"}]
      /\ (\A d \in Conns : handle[d] # "none" => root # NULL)
  BY DEF IInv, RestOK
<1>6. CASE first
  <2>1. root' = c /\ active' = c /\ frames' = SetTop(fr)
    BY <1>6 DEF Connect
  <2>2. RestOK'
    <3>1. handle' \in [Conns -> {"none", "open", "dangling"}]
      BY <1>1, <1>4, <1>5
    <3>2. stop' \in BOOLEAN /\ test' \in BOOLEAN /\ steps' \in Nat
      BY <1>1, CountNat DEF IInv, RestOK, pageVars
    <3> QED
      BY <1>1, <1>3, <2>1, <3>1, <3>2 DEF IInv, RestOK, OrNull
  <2>3. /\ fr \in Frame /\ fr.phase = "run" /\ fr.blocks = Top.blocks /\ fr.conn = c
        /\ fr.backup = Top.backup /\ fr.by = Top.by /\ fr.returning = Top.returning
        /\ fr.returned = Top.returned /\ fr.slot = Top.slot
    BY <1>2 DEF Frame, OrNull
  <2> HIDE DEF fr
  <2>4. FrameOK(fr)
    BY <1>2, <2>3 DEF FrameOK
  <2>5. Len(frames) > 1 => Link(Caller, fr, c)
    BY <1>2, <2>3, LastFrame DEF Link, Leaves
  <2> DEFINE gs == SetTop(fr)
  <2>6. Stack(gs, c)
    BY <1>2, <2>3, <2>4, <2>5, TopSet
  <2>7. /\ gs # <<>> /\ Len(gs) = Len(frames) /\ gs[Len(frames)] = fr
        /\ \A i \in 1 .. Len(frames) : gs[i] = IF i = Len(frames) THEN fr ELSE frames[i]
    BY <1>2, <2>3, LastFrame DEF SetTop, Stack
  <2>8. frames' = gs
    BY <2>1
  <2> HIDE DEF gs
  <2>9. OnTop(gs, c)
    BY <2>3, <2>7 DEF OnTop, Expects
  <2>10. BackedBy(gs, c)
    BY <1>3 DEF BackedBy
  <2>11. ~overtaken => Counted(gs, depth)
    BY <1>2, <2>3, <2>7 DEF Counted, IInv, Top
  <2>12. FramesInv'
    BY <1>1, <2>1, <2>6, <2>8, <2>9, <2>10, <2>11 DEF FramesInv
  <2> QED
    BY <1>1, <2>2, <2>12, QuietOK, Parts
<1>7. CASE ~first
  <2>1. UNCHANGED <<frames, root, active>>
    BY <1>7 DEF Connect
  <2>2. RestOK'
    <3>1. handle' \in [Conns -> {"none", "open", "dangling"}]
      BY <1>1, <1>4, <1>5
    <3>2. \A d \in Conns : handle'[d] # "none" => root # NULL
      BY <1>1, <1>4, <1>5, <1>7
    <3>3. stop' \in BOOLEAN /\ test' \in BOOLEAN /\ steps' \in Nat
      BY <1>1, CountNat DEF IInv, RestOK, pageVars
    <3> QED
      BY <1>1, <2>1, <3>1, <3>2, <3>3 DEF IInv, RestOK
  <2>3. FramesInv'
    BY <1>1, <2>1 DEF IInv, FramesInv, Stack, OnTop, BackedBy, Counted
  <2> QED
    BY <1>1, <2>2, <2>3, QuietOK, Parts
<1> QED
  BY <1>6, <1>7

LEMMA AcceptStep ==
  ASSUME IInv, Accept
  PROVE  IInv'
<1>1. /\ UNCHANGED <<frames, pageVars, connVars, crashed, steps>>
      /\ depth' = 0 /\ overtaken' = (frames # <<>>) /\ told' = NoResult
  BY DEF Accept
<1>2. overtaken' \in BOOLEAN
  BY <1>1, Zenon
<1>3. RestOK'
  BY <1>1, <1>2 DEF IInv, RestOK, pageVars, connVars
<1>4. ~overtaken' => Counted(frames, 0)
  BY <1>1 DEF Counted
<1>5. FramesInv'
  BY <1>1, <1>4 DEF IInv, FramesInv, connVars
<1> QED
  BY <1>1, <1>3, <1>5, QuietOK, Parts

LEMMA InitOK == ConstantsAssumption /\ Init => IInv
<1> SUFFICES ASSUME ConstantsAssumption, Init
             PROVE  IInv
  OBVIOUS
<1>1. RestOK
  <2>1. stop \in BOOLEAN /\ test \in BOOLEAN /\ crashed \in BOOLEAN /\ overtaken \in BOOLEAN
    BY Zenon DEF Init
  <2>2. /\ handle \in [Conns -> {"none", "open", "dangling"}]
        /\ \A c \in Conns : handle[c] = "none"
    BY DEF Init
  <2>3. active = NULL /\ root = NULL /\ depth = 0 /\ steps = 0
    BY DEF Init
  <2> QED
    BY <2>1, <2>2, <2>3 DEF RestOK, OrNull
<1>2. ToldOK
  BY DEF Init, ToldOK, NoResult, ReturnedValueArrives, OrNull
<1>3. frames = <<>> /\ Len(<<>>) = 0 /\ <<>> \in Seq(Frame)
  BY DEF Init
<1>4. Stack(frames, active) /\ OnTop(frames, active) /\ BackedBy(frames, root)
  BY <1>3 DEF Stack, OnTop, BackedBy
<1>5. ~overtaken => Counted(frames, depth)
  BY <1>3 DEF Counted, Init
<1> QED
  BY <1>1, <1>2, <1>4, <1>5 DEF IInv

LEMMA NextOK == ConstantsAssumption /\ IInv /\ [Next]_vars => IInv'
<1> SUFFICES ASSUME ConstantsAssumption, IInv, [Next]_vars
             PROVE  IInv'
  OBVIOUS
<1>1. CASE CallStep
  BY <1>1, EnterStep, EnterMissingStep, ConnectedStep, FinishStep, StartStep, CallSteps, Refused
     DEF CallStep
<1>2. CASE StatementStep
  BY <1>2, PlainSteps, OpeningSteps, ReturnStep, ConnectStep DEF StatementStep
<1>3. CASE BlockStep
  BY <1>3, BlockSteps
<1>4. CASE Accept
  BY <1>4, AcceptStep
<1>5. CASE UNCHANGED vars
  BY <1>5 DEF vars, pageVars, connVars, ghosts, IInv, RestOK, ToldOK, ReturnedValueArrives,
              Stack, OnTop, BackedBy, Counted
<1> QED
  BY <1>1, <1>2, <1>3, <1>4, <1>5 DEF Next

LEMMA Invariant == Spec => []IInv
<1>1. Init => IInv
  BY InitOK, ConstantsAssumption
<1>2. IInv /\ [Next]_vars => IInv'
  BY NextOK, ConstantsAssumption
<1> QED
  BY <1>1, <1>2, PTL DEF Spec

-----------------------------------------------------------------------------
(* Every variable of the call stack, the connections and the page's parser *)
(* keeps its type: createANewFunctionCallStackStartPoint, the parses and   *)
(* setCurrentUserFunctionReturnValue build nothing else.                   *)
THEOREM TypeCorrect == Spec => []TypeOK
<1>1. IInv => TypeOK
  <2> SUFFICES ASSUME IInv
               PROVE  TypeOK
    OBVIOUS
  <2>1. frames \in Seq(Frame) /\ \A i \in 1 .. Len(frames) : FrameOK(frames[i])
    BY DEF IInv, Stack
  <2>2. DOMAIN frames = 1 .. Len(frames)
    BY <2>1
  <2>3. \A i \in DOMAIN frames : frames[i].blocks # <<>> <=> frames[i].phase = "run"
    BY <2>1, <2>2 DEF FrameOK
  <2> QED
    BY <2>1, <2>3 DEF IInv, RestOK, ToldOK, TypeOK
<1> QED
  BY <1>1, Invariant, PTL

(* Whatever the called functions, the triggers and connection_not_found    *)
(* do, a function of runPostFunctionFast finds after each of its calls the *)
(* connection it worked on before.                                         *)
THEOREM ConnectionKept == Spec => []ActiveOfFunction
<1>1. IInv => ActiveOfFunction
  BY DEF IInv, OnTop, Expects, ActiveOfFunction, Running, Top
<1> QED
  BY <1>1, Invariant, PTL

(* cleanUpFunctionStack never takes the first connection of the session    *)
(* away from the functions that go on.                                     *)
THEOREM ConnectionStays == Spec => []ActiveWhenOpen
<1>1. IInv => ActiveWhenOpen
  BY DEF IInv, RestOK, ActiveWhenOpen
<1> QED
  BY <1>1, Invariant, PTL

(* What a function returns is what the expression that called it gets: no  *)
(* call, trigger or block between the two writes the caller's slot.        *)
THEOREM ValuesArrive == Spec => []ReturnedValueArrives
<1>1. IInv => ReturnedValueArrives
  BY DEF IInv, ToldOK
<1> QED
  BY <1>1, Invariant, PTL

(* currentFunctionCallDepth counts the functions that run, as long as      *)
(* InitCallstack does not reset it for another request.                    *)
THEOREM DepthRight == Spec => []DepthCountsFrames
<1>1. IInv => DepthCountsFrames
  BY DEF IInv, Counted, DepthCountsFrames, Top
<1> QED
  BY <1>1, Invariant, PTL

(* After a return no step but the ends of the parses and of the function.  *)
LEMMA UnwindStep ==
  ASSUME IInv, [Next]_vars, frames # <<>>, Top.returning
  PROVE  Unwinds
<1>1. FrameOK(Top) /\ Top.phase = "run" /\ Stack(frames, active) /\ Len(frames) \in Nat
      /\ Len(frames) >= 1 /\ Innermost.kind \in StatementKinds
  BY LastFrame DEF IInv, FrameOK, Innermost
<1>2. Top.phase # "enter" /\ Top.phase # "connect" /\ ~Evaluating
      /\ Innermost.kind \notin {"return", "handler", "ifCond", "loopCond", "again"}
  BY <1>1 DEF Evaluating, StatementKinds
<1>3. CASE Finish
  <2>1. frames' = Popped /\ Len(Popped) = Len(frames) - 1
    BY <1>1, <1>3, OneLess DEF Finish
  <2> QED
    BY <1>1, <2>1 DEF Unwinds
<1>4. CASE EndIf \/ EndLoop
  <2>1. frames' = SetTop(Close) /\ Innermost.kind # "body" /\ Running
    BY <1>4 DEF EndIf, EndLoop, LoopLeft
  <2>2. Len(Close.blocks) = Len(Top.blocks) - 1 /\ Close \in Frame
    BY <1>1, <2>1, Closed
  <2>3. Len(Top.blocks) \in Nat
    BY <1>1, Parses
  <2>4. Len(frames') = Len(frames) /\ frames'[Len(frames)] = Close
    BY <1>1, <2>1, <2>2 DEF SetTop, Stack
  <2> QED
    BY <2>2, <2>3, <2>4 DEF Unwinds
<1>5. CASE Accept \/ UNCHANGED vars
  BY <1>5 DEF Accept, Unwinds, vars
<1>6. ~CallStep \/ Finish
  BY <1>2 DEF CallStep, Enter, EnterMissing, Connected, Start, RunTrigger, Call, CallRefused
<1>7. ~StatementStep
  BY <1>2 DEF StatementStep, UnknownVariable, BeginReturn, If, While, Operation, Dies, Return,
              Connect, InStatements
<1>8. ~BlockStep \/ EndIf \/ EndLoop
  BY <1>2 DEF BlockStep, EndHandler, EndLoopCondition, EndAgain, EndIfCondition
<1> QED
  BY <1>3, <1>4, <1>5, <1>6, <1>7, <1>8 DEF Next

(* Once returnStatementActive is set, a function only ends its parses and  *)
(* then itself.                                                            *)
THEOREM OnlyUnwinds == Spec => ReturnUnwinds
<1>1. IInv /\ [Next]_vars => [Unwinds]_vars
  BY UnwindStep DEF Unwinds
<1> QED
  BY <1>1, Invariant, PTL DEF Spec, ReturnUnwinds
=============================================================================
