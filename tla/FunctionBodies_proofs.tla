------------------------ MODULE FunctionBodies_proofs ------------------------
(***************************************************************************)
(* Proofs about FunctionBodies, from three invariants.                     *)
(*                                                                         *)
(* IInv is for the types and the debugger: a frame's step type is `over'   *)
(* exactly if the last command reaches its depth, or while the debugger has*)
(* the word; the last command tells how far it reaches; and the parses of  *)
(* bodies lie over each other as the frames do.                            *)
(*                                                                         *)
(* Cuts is for the texts: each is a piece of its function's body in which  *)
(* the ifs are even, and stands on sides that were taken; a parse that     *)
(* collects has cut where it should; and the counter is what the parses owe*)
(* together, or more once one was given up inside an if.  While the counter*)
(* is more than the innermost parse owes, that parse finds neither its else*)
(* nor its end if; otherwise an else or end if it reads at 1 is its own.   *)
(*                                                                         *)
(* LinesKept is for the lines of plain bodies: nothing is left out of what *)
(* is collected of them, and each parse that may go on knows the line of   *)
(* its place, or, while a branch it made is parsed, what the line will be. *)
(***************************************************************************)
EXTENDS FunctionBodies, SequenceTheorems, FiniteSetTheorems, WellFoundedInduction, TLAPS

(* Which frames the debugger stops in: all of them while it has the word,  *)
(* the first `reach' of them when it has let go.                           *)
Stops ==
  \A i \in 1 .. Depth : frames[i].step = "over" <=> halted \/ i <= reach

(* What the last command left behind: how far it reaches.                  *)
Command ==
  /\ step = "in" => reach = N
  /\ step # "in" => reach <= Depth
  /\ step = "continue" => reach = 0
  /\ frames = <<>> => step = "continue" /\ ~halted

(* Calls go up: function f calls f + 1 and beyond only.                    *)
Upwards == \A i \in 1 .. Depth : frames[i].fn >= i

(* Every parse but the body of a function is made by one of the same       *)
(* function, and the bodies lie over each other as the frames do.          *)
Layer(i) ==
  /\ scans[i].depth >= 1
  /\ i = 1 => scans[i].use = "body" /\ scans[i].depth = 1
  /\ i > 1 /\ scans[i].use = "body" => scans[i].depth = scans[i - 1].depth + 1
  /\ i > 1 /\ scans[i].use # "body" => scans[i].depth = scans[i - 1].depth

Layers ==
  /\ \A i \in 1 .. Len(scans) : Layer(i)
  /\ scans # <<>> => Scn.depth = Depth

FramesOK ==
  /\ frames \in Seq(Frame) /\ Len(frames) <= N
  /\ step \in Steps /\ halted \in BOOLEAN /\ reach \in 0 .. N
  /\ Stops /\ Command /\ Upwards

ScansOK ==
  /\ scans \in Seq(Scan)
  /\ \A i \in 1 .. Len(scans) : scans[i].pos \in 1 .. Len(scans[i].text) + 1
  /\ Layers

RestOK ==
  /\ body \in [Functions -> Seq(Token)]
  /\ ifCounter \in Int /\ condition \in BOOLEAN /\ stopped \in BOOLEAN
  /\ breakpoints \in SUBSET Point /\ torn \in BOOLEAN

IInv == RestOK /\ FramesOK /\ ScansOK /\ (scans = <<>> <=> frames = <<>>)

-----------------------------------------------------------------------------
(* What the steps do to the parses.                                        *)

(* The innermost parse moves on.                                           *)
LEMMA MovedOn ==
  ASSUME ScansOK, scans # <<>>, Depth' = Depth,
         NEW s \in Scan, s.use = Scn.use, s.depth = Scn.depth, s.pos \in 1 .. Len(s.text) + 1,
         scans' = WithScan(s)
  PROVE  ScansOK' /\ scans' # <<>>
<1>1. Len(scans) \in Nat /\ Len(scans) >= 1
  BY DEF ScansOK
<1>2. /\ scans' \in Seq(Scan) /\ Len(scans') = Len(scans)
      /\ \A i \in 1 .. Len(scans) : scans'[i] = IF i = Len(scans) THEN s ELSE scans[i]
  BY <1>1 DEF ScansOK, WithScan
<1>3. Scn = scans[Len(scans)] /\ Scn' = s
  BY <1>1, <1>2 DEF Scn
<1>4. \A i \in 1 .. Len(scans') : scans'[i].pos \in 1 .. Len(scans'[i].text) + 1
  BY <1>1, <1>2 DEF ScansOK
<1>5. \A i \in 1 .. Len(scans) : scans'[i].depth = scans[i].depth /\ scans'[i].use = scans[i].use
  BY <1>1, <1>2, <1>3
<1>6. Layers'
  <2>1. ASSUME NEW i \in 1 .. Len(scans)
        PROVE  Layer(i)'
    <3>1. Layer(i)
      BY DEF ScansOK, Layers
    <3>2. i > 1 => i - 1 \in 1 .. Len(scans)
      BY <1>1
    <3> QED
      BY <1>1, <1>5, <3>1, <3>2 DEF Layer
  <2>2. Scn'.depth = Depth'
    BY <1>3 DEF ScansOK, Layers
  <2> QED
    BY <1>2, <2>1, <2>2 DEF Layers
<1> QED
  BY <1>1, <1>2, <1>4, <1>6 DEF ScansOK

(* A parse is made by the innermost one, for the same function or for one  *)
(* it calls.                                                               *)
LEMMA MadeInside ==
  ASSUME ScansOK, scans # <<>>, Depth \in Nat, Depth >= 1,
         NEW s \in Scan, s.use = Scn.use, s.depth = Scn.depth, s.pos \in 1 .. Len(s.text) + 1,
         NEW t \in Scan, t.pos = 1, t.depth = Depth',
         Depth' = IF t.use = "body" THEN Depth + 1 ELSE Depth,
         scans' = Append(WithScan(s), t)
  PROVE  ScansOK' /\ scans' # <<>>
<1>1. Len(scans) \in Nat /\ Len(scans) >= 1
  BY DEF ScansOK
<1>2. /\ scans' \in Seq(Scan) /\ Len(scans') = Len(scans) + 1
      /\ \A i \in 1 .. Len(scans) + 1 :
           scans'[i] = IF i = Len(scans) THEN s ELSE IF i = Len(scans) + 1 THEN t ELSE scans[i]
  BY <1>1 DEF ScansOK, WithScan
<1>3. Len(t.text) \in Nat
  BY DEF Scan
<1>4. Scn = scans[Len(scans)] /\ Scn' = t
  BY <1>1, <1>2 DEF Scn
<1>5. \A i \in 1 .. Len(scans') : scans'[i].pos \in 1 .. Len(scans'[i].text) + 1
  <2>1. t.pos \in 1 .. Len(t.text) + 1
    BY <1>3
  <2> QED
    BY <1>1, <1>2, <2>1 DEF ScansOK
<1>6. \A i \in 1 .. Len(scans) : scans'[i].depth = scans[i].depth /\ scans'[i].use = scans[i].use
  BY <1>1, <1>2, <1>4
<1>7. Layers'
  <2>1. ASSUME NEW i \in 1 .. Len(scans)
        PROVE  Layer(i)'
    <3>1. Layer(i)
      BY DEF ScansOK, Layers
    <3>2. i > 1 => i - 1 \in 1 .. Len(scans)
      BY <1>1
    <3> QED
      BY <1>1, <1>6, <3>1, <3>2 DEF Layer
  <2>2. ASSUME NEW i \in Nat, i = Len(scans) + 1
        PROVE  Layer(i)'
    <3>1. scans'[i] = t /\ i - 1 = Len(scans) /\ i > 1
      BY <1>1, <1>2, <2>2
    <3>2. scans'[i - 1].depth = Depth
      <4>1. Scn.depth = Depth
        BY DEF ScansOK, Layers
      <4>2. scans'[Len(scans)].depth = scans[Len(scans)].depth
        <5>1. Len(scans) \in 1 .. Len(scans)
          BY <1>1
        <5> QED
          BY <1>6, <5>1, Zenon
      <4> QED
        BY <1>4, <3>1, <4>1, <4>2
    <3> QED
      BY <3>1, <3>2 DEF Layer
  <2>3. Scn'.depth = Depth'
    BY <1>4
  <2>4. \A i \in 1 .. Len(scans') : Layer(i)'
    BY <1>1, <1>2, <2>1, <2>2
  <2> QED
    BY <2>3, <2>4 DEF Layers
<1> QED
  BY <1>1, <1>2, <1>5, <1>7 DEF ScansOK

(* The innermost parse ends; after the body of a function its caller goes  *)
(* on, or nothing is left.                                                 *)
LEMMA Ended ==
  ASSUME ScansOK, scans # <<>>, Depth \in Nat, Depth >= 1, scans' = Closed,
         Depth' = IF Scn.use = "body" THEN Depth - 1 ELSE Depth
  PROVE  /\ ScansOK' /\ (scans' = <<>> <=> Depth' = 0)
         /\ Scn.use # "body" => Below \in Scan
<1> DEFINE n == Len(scans)
<1>1. n \in Nat /\ n >= 1
  BY DEF ScansOK
<1>2. /\ scans' \in Seq(Scan) /\ Len(scans') = n - 1
      /\ \A i \in 1 .. n - 1 : scans'[i] = scans[i]
  <2>1. \A i \in 1 .. n - 1 : scans[i] \in Scan
    BY <1>1 DEF ScansOK
  <2>2. 1 \in Int /\ n - 1 \in Int
    BY <1>1
  <2>3. /\ SubSeq(scans, 1, n - 1) \in Seq(Scan)
        /\ Len(SubSeq(scans, 1, n - 1)) = IF 1 <= n - 1 THEN n - 1 - 1 + 1 ELSE 0
        /\ \A i \in 1 .. n - 1 - 1 + 1 : SubSeq(scans, 1, n - 1)[i] = scans[1 + i - 1]
    BY <2>1, <2>2, SubSeqProperties
  <2>4. scans' = SubSeq(scans, 1, n - 1)
    BY DEF Closed
  <2> HIDE DEF n
  <2>5. \A i \in 1 .. n - 1 : 1 + i - 1 = i
    OBVIOUS
  <2> QED
    BY <1>1, <2>3, <2>4, <2>5
<1>3. n > 1 => Below = scans[n - 1] /\ Below \in Scan
  BY <1>1 DEF ScansOK, Below
<1>4. Layer(n) /\ scans[n].depth = Depth /\ Scn = scans[n]
  BY <1>1 DEF ScansOK, Layers, Scn
<1> HIDE DEF n
<1>5. /\ Scn.use # "body" => n > 1
      /\ n > 1 => Below.depth >= 1 /\ Below.depth = Depth'
      /\ n = 1 => Depth' = 0
  <2>1. n > 1 => Layer(n - 1)
    BY <1>1 DEF ScansOK, Layers, n
  <2>2. n > 1 => Below.depth \in Nat
    BY <1>3 DEF Scan
  <2> QED
    BY <1>1, <1>3, <1>4, <2>1, <2>2 DEF Layer
<1>6. Layers'
  <2>1. ASSUME NEW i \in 1 .. n - 1
        PROVE  Layer(i)'
    <3>1. Layer(i)
      BY <1>1 DEF ScansOK, Layers, n
    <3>2. scans'[i] = scans[i] /\ (i > 1 => scans'[i - 1] = scans[i - 1])
      BY <1>1, <1>2
    <3> QED
      BY <1>1, <3>1, <3>2 DEF Layer
  <2>2. scans' # <<>> => Scn'.depth = Depth'
    BY <1>1, <1>2, <1>3, <1>5 DEF Scn
  <2> QED
    BY <1>2, <2>1, <2>2 DEF Layers
<1>7. \A i \in 1 .. Len(scans') : scans'[i].pos \in 1 .. Len(scans'[i].text) + 1
  <2>1. \A i \in 1 .. n : scans[i].pos \in 1 .. Len(scans[i].text) + 1
    BY DEF ScansOK, n
  <2> QED
    BY <1>1, <1>2, <2>1
<1>8. scans' = <<>> <=> Depth' = 0
  BY <1>1, <1>2, <1>5
<1> QED
  BY <1>2, <1>3, <1>5, <1>6, <1>7, <1>8 DEF ScansOK

(* A parse that is not of a body was made by one of the same function.     *)
LEMMA MadeBySame ==
  ASSUME ScansOK, scans # <<>>, Scn.use # "body"
  PROVE  Len(scans) > 1 /\ scans[Len(scans) - 1].depth = Scn.depth
<1>1. Len(scans) \in Nat /\ Len(scans) >= 1 /\ Scn = scans[Len(scans)]
  BY DEF ScansOK, Scn
<1>2. Layer(Len(scans))
  BY <1>1 DEF ScansOK, Layers
<1>3. scans[Len(scans)].use # "body"
  BY <1>1
<1>4. Len(scans) # 1
  BY <1>2, <1>3 DEF Layer
<1>5. Len(scans) > 1
  BY <1>1, <1>4
<1>6. scans[Len(scans)].depth = scans[Len(scans) - 1].depth
  BY <1>2, <1>3, <1>5 DEF Layer
<1> QED
  BY <1>1, <1>5, <1>6

(* A loop's body and its condition take turns in one place.                *)
LEMMA TakenTurns ==
  ASSUME ScansOK, scans # <<>>, Depth \in Nat, Depth >= 1, Depth' = Depth, Scn.use # "body",
         NEW t \in Scan, t.pos = 1, t.depth = Depth, t.use # "body",
         scans' = Append(Closed, t)
  PROVE  ScansOK' /\ scans' # <<>> /\ Below \in Scan
<1>1. Len(scans) \in Nat /\ Len(scans) >= 1 /\ scans \in Seq(Scan) /\ Scn = scans[Len(scans)]
  BY DEF ScansOK, Scn
<1>2. Scn.depth = Depth
  BY DEF ScansOK, Layers
<1>3. Len(scans) > 1 /\ scans[Len(scans) - 1].depth = Depth
  BY <1>2, MadeBySame
<1>4. /\ scans' \in Seq(Scan) /\ Len(scans') = Len(scans)
      /\ \A i \in 1 .. Len(scans) : scans'[i] = IF i = Len(scans) THEN t ELSE scans[i]
  <2>1. /\ Closed \in Seq(Scan) /\ Len(Closed) = Len(scans) - 1
        /\ \A i \in 1 .. Len(scans) - 1 : Closed[i] = scans[i]
    BY <1>1, <1>3 DEF Closed
  <2> QED
    BY <1>1, <1>3, <2>1
<1>5. \A i \in 1 .. Len(scans') : scans'[i].pos \in 1 .. Len(scans'[i].text) + 1
  <2>1. t.pos \in 1 .. Len(t.text) + 1
    BY DEF Scan
  <2> QED
    BY <1>1, <1>4, <2>1 DEF ScansOK
<1>6. Layers'
  <2>1. ASSUME NEW i \in 1 .. Len(scans) - 1
        PROVE  Layer(i)'
    <3>1. Layer(i)
      BY <1>1 DEF ScansOK, Layers
    <3>2. scans'[i] = scans[i] /\ (i > 1 => scans'[i - 1] = scans[i - 1])
      BY SMTT(30), <1>1, <1>4
    <3> QED
      BY <1>1, <3>1, <3>2 DEF Layer
  <2>2. ASSUME NEW i \in Nat, i = Len(scans)
        PROVE  Layer(i)'
    <3>1. scans'[i] = t /\ scans'[i - 1] = scans[i - 1] /\ i > 1
      BY <1>1, <1>3, <1>4, <2>2
    <3> QED
      BY <1>3, <2>2, <3>1 DEF Layer
  <2>3. Scn'.depth = Depth'
    BY <1>1, <1>4 DEF Scn
  <2>4. \A i \in 1 .. Len(scans') : Layer(i)'
    BY <1>1, <1>4, <2>1, <2>2
  <2> QED
    BY <2>3, <2>4 DEF Layers
<1>7. Below \in Scan
  BY <1>1, <1>3 DEF Below
<1> QED
  BY <1>1, <1>4, <1>5, <1>6, <1>7 DEF ScansOK

-----------------------------------------------------------------------------
(* What the steps do to the frames and the debugger.                       *)

(* Setting other fields of the function that runs disturbs nothing.        *)
LEMMA FrameChanged ==
  ASSUME FramesOK, frames # <<>>, NEW f \in Frame, f.fn = Frm.fn, f.step = Frm.step,
         frames' = WithFrame(f), UNCHANGED <<step, halted, reach>>
  PROVE  FramesOK' /\ Depth' = Depth
<1>1. Depth \in Nat /\ Depth >= 1
  BY DEF FramesOK, Depth
<1>2. /\ frames' \in Seq(Frame) /\ Depth' = Depth
      /\ \A i \in 1 .. Depth : frames'[i] = IF i = Depth THEN f ELSE frames[i]
  BY <1>1 DEF FramesOK, WithFrame, Depth
<1> QED
  BY <1>1, <1>2 DEF FramesOK, Stops, Command, Upwards, Frm, Depth

LEMMA AllStepsSet ==
  ASSUME NEW fs \in Seq(Frame), NEW st \in {"continue", "over"}
  PROVE  /\ AllSteps(fs, st) \in Seq(Frame) /\ Len(AllSteps(fs, st)) = Len(fs)
         /\ \A i \in 1 .. Len(fs) : AllSteps(fs, st)[i].fn = fs[i].fn /\ AllSteps(fs, st)[i].step = st
<1>1. ASSUME NEW i \in 1 .. Len(fs)
      PROVE  LET f == [fs[i] EXCEPT !.step = st] IN f \in Frame /\ f.fn = fs[i].fn /\ f.step = st
  <2>1. fs[i] \in Frame
    OBVIOUS
  <2> QED
    BY <2>1 DEF Frame
<1>2. AllSteps(fs, st) \in [1 .. Len(fs) -> Frame]
  BY <1>1 DEF AllSteps
<1>3. Len(fs) \in Nat
  OBVIOUS
<1>4. AllSteps(fs, st) \in Seq(Frame) /\ Len(AllSteps(fs, st)) = Len(fs)
  BY <1>2, <1>3
<1>5. \A i \in 1 .. Len(fs) : AllSteps(fs, st)[i] = [fs[i] EXCEPT !.step = st]
  BY DEF AllSteps
<1> QED
  BY <1>1, <1>4, <1>5

(* What the debugger's answer does to the functions the last command does  *)
(* not reach: nothing; to those it reaches, also nothing, unless it is the *)
(* one that has just been stepped out of, or all are let go.               *)
LEMMA SettledSet ==
  ASSUME NEW fs \in Seq(Frame), fs # <<>>, NEW st \in Steps
  PROVE  LET gs == Settled(fs, st)
         IN /\ gs \in Seq(Frame) /\ Len(gs) = Len(fs)
            /\ \A i \in 1 .. Len(fs) :
                 /\ gs[i].fn = fs[i].fn
                 /\ gs[i].step = IF st = "continue" \/ (st = "out" /\ i = Len(fs)) THEN "continue"
                                                                             ELSE fs[i].step
<1>1. Len(fs) \in Nat /\ Len(fs) >= 1 /\ fs[Len(fs)] \in Frame
  OBVIOUS
<1>2. CASE st = "continue"
  <2>1. Settled(fs, st) = AllSteps(fs, "continue")
    BY <1>2 DEF Settled
  <2>2. "continue" \in {"continue", "over"}
    OBVIOUS
  <2> HIDE DEF Settled
  <2> QED
    BY <1>2, <2>1, <2>2, AllStepsSet
<1>3. CASE st = "out"
  <2> DEFINE f == [fs[Len(fs)] EXCEPT !.step = "continue"]
  <2>1. f \in Frame /\ f.fn = fs[Len(fs)].fn /\ f.step = "continue"
    BY <1>1 DEF Frame
  <2>2. Settled(fs, st) = [fs EXCEPT ![Len(fs)] = f]
    BY <1>3 DEF Settled
  <2> HIDE DEF f
  <2>3. /\ [fs EXCEPT ![Len(fs)] = f] \in Seq(Frame) /\ Len([fs EXCEPT ![Len(fs)] = f]) = Len(fs)
        /\ \A i \in 1 .. Len(fs) : [fs EXCEPT ![Len(fs)] = f][i] = IF i = Len(fs) THEN f ELSE fs[i]
    BY <1>1, <2>1
  <2> QED
    BY <1>1, <1>3, <2>1, <2>2, <2>3
<1>4. CASE st \notin {"continue", "out"}
  <2>1. Settled(fs, st) = fs
    BY <1>4 DEF Settled
  <2> QED
    BY <1>1, <1>4, <2>1
<1> QED
  BY <1>2, <1>3, <1>4

(* raiseBreakPointException halts the program in a function the last       *)
(* command reaches, or at a breakpoint, and changes no step type else.     *)
LEMMA Raised ==
  ASSUME FramesOK, frames # <<>>, ~halted, breakpoints \in SUBSET Point,
         NEW f \in Frame, f.fn = Frm.fn, f.step = Frm.step, NEW line \in Nat,
         Raise(f, line), UNCHANGED <<step, reach>>
  PROVE  FramesOK' /\ Depth' = Depth /\ breakpoints' \in SUBSET Point
<1> DEFINE g  == [f EXCEPT !.inner = line, !.announced = line]
           fs == WithFrame(g)
<1>1. Depth \in Nat /\ Depth >= 1 /\ Depth = Len(frames) /\ frames \in Seq(Frame)
  BY DEF FramesOK, Depth
<1>2. g \in Frame /\ g.fn = Frm.fn /\ g.step = Frm.step
  BY DEF Frame
<1> HIDE DEF g
<1>3. /\ fs \in Seq(Frame) /\ Len(fs) = Depth /\ fs # <<>>
      /\ \A i \in 1 .. Depth : fs[i] = IF i = Depth THEN g ELSE frames[i]
  <2>1. fs = [frames EXCEPT ![Len(frames)] = g]
    BY DEF WithFrame, Depth
  <2> HIDE DEF fs
  <2> QED
    BY <1>1, <1>2, <2>1
<1>4. \A i \in 1 .. Depth : fs[i].fn >= i /\ (fs[i].step = "over" <=> i <= reach)
  <2>1. \A i \in 1 .. Depth : frames[i].fn >= i /\ (frames[i].step = "over" <=> i <= reach)
    BY DEF FramesOK, Stops, Upwards
  <2>2. g.fn = frames[Depth].fn /\ g.step = frames[Depth].step
    BY <1>2 DEF Frm
  <2> HIDE DEF fs
  <2> QED
    BY <1>1, <1>3, <2>1, <2>2
<1>5. g.step = "over" <=> Depth <= reach
  BY <1>1, <1>3, <1>4
<1>6. breakpoints' \in SUBSET Point
  BY DEF Raise
<1>7. \/ halted' = TRUE /\ frames' = AllSteps(fs, "over")
      \/ halted' = (g.step = "over") /\ frames' = IF g.step = "over" THEN fs ELSE Settled(fs, step)
  BY DEF Raise, g, fs
<1>8. /\ step \in Steps /\ reach \in 0 .. N /\ Depth <= N /\ step' = step /\ reach' = reach
      /\ step = "in" => reach = N
      /\ step # "in" => reach <= Depth
      /\ step = "continue" => reach = 0
  BY DEF FramesOK, Command, Depth
<1> HIDE DEF fs
<1>9. /\ frames' \in Seq(Frame) /\ Len(frames') = Depth /\ halted' \in BOOLEAN
      /\ \A i \in 1 .. Depth : frames'[i].fn >= i
      /\ \A i \in 1 .. Depth : frames'[i].step = "over" <=> halted' \/ i <= reach
  <2>1. CASE halted' = TRUE /\ frames' = AllSteps(fs, "over")
    <3>1. "over" \in {"continue", "over"}
      OBVIOUS
    <3> QED
      BY <1>3, <1>4, <2>1, <3>1, AllStepsSet
  <2>2. CASE halted' = TRUE /\ g.step = "over" /\ frames' = fs
    BY <1>1, <1>3, <1>4, <1>5, <1>8, <2>2
  <2>3. CASE halted' = FALSE /\ g.step # "over" /\ frames' = Settled(fs, step)
    <3>1. /\ frames' \in Seq(Frame) /\ Len(frames') = Depth
          /\ \A i \in 1 .. Depth :
               /\ frames'[i].fn = fs[i].fn
               /\ frames'[i].step = IF step = "continue" \/ (step = "out" /\ i = Depth) THEN "continue"
                                                                                 ELSE fs[i].step
      BY <1>3, <1>8, <2>3, SettledSet
    <3>2. reach < Depth
      BY <1>1, <1>5, <1>8, <2>3
    <3>3. ASSUME NEW i \in 1 .. Depth
          PROVE  frames'[i].step = "over" <=> i <= reach
      <4>1. CASE step = "continue" \/ (step = "out" /\ i = Depth)
        <5>1. frames'[i].step = "continue"
          BY <3>1, <4>1
        <5>2. ~(i <= reach)
          BY <1>1, <1>8, <3>2, <4>1
        <5> QED
          BY <5>1, <5>2
      <4>2. CASE ~(step = "continue" \/ (step = "out" /\ i = Depth))
        <5>1. frames'[i].step = fs[i].step
          BY <3>1, <4>2
        <5> QED
          BY <1>4, <5>1
      <4> QED
        BY <4>1, <4>2
    <3>4. \A i \in 1 .. Depth : frames'[i].fn >= i
      BY <1>4, <3>1
    <3> QED
      BY <2>3, <3>1, <3>3, <3>4
  <2> QED
    BY <1>7, <2>1, <2>2, <2>3
<1>10. Depth' = Depth /\ frames' # <<>>
  BY <1>1, <1>9 DEF Depth
<1>11. Stops' /\ Upwards'
  <2>1. \A i \in 1 .. Depth' : frames'[i].fn >= i
    BY <1>9, <1>10
  <2>2. \A i \in 1 .. Depth' : frames'[i].step = "over" <=> halted' \/ i <= reach'
    BY <1>8, <1>9, <1>10
  <2> QED
    BY <2>1, <2>2 DEF Stops, Upwards
<1>12. Command'
  BY <1>8, <1>10 DEF Command
<1> QED
  BY <1>6, <1>8, <1>9, <1>10, <1>11, <1>12 DEF FramesOK, Depth

-----------------------------------------------------------------------------
(* What is known while a function runs.                                    *)

LEMMA Inside ==
  ASSUME IInv, frames # <<>>
  PROVE  /\ scans # <<>> /\ Scn \in Scan /\ Scn.pos \in 1 .. Len(Scn.text) + 1 /\ Scn.depth = Depth
         /\ Depth \in Nat /\ Depth >= 1 /\ Depth <= N
         /\ Frm \in Frame /\ Fn \in Functions /\ Fn >= Depth
<1>1. Len(scans) \in Nat /\ Len(scans) >= 1 /\ scans # <<>>
  BY DEF IInv, ScansOK
<1>2. Len(frames) \in Nat /\ Len(frames) >= 1 /\ Len(frames) <= N
  BY DEF IInv, FramesOK
<1>3. Scn \in Scan /\ Scn.pos \in 1 .. Len(Scn.text) + 1 /\ Scn.depth = Depth
  BY <1>1 DEF IInv, ScansOK, Layers, Scn
<1>4. Frm \in Frame
  BY <1>2 DEF IInv, FramesOK, Frm, Depth
<1>5. Fn \in Functions
  BY <1>4 DEF Fn, Frame
<1>6. Fn >= Depth
  BY <1>2 DEF IInv, FramesOK, Upwards, Fn, Frm, Depth
<1> QED
  BY <1>1, <1>2, <1>3, <1>4, <1>5, <1>6 DEF Depth

(* A token of the text is before the scanner.                              *)
LEMMA AtToken ==
  ASSUME IInv, frames # <<>>, Tok # "end"
  PROVE  Here \in Nat /\ Scn.pos + 1 \in 1 .. Len(Scn.text) + 1
<1>1. Scn \in Scan /\ Scn.pos \in 1 .. Len(Scn.text) + 1
  BY Inside
<1>2. Here # 0
  BY DEF Tok
<1>3. Scn.pos <= Len(Scn.text) /\ Here = Scn.text[Scn.pos]
  BY <1>2 DEF Here
<1>4. Scn.text \in Seq(Nat)
  BY <1>1 DEF Scan
<1>5. Len(Scn.text) \in Nat
  BY <1>4
<1>6. Scn.pos \in 1 .. Len(Scn.text)
  BY <1>1, <1>3, <1>5
<1> QED
  BY <1>3, <1>4, <1>5, <1>6

Moves(s) ==
  s \in Scan /\ s.use = Scn.use /\ s.depth = Scn.depth /\ s.pos \in 1 .. Len(s.text) + 1

LEMMA PosSet ==
  ASSUME NEW s \in Scan, NEW p \in Nat
  PROVE  LET r == [s EXCEPT !.pos = p]
         IN r \in Scan /\ r.use = s.use /\ r.depth = s.depth /\ r.pos = p /\ r.text = s.text
            /\ r.cond = s.cond /\ r.yes = s.yes
  BY DEF Scan

LEMMA PastMoves ==
  ASSUME IInv, frames # <<>>, Tok # "end"
  PROVE  Moves(Past(Scn)) /\ Past(Scn).cond = Scn.cond /\ Past(Scn).yes = Scn.yes
<1>1. Scn \in Scan /\ Scn.pos + 1 \in 1 .. Len(Scn.text) + 1 /\ Scn.pos \in Nat
  BY Inside, AtToken DEF Scan
<1>2. Scn.pos + 1 \in Nat
  BY <1>1
<1>3. Past(Scn) = [Scn EXCEPT !.pos = Scn.pos + 1]
  BY DEF Past
<1> QED
  BY <1>1, <1>2, <1>3, PosSet DEF Moves

LEMMA CollectMoves ==
  ASSUME IInv, frames # <<>>, Tok # "end"
  PROVE  Moves(Collect(Scn)) /\ Moves(Condition(Scn))
<1> DEFINE p == Scn.pos + 1
<1>1. Scn \in Scan /\ p \in 1 .. Len(Scn.text) + 1 /\ p \in Nat /\ Here \in Nat
  BY Inside, AtToken DEF Scan
<1>2. Append(Scn.no, Here) \in Seq(Nat) /\ Append(Scn.yes, Here) \in Seq(Nat) /\ Append(Scn.cond, Here) \in Seq(Nat)
  BY <1>1 DEF Scan
<1> HIDE DEF p
<1>3. ASSUME NEW x \in Seq(Nat)
      PROVE  /\ Moves([Scn EXCEPT !.no = x, !.pos = p])
             /\ Moves([Scn EXCEPT !.yes = x, !.pos = p])
             /\ Moves([Scn EXCEPT !.cond = x, !.pos = p])
  <2>1. Moves([Scn EXCEPT !.no = x, !.pos = p])
    BY <1>1 DEF Moves, Scan
  <2>2. Moves([Scn EXCEPT !.yes = x, !.pos = p])
    BY <1>1 DEF Moves, Scan
  <2>3. Moves([Scn EXCEPT !.cond = x, !.pos = p])
    BY <1>1 DEF Moves, Scan
  <2> QED
    BY <2>1, <2>2, <2>3
<1> QED
  BY <1>2, <1>3 DEF Collect, Condition, p

LEMMA NewScanSet ==
  ASSUME NEW use \in Uses, NEW depth \in Nat, NEW text \in Seq(Nat), ifCounter' \in Int
  PROVE  /\ NewScan(use, depth, text) \in Scan
         /\ NewScan(use, depth, text).pos = 1
         /\ NewScan(use, depth, text).use = use /\ NewScan(use, depth, text).depth = depth
<1>1. <<>> \in Seq(Nat)
  OBVIOUS
<1> QED
  BY <1>1 DEF NewScan, Scan, Modes, Uses

LEMMA WholeText ==
  ASSUME body \in [Functions -> Seq(Token)], NEW f \in Functions
  PROVE  Whole(f) \in Seq(Nat)
<1>1. Len(body[f]) \in Nat
  OBVIOUS
<1>2. Whole(f) \in [1 .. Len(body[f]) -> Nat]
  BY DEF Whole
<1> QED
  BY <1>1, <1>2

LEMMA NewlinesNat ==
  ASSUME NEW x \in Seq(Nat)
  PROVE  Newlines(x) \in Nat
<1> DEFINE S == {k \in 1 .. Len(x) : body[Fn][x[k]] \in {"nl", "comment"}}
<1>1. Len(x) \in Nat
  OBVIOUS
<1>2. IsFiniteSet(1 .. Len(x))
  BY <1>1, FS_Interval
<1>3. IsFiniteSet(S)
  <2>1. S \subseteq 1 .. Len(x)
    OBVIOUS
  <2> HIDE DEF S
  <2> QED
    BY <1>2, <2>1, FS_Subset
<1> QED
  BY <1>3, FS_CardinalityType DEF Newlines

LEMMA FieldsMove ==
  ASSUME NEW s, Moves(s), NEW m \in Modes, NEW b \in BOOLEAN, NEW c \in BOOLEAN, NEW k \in Nat
  PROVE  /\ Moves([s EXCEPT !.mode = m]) /\ Moves([s EXCEPT !.else = b])
         /\ Moves([s EXCEPT !.mode = m, !.cond = <<>>, !.yes = <<>>, !.no = <<>>, !.else = b, !.counted = c])
         /\ Moves([s EXCEPT !.mode = m, !.cond = <<>>, !.yes = <<>>, !.else = b])
         /\ Moves([s EXCEPT !.mode = m, !.at = k])
         /\ Moves([s EXCEPT !.mode = m, !.line = k, !.backup = b])
         /\ Moves([s EXCEPT !.mode = m, !.counted = b])
<1>1. s \in Scan /\ <<>> \in Seq(Nat)
  BY DEF Moves
<1>2. Moves([s EXCEPT !.mode = m]) /\ Moves([s EXCEPT !.else = b])
  BY <1>1 DEF Moves, Scan
<1>3. Moves([s EXCEPT !.mode = m, !.cond = <<>>, !.yes = <<>>, !.no = <<>>, !.else = b, !.counted = c])
  BY <1>1 DEF Moves, Scan
<1>4. Moves([s EXCEPT !.mode = m, !.cond = <<>>, !.yes = <<>>, !.else = b])
  BY <1>1 DEF Moves, Scan
<1>5. Moves([s EXCEPT !.mode = m, !.at = k])
  BY <1>1 DEF Moves, Scan
<1>6. Moves([s EXCEPT !.mode = m, !.line = k, !.backup = b])
  BY <1>1 DEF Moves, Scan
<1>7. Moves([s EXCEPT !.mode = m, !.counted = b])
  BY <1>1 DEF Moves, Scan
<1> QED
  BY <1>2, <1>3, <1>4, <1>5, <1>6, <1>7

(* The frames of a step that leaves them and the debugger's command alone. *)
LEMMA FramesLeft ==
  ASSUME FramesOK, UNCHANGED <<frames, step, halted, reach>>
  PROVE  FramesOK' /\ Depth' = Depth
BY DEF FramesOK, Stops, Command, Upwards, Depth

(* A step of the innermost parse.                                          *)
LEMMA StepOfScan ==
  ASSUME IInv, frames # <<>>, Depth' = Depth, NEW s, Moves(s), scans' = WithScan(s)
  PROVE  ScansOK' /\ scans' # <<>>
<1>1. s \in Scan /\ s.use = Scn.use /\ s.depth = Scn.depth /\ s.pos \in 1 .. Len(s.text) + 1
  BY DEF Moves
<1>2. ScansOK /\ scans # <<>>
  BY DEF IInv
<1> QED
  BY <1>1, <1>2, MovedOn

LEMMA StepInside ==
  ASSUME IInv, frames # <<>>, Depth' = Depth, ifCounter' \in Int, NEW s, Moves(s),
         NEW use \in Uses \ {"body"}, NEW text \in Seq(Nat), scans' = Opened(s, use, text)
  PROVE  ScansOK' /\ scans' # <<>>
<1>1. s \in Scan /\ s.use = Scn.use /\ s.depth = Scn.depth /\ s.pos \in 1 .. Len(s.text) + 1
  BY DEF Moves
<1>2. ScansOK /\ scans # <<>>
  BY DEF IInv
<1>3. Depth \in Nat /\ Depth >= 1
  BY Inside
<1> DEFINE t == NewScan(use, Depth, text)
<1>4. t \in Scan /\ t.pos = 1 /\ t.use = use /\ t.depth = Depth
  BY <1>3, NewScanSet
<1>5. scans' = Append(WithScan(s), t)
  BY DEF Opened
<1> HIDE DEF t
<1>6. Depth' = IF t.use = "body" THEN Depth + 1 ELSE Depth
  BY <1>4
<1>7. t.depth = Depth'
  BY <1>4
<1> QED
  BY <1>1, <1>2, <1>3, <1>4, <1>5, <1>6, <1>7, MadeInside

-----------------------------------------------------------------------------
(* Each step.                                                              *)

(* Steps that only read a token.                                           *)
Simple ==
  \/ Statement \/ BadStatement \/ If \/ ConditionChar \/ IfLine \/ Else \/ While \/ LoopLine

LEMMA SimpleSteps == IInv /\ Simple => IInv'
<1> SUFFICES ASSUME IInv, Simple PROVE IInv'
  OBVIOUS
<1>1. UNCHANGED <<body, frames, condition, debugger, torn>> /\ stopped' \in BOOLEAN
  BY DEF Simple, Statement, BadStatement, If, ConditionChar, IfLine, Else, While, LoopLine, debugger, IInv, RestOK
<1>2. frames # <<>>
  BY DEF Simple, Statement, BadStatement, If, ConditionChar, IfLine, Else, While, LoopLine, Reads, Parsing
<1>3. Tok # "end"
  BY DEF Simple, Statement, BadStatement, If, ConditionChar, IfLine, Else, While, LoopLine, Reads, Token
<1>4. FramesOK' /\ Depth' = Depth
  BY <1>1, FramesLeft DEF IInv, debugger
<1>5. ifCounter' \in Int
  BY DEF Simple, Statement, BadStatement, If, ConditionChar, IfLine, Else, While, LoopLine, IInv, RestOK, OneMore, OneLess
<1>6. RestOK'
  BY <1>1, <1>5 DEF IInv, RestOK, debugger
<1>7. \/ scans' = scans
      \/ \E s : Moves(s) /\ scans' = WithScan(s)
  <2>1. Moves(Past(Scn)) /\ Moves(Collect(Scn)) /\ Moves(Condition(Scn))
    BY <1>2, <1>3, PastMoves, CollectMoves
  <2>2. /\ "if" \in Modes /\ "while" \in Modes /\ "pending" \in Modes
        /\ FALSE \in BOOLEAN /\ TRUE \in BOOLEAN /\ 0 \in Nat
    BY DEF Modes
  <2>3. /\ Moves([Past(Scn) EXCEPT !.mode = "if", !.cond = <<>>, !.yes = <<>>, !.no = <<>>,
                                  !.else = FALSE, !.counted = FALSE])
        /\ Moves([Past(Scn) EXCEPT !.mode = "while", !.cond = <<>>, !.yes = <<>>, !.else = FALSE])
        /\ Moves([Past(Scn) EXCEPT !.mode = "pending"]) /\ Moves([Past(Scn) EXCEPT !.else = TRUE])
    BY <2>1, <2>2, FieldsMove
  <2>4. CASE Statement
    BY <2>1, <2>4 DEF Statement
  <2>5. CASE BadStatement
    BY <2>5 DEF BadStatement
  <2>6. CASE If
    BY <2>3, <2>6 DEF If
  <2>7. CASE ConditionChar
    BY <2>1, <2>7 DEF ConditionChar
  <2>8. CASE IfLine
    BY <2>1, <2>8 DEF IfLine
  <2>9. CASE Else
    BY <2>3, <2>9 DEF Else
  <2>10. CASE While
    BY <2>3, <2>10 DEF While
  <2>11. CASE LoopLine
    BY <2>1, <2>3, <2>11 DEF LoopLine
  <2> QED
    BY <2>4, <2>5, <2>6, <2>7, <2>8, <2>9, <2>10, <2>11 DEF Simple
<1>8. ScansOK' /\ scans' # <<>>
  <2>1. CASE scans' = scans
    BY <1>2, <1>4, <2>1 DEF IInv, ScansOK, Layers, Layer, Scn
  <2>2. CASE \E s : Moves(s) /\ scans' = WithScan(s)
    BY <1>2, <1>4, <2>2, StepOfScan
  <2> QED
    BY <1>7, <2>1, <2>2
<1>9. frames' # <<>>
  BY <1>1, <1>2
<1> QED
  BY <1>4, <1>6, <1>8, <1>9 DEF IInv

LEMMA NewlineSteps == IInv /\ Newline => IInv'
<1> SUFFICES ASSUME IInv, Newline PROVE IInv'
  OBVIOUS
<1>1. /\ frames # <<>> /\ ~halted /\ Tok # "end"
      /\ scans' = WithScan(Past(Scn)) /\ Raise(Frm, Frm.inner + 1)
      /\ UNCHANGED <<body, ifCounter, condition, stopped, step, reach, torn>>
  BY DEF Newline, Reads, Parsing
<1>2. Frm \in Frame /\ Frm.inner + 1 \in Nat
  BY <1>1, Inside DEF Frame
<1>3. FramesOK' /\ Depth' = Depth /\ breakpoints' \in SUBSET Point
  BY <1>1, <1>2, Raised DEF IInv, RestOK
<1>4. ScansOK' /\ scans' # <<>>
  BY <1>1, <1>3, PastMoves, StepOfScan
<1>5. RestOK'
  BY <1>1, <1>3 DEF IInv, RestOK
<1>6. frames' # <<>>
  BY <1>1, <1>3, Inside DEF Depth
<1> QED
  BY <1>3, <1>4, <1>5, <1>6 DEF IInv

LEMMA ReturnSteps == IInv /\ Return => IInv'
<1> SUFFICES ASSUME IInv, Return PROVE IInv'
  OBVIOUS
<1> DEFINE f == [Frm EXCEPT !.returned = TRUE]
<1>1. /\ frames # <<>> /\ frames' = WithFrame(f)
      /\ UNCHANGED <<body, scans, ifCounter, condition, stopped, debugger, torn>>
  BY DEF Return, Reads, Parsing
<1>2. f \in Frame /\ f.fn = Frm.fn /\ f.step = Frm.step
  BY <1>1, Inside DEF Frame
<1> HIDE DEF f
<1>3. FramesOK' /\ Depth' = Depth
  BY <1>1, <1>2, FrameChanged DEF IInv, debugger
<1>4. ScansOK' /\ scans' # <<>>
  BY <1>1, <1>3, Inside DEF IInv, ScansOK, Layers, Layer, Scn
<1>5. RestOK' /\ frames' # <<>>
  BY <1>1, <1>3, Inside DEF IInv, RestOK, debugger, Depth
<1> QED
  BY <1>3, <1>4, <1>5 DEF IInv

(* Steps that may parse a text inside.                                     *)
LEMMA InnerSteps == IInv /\ (Then \/ Loop \/ RunLoop) => IInv'
<1> SUFFICES ASSUME IInv, Then \/ Loop \/ RunLoop PROVE IInv'
  OBVIOUS
<1>1. frames # <<>> /\ UNCHANGED <<body, frames, condition, stopped, debugger, torn>>
  BY DEF Then, Loop, RunLoop, Reads, Parsing
<1>2. FramesOK' /\ Depth' = Depth
  BY <1>1, FramesLeft DEF IInv, debugger
<1>3. ifCounter' \in Int
  BY DEF Then, Loop, RunLoop, IInv, RestOK, OneMore
<1>4. RestOK' /\ frames' # <<>>
  BY <1>1, <1>3 DEF IInv, RestOK, debugger
<1>5. Scn \in Scan /\ Scn.cond \in Seq(Nat) /\ Scn.yes \in Seq(Nat) /\ Moves(Scn)
  BY <1>1, Inside DEF Scan, Moves
<1>6. /\ "condition" \in Uses \ {"body"} /\ "loop" \in Uses \ {"body"}
      /\ "then" \in Modes /\ "loop" \in Modes /\ "initial" \in Modes
      /\ TRUE \in BOOLEAN /\ FALSE \in BOOLEAN /\ 0 \in Nat
  BY DEF Uses, Modes
<1>7. ScansOK' /\ scans' # <<>>
  <2>1. CASE Then
    <3>1. Tok # "end" /\ scans' = Opened([Past(Scn) EXCEPT !.mode = "then", !.at = Here], "condition", Scn.cond)
      BY <2>1 DEF Then, Reads
    <3>2. Moves([Past(Scn) EXCEPT !.mode = "then", !.at = Here])
      BY <1>1, <1>6, <3>1, PastMoves, AtToken, FieldsMove
    <3> QED
      BY <1>1, <1>2, <1>3, <1>5, <1>6, <3>1, <3>2, StepInside
  <2>2. CASE Loop
    <3>1. Tok # "end" /\ scans' = Opened([Past(Scn) EXCEPT !.mode = "loop"], "condition", Scn.cond)
      BY <2>2 DEF Loop, Reads
    <3>2. Moves([Past(Scn) EXCEPT !.mode = "loop"])
      BY <1>1, <1>6, <3>1, PastMoves, FieldsMove
    <3> QED
      BY <1>1, <1>2, <1>3, <1>5, <1>6, <3>1, <3>2, StepInside
  <2>3. CASE RunLoop
    <3> DEFINE s == [Scn EXCEPT !.mode = "initial", !.counted = (Tok = "if")]
    <3>1. scans' = IF condition THEN Opened(s, "loop", Scn.yes) ELSE WithScan(s)
      BY <2>3 DEF RunLoop
    <3>2. Moves(s)
      BY <1>5, <1>6, FieldsMove
    <3> HIDE DEF s
    <3>3. CASE condition
      <4>1. scans' = Opened(s, "loop", Scn.yes)
        BY <3>1, <3>3
      <4> QED
        BY <1>1, <1>2, <1>3, <1>5, <1>6, <3>2, <4>1, StepInside
    <3>4. CASE ~condition
      <4>1. scans' = WithScan(s)
        BY <3>1, <3>4
      <4> QED
        BY <1>1, <1>2, <3>2, <4>1, StepOfScan
    <3> QED
      BY <3>3, <3>4
  <2> QED
    BY <2>1, <2>2, <2>3
<1> QED
  BY <1>2, <1>4, <1>7 DEF IInv

(* end if.                                                                 *)
LEMMA BlockSteps == IInv /\ (RunTrueBlock \/ SkipTrueBlock \/ RunFalseBlock) => IInv'
<1> SUFFICES ASSUME IInv, RunTrueBlock \/ SkipTrueBlock \/ RunFalseBlock PROVE IInv'
  OBVIOUS
<1>1. /\ frames # <<>> /\ ~halted /\ Tok # "end" /\ Here # 0 /\ ifCounter' \in Int
      /\ UNCHANGED <<body, condition, stopped, step, reach, torn>>
  BY DEF RunTrueBlock, SkipTrueBlock, RunFalseBlock, EndIf, Reads, Parsing, Token, Tok, OneLess, IInv, RestOK, debugger
<1>2. Scn \in Scan /\ Frm \in Frame /\ Scn.yes \in Seq(Nat) /\ Scn.no \in Seq(Nat) /\ Frm.inner \in Nat
  BY <1>1, Inside DEF Scan, Frame
<1>3. Moves(AfterIf)
  <2>1. Moves(Past(Scn)) /\ "initial" \in Modes /\ condition \in BOOLEAN
    BY <1>1, PastMoves DEF Modes, IInv, RestOK
  <2> QED
    BY <1>2, <2>1, FieldsMove DEF AfterIf
<1>4. ASSUME NEW side \in Side
      PROVE  Taking(side) \in Frame /\ Taking(side).fn = Frm.fn /\ Taking(side).step = Frm.step
             /\ Taking(side).inner = Frm.inner
  <2>1. Here \in Nat
    BY <1>1, AtToken
  <2>2. {t \in Frm.taken : t[1] # Scn.at} \cup {<<Scn.at, side>>} \in SUBSET (Nat \X Side)
    BY <1>2 DEF Frame, Scan
  <2> QED
    BY <1>2, <2>2 DEF Taking, Frame
<1>5. Frm.inner + Newlines(Scn.yes) \in Nat
  BY <1>2, NewlinesNat
<1>6. "yes" \in Side /\ "no" \in Side /\ "branch" \in Uses \ {"body"}
  BY DEF Side, Uses
<1>7. FramesOK' /\ Depth' = Depth /\ breakpoints' \in SUBSET Point /\ ScansOK' /\ scans' # <<>>
  <2>1. CASE RunTrueBlock
    <3>1. /\ scans' = Opened(AfterIf, "branch", Scn.yes) /\ frames' = WithFrame(Taking("yes"))
          /\ UNCHANGED <<step, halted, reach, breakpoints>>
      BY <2>1 DEF RunTrueBlock, debugger
    <3>2. FramesOK' /\ Depth' = Depth
      BY <1>1, <1>4, <1>6, <3>1, FrameChanged DEF IInv
    <3>3. ScansOK' /\ scans' # <<>>
      BY <1>1, <1>2, <1>3, <1>6, <3>1, <3>2, StepInside
    <3> QED
      BY <3>1, <3>2, <3>3 DEF IInv, RestOK
  <2>2. CASE SkipTrueBlock
    <3>1. scans' = WithScan(AfterIf) /\ Raise(Taking("no"), Frm.inner + Newlines(Scn.yes))
      BY <2>2 DEF SkipTrueBlock
    <3>2. FramesOK' /\ Depth' = Depth /\ breakpoints' \in SUBSET Point
      BY <1>1, <1>4, <1>5, <1>6, <3>1, Raised DEF IInv, RestOK
    <3>3. ScansOK' /\ scans' # <<>>
      BY <1>1, <1>3, <3>1, <3>2, StepOfScan
    <3> QED
      BY <3>2, <3>3
  <2>3. CASE RunFalseBlock
    <3> DEFINE f == [Taking("no") EXCEPT !.inner = Frm.inner + Newlines(Scn.yes)]
    <3>1. /\ scans' = Opened(AfterIf, "branch", Scn.no) /\ frames' = WithFrame(f)
          /\ UNCHANGED <<step, halted, reach, breakpoints>>
      BY <2>3 DEF RunFalseBlock, debugger
    <3>2. f \in Frame /\ f.fn = Frm.fn /\ f.step = Frm.step
      <4>1. Taking("no") \in Frame /\ Taking("no").fn = Frm.fn /\ Taking("no").step = Frm.step
        BY <1>4, <1>6
      <4> QED
        BY <1>5, <4>1 DEF Frame
    <3> HIDE DEF f
    <3>3. FramesOK' /\ Depth' = Depth
      BY <1>1, <3>1, <3>2, FrameChanged DEF IInv
    <3>4. ScansOK' /\ scans' # <<>>
      BY <1>1, <1>2, <1>3, <1>6, <3>1, <3>3, StepInside
    <3> QED
      BY <3>1, <3>3, <3>4 DEF IInv, RestOK
  <2> QED
    BY <2>1, <2>2, <2>3
<1>8. RestOK' /\ frames' # <<>>
  BY <1>1, <1>7, Inside DEF IInv, RestOK, Depth
<1> QED
  BY <1>7, <1>8 DEF IInv

LEMMA NewFrameSet ==
  ASSUME NEW f \in Functions
  PROVE  /\ NewFrame(f) \in Frame /\ NewFrame(f).fn = f
         /\ NewFrame(f).step = "over" <=> step = "in"
<1>1. {} \in SUBSET (Nat \X Side)
  OBVIOUS
<1> QED
  BY <1>1 DEF NewFrame, Frame, SteppedInto

LEMMA StartSteps == IInv /\ (\E f \in Functions : Start(f)) => IInv'
<1> SUFFICES ASSUME IInv, NEW f \in Functions, Start(f) PROVE IInv'
  OBVIOUS
<1> DEFINE g == NewFrame(f)
           t == NewScan("body", 1, Whole(f))
<1>1. /\ frames = <<>> /\ frames' = <<g>> /\ scans' = <<t>>
      /\ stopped' = FALSE /\ UNCHANGED <<body, ifCounter, condition, debugger, torn>>
  BY DEF Start
<1>2. step = "continue" /\ ~halted /\ reach = 0
  <2>1. step = "continue" /\ ~halted
    BY <1>1 DEF IInv, FramesOK, Command
  <2> QED
    BY <2>1 DEF IInv, FramesOK, Command
<1>3. g \in Frame /\ g.fn = f /\ g.step # "over"
  BY <1>2, NewFrameSet
<1>4. t \in Scan /\ t.pos = 1 /\ t.use = "body" /\ t.depth = 1
  <2>1. "body" \in Uses /\ Whole(f) \in Seq(Nat) /\ ifCounter' \in Int
    BY <1>1, WholeText DEF Uses, IInv, RestOK
  <2> QED
    BY <2>1, NewScanSet
<1> HIDE DEF g, t
<1>5. frames' \in Seq(Frame) /\ Len(frames') = 1 /\ frames'[1] = g /\ frames' # <<>> /\ Depth' = 1
  BY <1>1, <1>3 DEF Depth
<1>6. FramesOK'
  <2>1. Stops'
    BY <1>1, <1>2, <1>3, <1>5 DEF Stops, debugger
  <2>2. Upwards'
    BY <1>3, <1>5 DEF Upwards, Functions
  <2>3. Command'
    BY <1>1, <1>2, <1>5 DEF Command, debugger
  <2>4. N >= 1
    BY BodiesAssumption
  <2> QED
    BY <1>1, <1>5, <2>1, <2>2, <2>3, <2>4 DEF FramesOK, IInv, debugger
<1>7. ScansOK' /\ scans' # <<>>
  <2>1. scans' \in Seq(Scan) /\ Len(scans') = 1 /\ scans'[1] = t /\ scans' # <<>> /\ Scn' = t
    BY <1>1, <1>4 DEF Scn
  <2>2. t.pos \in 1 .. Len(t.text) + 1
    BY <1>4 DEF Scan
  <2>3. Layers'
    BY <1>4, <1>5, <2>1 DEF Layers, Layer
  <2> QED
    BY <2>1, <2>2, <2>3 DEF ScansOK
<1>8. RestOK'
  BY <1>1 DEF IInv, RestOK, debugger
<1> QED
  BY <1>5, <1>6, <1>7, <1>8 DEF IInv

LEMMA CallSteps == IInv /\ Call => IInv'
<1> SUFFICES ASSUME IInv, Call PROVE IInv'
  OBVIOUS
<1> DEFINE g == NewFrame(Fn + 1)
           t == NewScan("body", Depth + 1, Whole(Fn + 1))
<1>1. /\ frames # <<>> /\ ~halted /\ Tok # "end" /\ Fn < N
      /\ frames' = Append(frames, g) /\ scans' = Append(WithScan(Past(Scn)), t)
      /\ UNCHANGED <<body, ifCounter, condition, stopped, debugger, torn>>
  BY DEF Call, Reads, Parsing
<1>2. /\ Depth \in Nat /\ Depth >= 1 /\ Depth <= N /\ Fn \in Functions /\ Fn >= Depth
      /\ scans # <<>> /\ Depth = Len(frames) /\ frames \in Seq(Frame)
  BY <1>1, Inside DEF Depth, IInv, FramesOK
<1>3. Fn + 1 \in Functions /\ Depth < N /\ Depth + 1 \in Nat
  BY <1>1, <1>2, BodiesAssumption DEF Functions
<1>4. g \in Frame /\ g.fn = Fn + 1 /\ (g.step = "over" <=> step = "in")
  BY <1>3, NewFrameSet
<1>5. t \in Scan /\ t.pos = 1 /\ t.use = "body" /\ t.depth = Depth + 1
  <2>1. "body" \in Uses /\ Whole(Fn + 1) \in Seq(Nat) /\ ifCounter' \in Int
    BY <1>1, <1>3, WholeText DEF Uses, IInv, RestOK
  <2> QED
    BY <1>3, <2>1, NewScanSet
<1> HIDE DEF g, t
<1>6. /\ frames' \in Seq(Frame) /\ Len(frames') = Depth + 1 /\ frames' # <<>> /\ Depth' = Depth + 1
      /\ \A i \in 1 .. Depth : frames'[i] = frames[i]
      /\ frames'[Depth + 1] = g
  BY <1>1, <1>2, <1>4 DEF Depth
<1>7. FramesOK'
  <2>1. /\ step' = step /\ halted' = halted /\ reach' = reach /\ reach \in 0 .. N /\ ~halted
        /\ step = "in" => reach = N
        /\ step # "in" => reach <= Depth
        /\ step = "continue" => reach = 0
    BY <1>1 DEF IInv, FramesOK, Command, debugger
  <2>2. ASSUME NEW i \in 1 .. Depth'
        PROVE  frames'[i].fn >= i /\ (frames'[i].step = "over" <=> halted' \/ i <= reach')
    <3>1. CASE i \in 1 .. Depth
      <4>1. frames[i].fn >= i /\ (frames[i].step = "over" <=> halted \/ i <= reach)
        BY <3>1 DEF IInv, FramesOK, Stops, Upwards
      <4>2. frames'[i] = frames[i]
        BY <1>6, <3>1
      <4> QED
        BY <2>1, <4>1, <4>2
    <3>2. CASE i = Depth + 1
      <4>1. i <= reach <=> step = "in"
        BY <1>2, <1>3, <2>1, <3>2
      <4>2. frames'[i] = g
        BY <1>6, <3>2
      <4>3. Fn + 1 >= i
        BY <1>2, <3>2 DEF Functions
      <4> QED
        BY <1>4, <2>1, <4>1, <4>2, <4>3
    <3> QED
      BY <1>2, <1>6, <3>1, <3>2
  <2>3. Stops' /\ Upwards'
    BY <2>2 DEF Stops, Upwards
  <2>4. Command'
    <3>1. step' # "in" => reach' <= Depth'
      BY <1>2, <1>6, <2>1
    <3> QED
      BY <1>6, <2>1, <3>1 DEF Command
  <2>5. Len(frames') <= N
    BY <1>2, <1>3, <1>6, BodiesAssumption
  <2> QED
    BY <1>1, <1>6, <2>3, <2>4, <2>5 DEF FramesOK, IInv, debugger
<1>8. ScansOK' /\ scans' # <<>>
  <2> DEFINE s == Past(Scn)
  <2>1. s \in Scan /\ s.use = Scn.use /\ s.depth = Scn.depth /\ s.pos \in 1 .. Len(s.text) + 1
    BY <1>1, PastMoves DEF Moves
  <2>2. scans' = Append(WithScan(s), t)
    BY <1>1
  <2> HIDE DEF s
  <2>3. Depth' = IF t.use = "body" THEN Depth + 1 ELSE Depth
    BY <1>5, <1>6
  <2>4. t.depth = Depth' /\ ScansOK
    BY <1>5, <1>6 DEF IInv
  <2> QED
    BY <1>2, <1>5, <2>1, <2>2, <2>3, <2>4, MadeInside
<1>9. RestOK'
  BY <1>1 DEF IInv, RestOK, debugger
<1> QED
  BY <1>6, <1>7, <1>8, <1>9 DEF IInv

LEMMA ResumeSteps == IInv /\ (\E st \in Steps : Resume(st)) => IInv'
<1> SUFFICES ASSUME IInv, NEW st \in Steps, Resume(st) PROVE IInv'
  OBVIOUS
<1>1. /\ halted /\ step' = st /\ halted' = FALSE /\ frames' = Settled(frames, st) /\ reach' = Asked(st)
      /\ UNCHANGED <<body, scans, ifCounter, condition, stopped, breakpoints, torn>>
  BY DEF Resume
<1>2. frames # <<>> /\ frames \in Seq(Frame) /\ Len(frames) <= N
  BY <1>1 DEF IInv, FramesOK, Command
<1>3. Depth \in Nat /\ Depth >= 1 /\ Depth <= N /\ Depth = Len(frames)
  BY <1>2, Inside DEF Depth
<1>4. /\ frames' \in Seq(Frame) /\ Len(frames') = Len(frames)
      /\ \A i \in 1 .. Len(frames) :
           /\ frames'[i].fn = frames[i].fn
           /\ frames'[i].step = IF st = "continue" \/ (st = "out" /\ i = Len(frames)) THEN "continue"
                                                                               ELSE frames[i].step
  BY <1>1, <1>2, SettledSet
<1>5. Depth' = Depth /\ frames' # <<>>
  BY <1>3, <1>4 DEF Depth
<1>6. reach' = IF st = "continue" THEN 0 ELSE IF st = "over" THEN Depth ELSE IF st = "out" THEN Depth - 1 ELSE N
  BY <1>1 DEF Asked
<1>7. ASSUME NEW i \in 1 .. Depth
      PROVE  frames'[i].fn >= i /\ (frames'[i].step = "over" <=> i <= reach')
  <2>1. frames[i].fn >= i /\ frames[i].step = "over"
    BY <1>1 DEF IInv, FramesOK, Stops, Upwards
  <2>2. i <= reach' <=> ~(st = "continue" \/ (st = "out" /\ i = Depth))
    BY <1>3, <1>6, BodiesAssumption
  <2>3. /\ frames'[i].fn = frames[i].fn
        /\ frames'[i].step = IF st = "continue" \/ (st = "out" /\ i = Depth) THEN "continue" ELSE frames[i].step
    BY <1>3, <1>4
  <2> QED
    BY <2>1, <2>2, <2>3
<1>8. Stops' /\ Upwards'
  <2>1. ASSUME NEW i \in 1 .. Depth'
        PROVE  frames'[i].fn >= i /\ (frames'[i].step = "over" <=> halted' \/ i <= reach')
    <3>1. i \in 1 .. Depth
      BY <1>5
    <3> QED
      BY <1>1, <1>7, <3>1
  <2> QED
    BY <2>1 DEF Stops, Upwards
<1>9. reach' \in 0 .. N /\ Command'
  BY <1>1, <1>3, <1>5, <1>6, BodiesAssumption DEF Command, Steps
<1>10. FramesOK'
  BY <1>1, <1>2, <1>4, <1>8, <1>9 DEF FramesOK
<1>11. ScansOK' /\ scans' # <<>>
  BY <1>1, <1>2, <1>5, Inside DEF IInv, ScansOK, Layers, Layer, Scn
<1>12. RestOK'
  BY <1>1 DEF IInv, RestOK
<1> QED
  BY <1>5, <1>10, <1>11, <1>12 DEF IInv

LEMMA OtherSteps == IInv /\ (ClearAllBreakpoints \/ NewSession) => IInv'
<1> SUFFICES ASSUME IInv, ClearAllBreakpoints \/ NewSession PROVE IInv'
  OBVIOUS
<1>1. /\ UNCHANGED <<body, frames, scans, step, halted, reach>>
      /\ ifCounter' \in Int /\ condition' \in BOOLEAN /\ stopped' \in BOOLEAN /\ torn' \in BOOLEAN
      /\ breakpoints' \in SUBSET Point
  <2>1. CASE ClearAllBreakpoints
    <3>1. breakpoints' = {} /\ UNCHANGED <<frames, scans, ifCounter, condition, stopped, torn>>
          /\ UNCHANGED <<body, step, halted, reach>>
      BY <2>1 DEF ClearAllBreakpoints
    <3> QED
      BY <3>1 DEF IInv, RestOK
  <2>2. CASE NewSession
    <3>1. breakpoints' = {} /\ ifCounter' = 0 /\ condition' = FALSE /\ stopped' = FALSE /\ torn' = FALSE
          /\ UNCHANGED <<body, frames, scans, step, halted, reach>>
      BY <2>2 DEF NewSession
    <3>2. {} \in SUBSET Point /\ 0 \in Int /\ FALSE \in BOOLEAN
      OBVIOUS
    <3> QED
      BY <3>1, <3>2
  <2> QED
    BY <2>1, <2>2
<1>2. FramesOK' /\ Depth' = Depth
  BY <1>1, FramesLeft DEF IInv
<1>3. ScansOK' /\ (scans' = <<>> <=> frames' = <<>>)
  BY <1>1, <1>2 DEF IInv, ScansOK, Layers, Layer, Scn
<1> QED
  BY <1>1, <1>2, <1>3 DEF IInv, RestOK

(* The end of a function: its frame goes, and its caller stops as the last *)
(* command says.                                                           *)
LEMMA FrameGone ==
  ASSUME IInv, frames # <<>>, ~halted, EndBody
  PROVE  FramesOK' /\ Depth' = Depth - 1
<1>1. /\ frames' = SubSeq(frames, 1, Depth - 1)
      /\ step' = IF Depth = 1 THEN "continue" ELSE step
      /\ reach' = IF Depth = 1 THEN 0
                  ELSE IF step = "in" \/ reach < Depth THEN reach
                  ELSE Depth - 1
      /\ halted' = halted
  BY DEF EndBody
<1>2. /\ Depth \in Nat /\ Depth >= 1 /\ Depth <= N /\ Depth = Len(frames) /\ frames \in Seq(Frame)
      /\ step \in Steps /\ reach \in 0 .. N /\ N \in Nat
      /\ step = "in" => reach = N
      /\ step # "in" => reach <= Depth
      /\ step = "continue" => reach = 0
  BY Inside, BodiesAssumption DEF Depth, IInv, FramesOK, Command
<1>3. /\ frames' \in Seq(Frame) /\ Len(frames') = Depth - 1
      /\ \A i \in 1 .. Depth - 1 : frames'[i] = frames[i]
  <2>1. \A i \in 1 .. Depth - 1 : frames[i] \in Frame
    BY <1>2
  <2>2. 1 \in Int /\ Depth - 1 \in Int
    BY <1>2
  <2>3. /\ SubSeq(frames, 1, Depth - 1) \in Seq(Frame)
        /\ Len(SubSeq(frames, 1, Depth - 1)) = IF 1 <= Depth - 1 THEN Depth - 1 - 1 + 1 ELSE 0
        /\ \A i \in 1 .. Depth - 1 - 1 + 1 : SubSeq(frames, 1, Depth - 1)[i] = frames[1 + i - 1]
    BY <2>1, <2>2, SubSeqProperties
  <2>4. \A i \in 1 .. Depth - 1 : 1 + i - 1 = i
    OBVIOUS
  <2> QED
    BY <1>1, <1>2, <2>3, <2>4
<1>4. Depth' = Depth - 1
  BY <1>3 DEF Depth
<1>5. ASSUME NEW i \in 1 .. Depth'
      PROVE  frames'[i].fn >= i /\ (frames'[i].step = "over" <=> halted' \/ i <= reach')
  <2>1. i \in 1 .. Depth /\ frames'[i] = frames[i] /\ i <= Depth - 1 /\ Depth # 1
    BY <1>2, <1>3, <1>4
  <2>2. frames[i].fn >= i /\ (frames[i].step = "over" <=> i <= reach)
    BY <2>1 DEF IInv, FramesOK, Stops, Upwards
  <2>3. i <= reach' <=> i <= reach
    BY <1>1, <1>2, <2>1
  <2> QED
    BY <1>1, <2>1, <2>2, <2>3
<1>6. Stops' /\ Upwards'
  BY <1>5 DEF Stops, Upwards
<1>7. reach' \in 0 .. N /\ step' \in Steps
  BY <1>1, <1>2 DEF Steps
<1>8. Command'
  <2>1. CASE Depth = 1
    <3>1. step' = "continue" /\ reach' = 0 /\ Depth' = 0 /\ halted' = FALSE
      BY <1>1, <1>4, <2>1
    <3> QED
      BY <3>1 DEF Command
  <2>2. CASE Depth # 1
    <3>1. step' = step /\ frames' # <<>>
      <4>1. Len(frames') # 0
        BY <1>2, <1>3, <2>2
      <4> QED
        BY <1>1, <2>2, <4>1
    <3>2. /\ step = "in" => reach' = N
          /\ step # "in" => reach' <= Depth - 1
          /\ step = "continue" => reach' = 0
      BY <1>1, <1>2, <2>2
    <3> QED
      BY <1>4, <3>1, <3>2 DEF Command
  <2> QED
    BY <2>1, <2>2
<1> QED
  BY <1>1, <1>2, <1>3, <1>4, <1>6, <1>7, <1>8 DEF FramesOK, IInv

LEMMA EndSteps == IInv /\ EndScan => IInv'
<1> SUFFICES ASSUME IInv, EndScan PROVE IInv'
  OBVIOUS
<1>1. frames # <<>> /\ ~halted /\ UNCHANGED <<body, ifCounter>>
  BY DEF EndScan, Parsing
<1>2. torn' \in BOOLEAN
  BY DEF EndScan, IInv, RestOK
<1>3. Depth \in Nat /\ Depth >= 1 /\ scans # <<>> /\ Scn \in Scan /\ Frm \in Frame /\ ScansOK
  BY <1>1, Inside DEF IInv
<1>4. Scn.use # "body" => Below \in Scan
  <2>1. Scn.use # "body" => Len(scans) > 1
    BY <1>3, MadeBySame
  <2> QED
    BY <2>1 DEF Below, IInv, ScansOK
<1>5. UNCHANGED <<frames, debugger>> => FramesOK' /\ Depth' = Depth /\ breakpoints' \in SUBSET Point
  BY FramesLeft DEF IInv, RestOK, debugger
<1>6. FramesOK' /\ ScansOK' /\ (scans' = <<>> <=> Depth' = 0)
      /\ condition' \in BOOLEAN /\ stopped' \in BOOLEAN /\ breakpoints' \in SUBSET Point
  <2>1. CASE Scn.use = "body" /\ EndBody /\ scans' = Closed
    <3>1. FramesOK' /\ Depth' = Depth - 1
      BY <1>1, <2>1, FrameGone
    <3>2. ScansOK' /\ (scans' = <<>> <=> Depth' = 0)
      BY <1>3, <2>1, <3>1, Ended
    <3>3. UNCHANGED <<condition, stopped, breakpoints>>
      BY <2>1 DEF EndBody
    <3> QED
      BY <3>1, <3>2, <3>3 DEF IInv, RestOK
  <2>2. CASE Scn.use = "branch" /\ EndBranch /\ scans' = Closed
    <3>1. Below \in Scan /\ Below.backup \in BOOLEAN /\ Below.line \in Nat
          /\ Below.yes \in Seq(Nat) /\ Below.no \in Seq(Nat)
      BY <1>4, <2>2 DEF Scan
    <3>2. condition' = Below.backup /\ UNCHANGED <<stopped, step, reach>>
      BY <2>2 DEF EndBranch
    <3>3. FramesOK' /\ Depth' = Depth /\ breakpoints' \in SUBSET Point
      <4>1. CASE Below.else /\ Below.backup
        <5>1. Raise(Frm, LineAfter)
          BY <2>2, <4>1 DEF EndBranch
        <5>2. LineAfter \in Nat
          <6>1. Newlines(Below.yes) \in Nat /\ Newlines(Below.no) \in Nat
            BY <3>1, NewlinesNat
          <6> QED
            BY <3>1, <6>1 DEF LineAfter
        <5> QED
          BY <1>1, <1>3, <3>2, <5>1, <5>2, Raised DEF IInv, RestOK
      <4>2. CASE ~(Below.else /\ Below.backup)
        <5>1. UNCHANGED <<frames, breakpoints, halted>>
          BY <2>2, <4>2 DEF EndBranch
        <5> QED
          BY <1>5, <3>2, <5>1 DEF debugger
      <4> QED
        BY <4>1, <4>2
    <3>4. ScansOK' /\ (scans' = <<>> <=> Depth' = 0)
      BY <1>3, <2>2, <3>3, Ended
    <3> QED
      BY <3>1, <3>2, <3>3, <3>4 DEF IInv, RestOK
  <2>3. CASE Scn.use = "condition" /\ Evaluated /\ scans' = Closed /\ UNCHANGED <<frames, stopped, debugger>>
    <3>1. FramesOK' /\ Depth' = Depth /\ breakpoints' \in SUBSET Point
      BY <1>5, <2>3
    <3>2. ScansOK' /\ (scans' = <<>> <=> Depth' = 0)
      BY <1>3, <2>3, <3>1, Ended
    <3>3. condition' \in BOOLEAN
      BY <2>3 DEF Evaluated, IInv, RestOK
    <3> QED
      BY <2>3, <3>1, <3>2, <3>3 DEF IInv, RestOK
  <2>4. CASE /\ Scn.use = "loop" /\ Frm.returned
             /\ scans' = Closed
             /\ UNCHANGED <<frames, condition, stopped, debugger>>
    <3>1. FramesOK' /\ Depth' = Depth /\ breakpoints' \in SUBSET Point
      BY <1>5, <2>4
    <3>2. ScansOK' /\ (scans' = <<>> <=> Depth' = 0)
      BY <1>3, <2>4, <3>1, Ended
    <3> QED
      BY <2>4, <3>1, <3>2 DEF IInv, RestOK
  <2>5. ASSUME Scn.use # "body", Depth' = Depth, NEW use \in {"again", "loop"}, NEW text \in Seq(Nat),
               scans' = InsteadOf(use, text)
        PROVE  ScansOK' /\ (scans' = <<>> <=> Depth' = 0)
    <3> DEFINE t == NewScan(use, Depth, text)
    <3>1. use \in Uses /\ use # "body"
      BY DEF Uses
    <3>2. t \in Scan /\ t.pos = 1 /\ t.use = use /\ t.depth = Depth
      <4>1. ifCounter' \in Int
        BY <1>1 DEF IInv, RestOK
      <4> QED
        BY <1>3, <3>1, <4>1, NewScanSet
    <3>3. scans' = Append(Closed, t)
      BY <2>5 DEF InsteadOf
    <3> HIDE DEF t
    <3>4. ScansOK' /\ scans' # <<>>
      BY <1>3, <2>5, <3>1, <3>2, <3>3, TakenTurns
    <3>5. Depth' # 0
      BY <1>3, <2>5
    <3> QED
      BY <3>4, <3>5
  <2>6. Scn.use # "body" => Below.cond \in Seq(Nat) /\ Below.yes \in Seq(Nat)
    BY <1>4 DEF Scan
  <2>7. CASE /\ Scn.use = "loop" /\ ~Frm.returned
             /\ scans' = InsteadOf("again", Below.cond) /\ stopped' = FALSE
             /\ UNCHANGED <<frames, condition, debugger>>
    <3>1. FramesOK' /\ Depth' = Depth /\ breakpoints' \in SUBSET Point
      BY <1>5, <2>7
    <3>2. ScansOK' /\ (scans' = <<>> <=> Depth' = 0)
      BY <2>5, <2>6, <2>7, <3>1
    <3> QED
      BY <2>7, <3>1, <3>2 DEF IInv, RestOK
  <2>8. CASE /\ Scn.use = "again" /\ Evaluated
             /\ IF condition' THEN scans' = InsteadOf("loop", Below.yes) /\ stopped' = FALSE
                              ELSE scans' = Closed /\ UNCHANGED stopped
             /\ UNCHANGED <<frames, debugger>>
    <3>1. FramesOK' /\ Depth' = Depth /\ breakpoints' \in SUBSET Point
      BY <1>5, <2>8
    <3>2. condition' \in BOOLEAN
      BY <2>8 DEF Evaluated, IInv, RestOK
    <3>3. CASE condition'
      <4>1. ScansOK' /\ (scans' = <<>> <=> Depth' = 0)
        BY <2>5, <2>6, <2>8, <3>1, <3>3
      <4> QED
        BY <2>8, <3>1, <3>2, <3>3, <4>1
    <3>4. CASE ~condition'
      <4>1. ScansOK' /\ (scans' = <<>> <=> Depth' = 0)
        BY <1>3, <2>8, <3>1, <3>4, Ended
      <4> QED
        BY <2>8, <3>1, <3>2, <3>4, <4>1 DEF IInv, RestOK
    <3> QED
      BY <3>3, <3>4
  <2> QED
    BY <2>1, <2>2, <2>3, <2>4, <2>7, <2>8 DEF EndScan
<1>7. Depth' = 0 <=> frames' = <<>>
  BY <1>6 DEF FramesOK, Depth
<1> QED
  BY <1>1, <1>2, <1>6, <1>7 DEF IInv, RestOK

-----------------------------------------------------------------------------
(* Every reachable state.                                                  *)

LEMMA Initially == Init => IInv
<1> SUFFICES ASSUME Init PROVE IInv
  OBVIOUS
<1>1. Depth = 0 /\ frames = <<>> /\ scans = <<>> /\ frames \in Seq(Frame) /\ scans \in Seq(Scan) /\ N \in Nat
  BY BodiesAssumption DEF Init, Depth
<1>2. FramesOK
  <2>1. step = "continue" /\ halted = FALSE /\ reach = 0
    BY DEF Init
  <2>2. Stops /\ Upwards
    BY <1>1 DEF Stops, Upwards
  <2>3. Command
    BY <1>1, <2>1 DEF Command
  <2>4. Len(frames) <= N /\ 0 \in 0 .. N
    BY <1>1
  <2>5. halted \in BOOLEAN
    BY <2>1, Zenon
  <2>6. step \in Steps /\ reach \in 0 .. N
    BY <2>1, <2>4 DEF Steps
  <2> QED
    BY <1>1, <2>2, <2>3, <2>4, <2>5, <2>6 DEF FramesOK
<1>3. ScansOK
  BY <1>1 DEF ScansOK, Layers
<1>4. RestOK
  <2>1. body \in [Functions -> Seq(Token)]
    BY BodiesAssumption DEF Init
  <2>2. breakpoints \in SUBSET Point
    BY BodiesAssumption DEF Init
  <2>3. ifCounter \in Int
    BY DEF Init
  <2>4. condition \in BOOLEAN /\ stopped \in BOOLEAN /\ torn \in BOOLEAN
    BY Zenon DEF Init
  <2> QED
    BY <2>1, <2>2, <2>3, <2>4 DEF RestOK
<1> QED
  BY <1>1, <1>2, <1>3, <1>4 DEF IInv

LEMMA StepKept == IInv /\ [Next]_vars => IInv'
<1> SUFFICES ASSUME IInv, [Next]_vars PROVE IInv'
  OBVIOUS
<1>1. CASE UNCHANGED vars
  BY <1>1, FramesLeft DEF vars, debugger, IInv, RestOK, ScansOK, Layers, Layer, Scn
<1>2. CASE Next
  <2>1. CASE \E f \in Functions : Start(f)
    BY <2>1, StartSteps
  <2>2. CASE \E st \in Steps : Resume(st)
    BY <2>2, ResumeSteps
  <2>3. CASE Then \/ Loop \/ RunLoop
    BY <2>3, InnerSteps
  <2>4. CASE RunTrueBlock \/ SkipTrueBlock \/ RunFalseBlock
    BY <2>4, BlockSteps
  <2>5. CASE Simple
    BY <2>5, SimpleSteps
  <2>6. CASE ClearAllBreakpoints \/ NewSession
    BY <2>6, OtherSteps
  <2> QED
    BY <1>2, <2>1, <2>2, <2>3, <2>4, <2>5, <2>6, CallSteps, NewlineSteps, ReturnSteps, EndSteps
       DEF Next, Simple
<1> QED
  BY <1>1, <1>2

LEMMA Always == Spec => []IInv
BY Initially, StepKept, PTL DEF Spec

-----------------------------------------------------------------------------
(* Induction over the numbers, from the library's well founded orderings.  *)
LEMMA Least ==
  ASSUME NEW T \in SUBSET Nat, T # {}
  PROVE  \E m \in T : \A k \in T : m <= k
<1> DEFINE Under(k) == 0 .. k - 1
           Unders   == {Under(k) : k \in T}
<1>1. Unders \subseteq FiniteSubsetsOf(Nat) /\ Unders # {}
  <2>1. \A k \in T : Under(k) \in SUBSET Nat
    OBVIOUS
  <2>2. \A k \in T : IsFiniteSet(0 .. k - 1)
    BY FS_Interval
  <2> QED
    BY <2>1, <2>2 DEF FiniteSubsetsOf
<1>2. \E x \in Unders : \A y \in Unders : <<y, x>> \notin StrictSubsetOrdering(Nat)
  <2> HIDE DEF Unders
  <2> QED
    BY <1>1, WFMin, FS_StrictSubsetOrderingWellFounded
<1>3. PICK m \in T : \A k \in T : <<Under(k), Under(m)>> \notin StrictSubsetOrdering(Nat)
  BY <1>2
<1>4. ASSUME NEW k \in T, k < m
      PROVE  FALSE
  <2>1. Under(k) \in SUBSET Nat /\ Under(m) \in SUBSET Nat /\ Under(k) \subseteq Under(m)
    BY <1>4
  <2>2. k \in Under(m) /\ k \notin Under(k)
    BY <1>4
  <2>3. <<Under(k), Under(m)>> \in StrictSubsetOrdering(Nat)
    BY <2>1, <2>2 DEF StrictSubsetOrdering
  <2> QED
    BY <1>3, <2>3
<1> QED
  BY <1>4

LEMMA NatInd ==
  ASSUME NEW S, 0 \in S, \A k \in S \cap Nat : k + 1 \in S
  PROVE  Nat \subseteq S
<1> SUFFICES ASSUME Nat \ S # {} PROVE FALSE
  OBVIOUS
<1>1. PICK m \in Nat \ S : \A k \in Nat \ S : m <= k
  BY Least
<1>2. m # 0 /\ m - 1 \in Nat
  BY <1>1
<1>3. m - 1 \in S
  BY <1>1, <1>2
<1>4. (m - 1) + 1 \in S
  BY <1>2, <1>3
<1> QED
  BY <1>1, <1>4

-----------------------------------------------------------------------------
(* The ifs open behind a position.                                         *)

LEMMA CountNext ==
  ASSUME NEW b \in Seq(Token), NEW token, NEW p \in 1 .. Len(b)
  PROVE  /\ Cardinality({k \in 1 .. p : b[k] = token}) \in Nat
         /\ Cardinality({k \in 1 .. p - 1 : b[k] = token}) \in Nat
         /\ Cardinality({k \in 1 .. p : b[k] = token})
              = Cardinality({k \in 1 .. p - 1 : b[k] = token}) + (IF b[p] = token THEN 1 ELSE 0)
<1> DEFINE C == {k \in 1 .. p - 1 : b[k] = token}
           D == {k \in 1 .. p : b[k] = token}
<1>1. IsFiniteSet(C) /\ IsFiniteSet(D) /\ Cardinality(C) \in Nat /\ Cardinality(D) \in Nat
  <2>1. IsFiniteSet(1 .. p - 1) /\ IsFiniteSet(1 .. p)
    BY FS_Interval
  <2>2. C \subseteq 1 .. p - 1 /\ D \subseteq 1 .. p
    OBVIOUS
  <2> HIDE DEF C, D
  <2> QED
    BY <2>1, <2>2, FS_Subset, FS_CardinalityType
<1>2. Cardinality(D) = Cardinality(C) + (IF b[p] = token THEN 1 ELSE 0)
  <2>1. CASE b[p] = token
    <3>1. D = C \cup {p} /\ p \notin C
      BY <2>1
    <3> HIDE DEF C, D
    <3>2. Cardinality(D) = Cardinality(C) + 1
      BY <1>1, <3>1, FS_AddElement
    <3> QED
      BY <2>1, <3>2
  <2>2. CASE b[p] # token
    <3>1. D = C
      BY <2>2
    <3> HIDE DEF C, D
    <3> QED
      BY <1>1, <2>2, <3>1
  <2> HIDE DEF C, D
  <2> QED
    BY <2>1, <2>2
<1> QED
  BY <1>1, <1>2, Zenon

LEMMA LevelNext ==
  ASSUME NEW b \in Seq(Token), NEW p \in 1 .. Len(b)
  PROVE  /\ Level(b, p) \in Int /\ Level(b, p - 1) \in Int
         /\ Level(b, p) = Level(b, p - 1) + (IF b[p] = "if" THEN 1 ELSE IF b[p] = "endif" THEN -1 ELSE 0)
<1> DEFINE u == Cardinality({k \in 1 .. p - 1 : b[k] = "if"})
           v == Cardinality({k \in 1 .. p - 1 : b[k] = "endif"})
           u1 == Cardinality({k \in 1 .. p : b[k] = "if"})
           v1 == Cardinality({k \in 1 .. p : b[k] = "endif"})
<1>1. u \in Nat /\ v \in Nat /\ u1 = u + (IF b[p] = "if" THEN 1 ELSE 0) /\ v1 = v + (IF b[p] = "endif" THEN 1 ELSE 0)
  BY CountNext
<1>2. Level(b, p) = u1 - v1 /\ Level(b, p - 1) = u - v
  BY DEF Level
<1> HIDE DEF u, v, u1, v1
<1>3. "if" # "endif"
  OBVIOUS
<1> QED
  BY <1>1, <1>2, <1>3

LEMMA LevelStart ==
  ASSUME NEW b \in Seq(Token)
  PROVE  Level(b, 0) = 0
<1>1. {k \in 1 .. 0 : b[k] = "if"} = {} /\ {k \in 1 .. 0 : b[k] = "endif"} = {}
  OBVIOUS
<1> QED
  BY <1>1, FS_EmptySet DEF Level

LEMMA LevelType ==
  ASSUME NEW b \in Seq(Token), NEW p \in 0 .. Len(b)
  PROVE  Level(b, p) \in Int
<1>1. CASE p = 0
  BY <1>1, LevelStart
<1>2. CASE p # 0
  BY <1>2, LevelNext
<1> QED
  BY <1>1, <1>2

(* Nothing changes where no if begins or ends.                             *)
LEMMA LevelFlat ==
  ASSUME NEW b \in Seq(Token), NEW a \in 0 .. Len(b), NEW z \in a .. Len(b),
         \A p \in a + 1 .. z : b[p] \notin {"if", "endif"}
  PROVE  \A p \in a .. z : Level(b, p) = Level(b, a)
<1> DEFINE S == {m \in Nat : m <= z - a => Level(b, a + m) = Level(b, a)}
<1>1. 0 \in S
  OBVIOUS
<1>2. ASSUME NEW m \in S \cap Nat
      PROVE  m + 1 \in S
  <2> SUFFICES ASSUME m + 1 <= z - a PROVE Level(b, a + (m + 1)) = Level(b, a)
    OBVIOUS
  <2>1. Level(b, a + m) = Level(b, a)
    OBVIOUS
  <2> DEFINE p == a + (m + 1)
  <2>2. p \in 1 .. Len(b) /\ p \in a + 1 .. z /\ p - 1 = a + m
    OBVIOUS
  <2> HIDE DEF p
  <2>3. Level(b, p) = Level(b, p - 1)
    BY <2>2, LevelNext
  <2> QED
    BY <2>1, <2>2, <2>3 DEF p
<1> HIDE DEF S
<1>3. Nat \subseteq S
  BY <1>1, <1>2, NatInd
<1>4. ASSUME NEW p \in a .. z
      PROVE  Level(b, p) = Level(b, a)
  <2>1. p - a \in Nat /\ p - a <= z - a /\ a + (p - a) = p
    OBVIOUS
  <2>2. p - a \in S
    BY <1>3, <2>1
  <2> QED
    BY <2>1, <2>2 DEF S
<1> QED
  BY <1>4

-----------------------------------------------------------------------------
(* The second invariant: how a text lies in the body it was cut out of.    *)

(* y lists the positions of b behind a up to z, except some newlines.      *)
Piece(b, a, y, z) ==
  /\ 0 <= a /\ a <= z /\ z <= Len(b)
  /\ \A k \in 1 .. Len(y) : y[k] \in a + 1 .. z
  /\ \A k \in 1 .. Len(y), l \in 1 .. Len(y) : k < l => y[k] < y[l]
  /\ \A p \in a + 1 .. z : b[p] = "nl" \/ \E k \in 1 .. Len(y) : y[k] = p

(* All ifs begun behind a are ended up to z, no other one is, and each then *)
(* and else there belongs to one of them.                                  *)
Even(b, a, z) ==
  /\ Level(b, z) = Level(b, a)
  /\ \A p \in a .. z : Level(b, p) >= Level(b, a)
  /\ \A p \in a + 1 .. z : b[p] \in {"then", "else"} => Level(b, p) > Level(b, a)

Quiet(b, a, z) == \A p \in a + 1 .. z : b[p] \notin Structure

(* Where a text begins and ends, and what has been read of it.             *)
From(y) == IF y = <<>> THEN 0 ELSE y[1] - 1
To(y)   == IF y = <<>> THEN 0 ELSE y[Len(y)]
Read(y, pos) == IF pos = 1 THEN From(y) ELSE y[pos - 1]

Text(b, y) == Piece(b, From(y), y, To(y)) /\ Even(b, From(y), To(y))

(* A text cut out of one that begins behind a, by a parse that had no if   *)
(* open, to be parsed by itself; a condition is behind its if.             *)
Within(b, a, y) == Text(b, y) /\ (y # <<>> => From(y) >= a /\ Sides(b, From(y)) \subseteq Sides(b, a))

-----------------------------------------------------------------------------
(* What a parse has collected, in the modes of the lexer: a is where its   *)
(* text begins, r the position it has read.                                *)

Between(b, s, a, r, token, level) ==
  \E k \in a + 1 .. r :
    /\ b[k] = token /\ Level(b, k) = level
    /\ Quiet(b, k, r) /\ Piece(b, k, s.cond, r)
    /\ s.yes = <<>> /\ ~s.else

InIf(b, s, a, r)    == Between(b, s, a, r, "if", Level(b, a) + 1) /\ s.no = <<>>
InWhile(b, s, a, r) == Between(b, s, a, r, "while", Level(b, a))

InLoop(b, s, a, r) ==
  /\ Within(b, a, s.cond) /\ ~s.else
  /\ \E k \in a + 1 .. r :
       /\ b[k] = "loop" /\ Level(b, k) = Level(b, a)
       /\ Piece(b, k, s.yes, r)
       /\ \A p \in k + 1 .. r : b[p] # "endloop"

(* The branches are cut where they should be.                              *)
Branches(b, s, r) ==
  /\ \A p \in s.at .. r : Level(b, p) >= Level(b, s.at)
  /\ \/ /\ ~s.else /\ s.no = <<>> /\ Piece(b, s.at, s.yes, r)
        /\ \A p \in s.at + 1 .. r : b[p] = "else" => Level(b, p) > Level(b, s.at)
     \/ /\ s.else
        /\ \E e \in s.at + 1 .. r :
             /\ b[e] = "else" /\ Level(b, e) = Level(b, s.at)
             /\ Piece(b, s.at, s.yes, e - 1) /\ Piece(b, e, s.no, r)
             /\ \A p \in s.at + 1 .. r : b[p] = "else" /\ p # e => Level(b, p) > Level(b, s.at)

InThen(b, s, a, r) ==
  /\ s.at \in a + 1 .. r /\ b[s.at] = "then" /\ Level(b, s.at) = Level(b, a) + 1
  /\ \E k \in a + 1 .. s.at : b[k] = "if" /\ Leads(b, k, s.at)

(* The ifs a parse has counted and not ended.                              *)
Owes(b, s) ==
  IF s.mode \in {"if", "then"} THEN Level(b, Read(s.text, s.pos)) - Level(b, From(s.text))
  ELSE IF s.counted THEN 1 ELSE 0

Parse(b, s) ==
  LET a == From(s.text)
      r == Read(s.text, s.pos)
  IN /\ Text(b, s.text)
     /\ s.mode \in {"initial", "pending"} => Level(b, r) = Level(b, a)
     /\ s.counted => s.mode = "initial" /\ s.pos <= Len(s.text) /\ b[s.text[s.pos]] = "if"
     /\ s.mode = "if" => InIf(b, s, a, r)
     /\ s.mode = "then" => InThen(b, s, a, r)
     /\ s.mode = "while" => InWhile(b, s, a, r)
     /\ s.mode = "loop" => InLoop(b, s, a, r)
     /\ s.mode = "pending" => s.text # <<>> /\ Within(b, a, s.cond) /\ Within(b, a, s.yes)

(* A parse that has made another one, for a use.                           *)
Waits(b, s, use) ==
  /\ s.mode \in {"initial", "then", "loop"}
  /\ s.mode = "then" => s.at = Read(s.text, s.pos) /\ Branches(b, s, s.at)
  /\ use \in {"loop", "again"} =>
       s.text # <<>> /\ Within(b, From(s.text), s.cond) /\ Within(b, From(s.text), s.yes)

(* The innermost one, when the counter is n.                               *)
AtWork(b, s, n) ==
  s.mode = "then" => n > Level(b, Read(s.text, s.pos)) - Level(b, From(s.text))
                     \/ Branches(b, s, Read(s.text, s.pos))

(* The counter is what the parses owe, or more after one was given up.     *)
Paid(n, due, gone) == n >= due /\ (~gone => n = due)

-----------------------------------------------------------------------------
(* The parses under way, ss, of the frames fs of program bd; gone is torn. *)

BodyOf(bd, fs, s) == bd[fs[s.depth].fn]

Fits(bd, fs, s) ==
  /\ s.depth \in 1 .. Len(fs)
  /\ Parse(BodyOf(bd, fs, s), s)
  /\ Sides(BodyOf(bd, fs, s), From(s.text)) \subseteq fs[s.depth].taken
  /\ s.ifs >= 0

Makes(bd, fs, s, t, gone) ==
  Waits(BodyOf(bd, fs, s), s, t.use) /\ Paid(t.ifs, s.ifs + Owes(BodyOf(bd, fs, s), s), gone)

(* The parses of one function lie inside each other, those of one it calls *)
(* over them.                                                              *)
Over(s, t) ==
  /\ s.depth <= t.depth
  /\ s.depth = t.depth /\ t.text # <<>> => s.text # <<>> /\ From(s.text) <= From(t.text)

Stack(bd, fs, ss, gone) ==
  /\ \A i \in 1 .. Len(ss) : Fits(bd, fs, ss[i])
  /\ \A i \in 1 .. Len(ss) - 1 : Makes(bd, fs, ss[i], ss[i + 1], gone)
  /\ \A i \in 1 .. Len(ss), j \in 1 .. Len(ss) : i < j => Over(ss[i], ss[j])
  /\ ss # <<>> /\ ~gone => ss[1].ifs = 0

Innermost(bd, fs, s, n, gone) ==
  /\ Paid(n, s.ifs + Owes(BodyOf(bd, fs, s), s), gone)
  /\ AtWork(BodyOf(bd, fs, s), s, n)

(* With the innermost parse, and the counter.                              *)
Cuts ==
  /\ body \in Bodies
  /\ Stack(body, frames, scans, torn)
  /\ IF scans = <<>> THEN Paid(ifCounter, 0, torn)
     ELSE Innermost(body, frames, Scn, ifCounter, torn) /\ (Scn.mode = "if" => Going)

-----------------------------------------------------------------------------
(* The sides taken around a position.                                      *)

LEMMA SidesFall ==
  ASSUME NEW b \in Seq(Token), NEW a \in 0 .. Len(b), NEW p \in a .. Len(b),
         \A k \in a + 1 .. p : b[k] \in {"then", "else"} => Level(b, k) > Level(b, a) /\ Level(b, k) > Level(b, p)
  PROVE  Sides(b, p) \subseteq Sides(b, a)
<1> SUFFICES ASSUME NEW x \in Sides(b, p) PROVE x \in Sides(b, a)
  OBVIOUS
<1>1. PICK k \in 1 .. p : /\ b[k] = "then"
                          /\ \A m \in k .. p : Level(b, m) >= Level(b, k)
                          /\ x = <<k, IF \E e \in k .. p : b[e] = "else" /\ Level(b, e) = Level(b, k) THEN "no" ELSE "yes">>
  BY DEF Sides
<1>2. \A q \in 0 .. Len(b) : Level(b, q) \in Int
  BY LevelType
<1>3. k <= a
  <2> SUFFICES ASSUME k \in a + 1 .. p PROVE FALSE
    BY <1>1
  <2>1. Level(b, k) > Level(b, p) /\ Level(b, p) >= Level(b, k)
    BY <1>1
  <2>2. Level(b, k) \in Int /\ Level(b, p) \in Int
    BY <1>1, <1>2
  <2> QED
    BY <2>1, <2>2
<1>4. k \in 1 .. a /\ \A m \in k .. a : Level(b, m) >= Level(b, k)
  BY <1>1, <1>3
<1>5. (\E e \in k .. p : b[e] = "else" /\ Level(b, e) = Level(b, k))
        <=> (\E e \in k .. a : b[e] = "else" /\ Level(b, e) = Level(b, k))
  <2>1. ASSUME NEW e \in a + 1 .. p, b[e] = "else", Level(b, e) = Level(b, k)
        PROVE  FALSE
    <3>1. Level(b, e) > Level(b, a)
      BY <2>1
    <3>2. Level(b, a) >= Level(b, k)
      BY <1>4
    <3>3. Level(b, e) \in Int /\ Level(b, a) \in Int
      BY <1>2
    <3> QED
      BY <2>1, <3>1, <3>2, <3>3
  <2>2. \A e \in k .. p : e \in k .. a \/ e \in a + 1 .. p
    BY <1>3
  <2>3. \A e \in k .. a : e \in k .. p
    BY <1>3
  <2> QED
    BY <2>1, <2>2, <2>3
<1>6. x = <<k, IF \E e \in k .. a : b[e] = "else" /\ Level(b, e) = Level(b, k) THEN "no" ELSE "yes">>
  BY <1>1, <1>5
<1> QED
  BY <1>1, <1>4, <1>6 DEF Sides

(* A then inside a branch belongs to an if inside it.                      *)
LEMMA ThenInside ==
  ASSUME NEW b \in Seq(Token), IfsNest(b), NEW t \in 1 .. Len(b), b[t] \in Structure \ {"if"},
         NEW k \in t + 1 .. Len(b), b[k] = "then", \A p \in t .. k : Level(b, p) >= Level(b, t)
  PROVE  Level(b, k) > Level(b, t)
<1>1. PICK q \in 1 .. Len(b) : b[q] = "if" /\ Leads(b, q, k)
  BY DEF IfsNest
<1>2. q < k /\ \A r \in q + 1 .. k - 1 : b[r] \notin Structure
  BY <1>1 DEF Leads
<1>3. t <= q
  <2> SUFFICES ASSUME q < t PROVE FALSE
    BY <1>1
  <2>1. t \in q + 1 .. k - 1
    BY <1>1
  <2> QED
    BY <1>2, <2>1
<1>4. Level(b, k) = Level(b, q)
  <2>1. \A p \in q + 1 .. k : b[p] \notin {"if", "endif"}
    <3>1. "if" \in Structure /\ "endif" \in Structure
      BY DEF Structure
    <3> QED
      BY <1>2, <3>1
  <2>2. q \in 0 .. Len(b) /\ k \in q .. Len(b)
    BY <1>1, <1>2
  <2>3. \A p \in q .. k : Level(b, p) = Level(b, q)
    BY <2>1, <2>2, LevelFlat
  <2> QED
    BY <1>2, <2>3
<1>5. \A p \in 0 .. Len(b) : Level(b, p) \in Int
  BY LevelType
<1>6. q # t
  BY <1>1
<1>7. Level(b, k) > Level(b, t)
  <2>1. q - 1 \in t .. k /\ q \in 1 .. Len(b) /\ q - 1 \in 0 .. Len(b)
    BY <1>1, <1>2, <1>3, <1>6
  <2>2. Level(b, q) = Level(b, q - 1) + 1
    BY <1>1, LevelNext
  <2>3. Level(b, q - 1) >= Level(b, t)
    BY <2>1
  <2> QED
    BY <1>4, <1>5, <2>1, <2>2, <2>3
<1> QED
  BY <1>7

(* The if of a then at t, which begins on the level of a.                  *)
LEMMA IfBefore ==
  ASSUME NEW b \in Seq(Token), NEW a \in 0 .. Len(b), NEW t \in a + 1 .. Len(b),
         NEW i \in a + 1 .. t, b[i] = "if", b[t] = "then", Leads(b, i, t), Level(b, t) = Level(b, a) + 1
  PROVE  /\ i < t /\ i - 1 \in a .. t - 1 /\ Level(b, i - 1) = Level(b, a)
         /\ \A p \in i .. t - 1 : b[p] \notin {"then", "else"}
         /\ \A p \in i .. t - 1 : Level(b, p) = Level(b, a) + 1
<1>1. i < t /\ \A r \in i + 1 .. t - 1 : b[r] \notin Structure
  BY DEF Leads
<1>2. \A p \in i + 1 .. t - 1 : b[p] \notin {"if", "endif", "then", "else"}
  BY <1>1 DEF Structure
<1>3. \A p \in i .. t - 1 : Level(b, p) = Level(b, i)
  <2>1. i \in 0 .. Len(b) /\ t - 1 \in i .. Len(b)
    BY <1>1
  <2> QED
    BY <1>2, <2>1, LevelFlat
<1>4. Level(b, i) = Level(b, i - 1) + 1 /\ Level(b, i - 1) \in Int
  BY LevelNext
<1>5. Level(b, t) = Level(b, t - 1)
  <2>1. t \in 1 .. Len(b)
    OBVIOUS
  <2>2. Level(b, t) = Level(b, t - 1) + (IF b[t] = "if" THEN 1 ELSE IF b[t] = "endif" THEN -1 ELSE 0) /\ Level(b, t - 1) \in Int
    BY <2>1, LevelNext
  <2> QED
    BY <2>2
<1>6. Level(b, t - 1) = Level(b, i)
  <2>1. t - 1 \in i .. t - 1
    BY <1>1
  <2> QED
    BY <1>3, <2>1
<1>7. Level(b, i - 1) = Level(b, a)
  <2>1. Level(b, a) \in Int
    BY LevelType
  <2> QED
    BY <1>4, <1>5, <1>6, <2>1
<1>8. \A p \in i .. t - 1 : Level(b, p) = Level(b, a) + 1
  BY <1>3, <1>5, <1>6
<1>9. \A p \in i .. t - 1 : b[p] \notin {"then", "else"}
  <2>1. \A p \in i .. t - 1 : p = i \/ p \in i + 1 .. t - 1
    OBVIOUS
  <2> QED
    BY <1>2, <2>1
<1> QED
  BY <1>1, <1>7, <1>8, <1>9

(* What stands around a condition.                                         *)
LEMMA SidesCondition ==
  ASSUME NEW b \in Seq(Token), NEW a \in 0 .. Len(b), NEW i \in a + 1 .. Len(b), NEW p \in i - 1 .. Len(b),
         Level(b, i - 1) = Level(b, a),
         \A k \in a + 1 .. i - 1 : b[k] \in {"then", "else"} => Level(b, k) > Level(b, a),
         \A k \in i .. p : b[k] \notin {"then", "else"}
  PROVE  Sides(b, p) \subseteq Sides(b, a)
<1>1. i - 1 \in 0 .. Len(b) /\ p \in (i - 1) .. Len(b) /\ i - 1 \in a .. Len(b)
  OBVIOUS
<1>2. \A k \in (i - 1) + 1 .. p : b[k] \notin {"then", "else"}
  OBVIOUS
<1>3. Sides(b, p) \subseteq Sides(b, i - 1)
  BY <1>1, <1>2, SidesFall
<1>4. \A k \in a + 1 .. i - 1 : b[k] \in {"then", "else"} => Level(b, k) > Level(b, a) /\ Level(b, k) > Level(b, i - 1)
  OBVIOUS
<1>5. Sides(b, i - 1) \subseteq Sides(b, a)
  BY <1>1, <1>4, SidesFall
<1> QED
  BY <1>3, <1>5

(* What stands around the branch behind a then.                            *)
LEMMA SidesThen ==
  ASSUME NEW b \in Seq(Token), NEW a \in 0 .. Len(b), NEW t \in a + 1 .. Len(b), NEW p \in t .. Len(b),
         NEW i \in a + 1 .. t, b[i] = "if", b[t] = "then", Leads(b, i, t), Level(b, t) = Level(b, a) + 1,
         \A k \in a + 1 .. t : b[k] \in {"then", "else"} => Level(b, k) > Level(b, a),
         \A k \in t + 1 .. p : b[k] \notin {"then", "else"}
  PROVE  Sides(b, p) \subseteq Sides(b, a) \cup {<<t, "yes">>}
<1>1. /\ i < t /\ i - 1 \in a .. t - 1 /\ Level(b, i - 1) = Level(b, a)
      /\ \A k \in i .. t - 1 : b[k] \notin {"then", "else"}
      /\ \A k \in i .. t - 1 : Level(b, k) = Level(b, a) + 1
  BY IfBefore
<1>2. Sides(b, p) \subseteq Sides(b, t)
  BY SidesFall
<1>3. Sides(b, t - 1) \subseteq Sides(b, a)
  <2>1. i \in a + 1 .. Len(b) /\ t - 1 \in i - 1 .. Len(b)
    BY <1>1
  <2>2. \A k \in a + 1 .. i - 1 : b[k] \in {"then", "else"} => Level(b, k) > Level(b, a)
    BY <1>1
  <2> QED
    BY <1>1, <2>1, <2>2, SidesCondition
<1>4. ASSUME NEW x \in Sides(b, t)
      PROVE  x \in Sides(b, t - 1) \cup {<<t, "yes">>}
  <2>1. PICK k \in 1 .. t : /\ b[k] = "then"
                            /\ \A m \in k .. t : Level(b, m) >= Level(b, k)
                            /\ x = <<k, IF \E e \in k .. t : b[e] = "else" /\ Level(b, e) = Level(b, k) THEN "no" ELSE "yes">>
    BY DEF Sides
  <2>2. CASE k = t
    <3>1. \A e \in k .. t : b[e] # "else"
      BY <2>1, <2>2
    <3>2. x = <<t, "yes">>
      BY <2>1, <2>2, <3>1
    <3> QED
      BY <3>2
  <2>3. CASE k # t
    <3>1. k \in 1 .. t - 1 /\ \A m \in k .. t - 1 : Level(b, m) >= Level(b, k)
      BY <2>1, <2>3
    <3>2. (\E e \in k .. t : b[e] = "else" /\ Level(b, e) = Level(b, k))
            <=> (\E e \in k .. t - 1 : b[e] = "else" /\ Level(b, e) = Level(b, k))
      <4>1. b[t] # "else" /\ \A e \in k .. t : e \in k .. t - 1 \/ e = t
        OBVIOUS
      <4>2. \A e \in k .. t - 1 : e \in k .. t
        OBVIOUS
      <4> QED
        BY <4>1, <4>2
    <3> QED
      BY <2>1, <3>1, <3>2 DEF Sides
  <2> QED
    BY <2>2, <2>3
<1> QED
  BY <1>2, <1>3, <1>4

(* What stands around the branch behind an else.                           *)
LEMMA SidesElse ==
  ASSUME NEW b \in Seq(Token), IfsNest(b), NEW a \in 0 .. Len(b), NEW t \in a + 1 .. Len(b),
         NEW e \in t + 1 .. Len(b), NEW p \in e .. Len(b),
         NEW i \in a + 1 .. t, b[i] = "if", b[t] = "then", Leads(b, i, t), Level(b, t) = Level(b, a) + 1,
         \A k \in a + 1 .. e : b[k] \in {"then", "else"} => Level(b, k) > Level(b, a),
         b[e] = "else", Level(b, e) = Level(b, t), \A k \in t .. e : Level(b, k) >= Level(b, t),
         \A k \in e + 1 .. p : b[k] \notin {"then", "else"}
  PROVE  Sides(b, p) \subseteq Sides(b, a) \cup {<<t, "no">>}
<1>1. /\ i < t /\ i - 1 \in a .. t - 1 /\ Level(b, i - 1) = Level(b, a)
      /\ \A k \in i .. t - 1 : b[k] \notin {"then", "else"}
  BY IfBefore
<1>2. Sides(b, p) \subseteq Sides(b, e)
  BY SMTT(30), SidesFall
<1>3. Sides(b, i - 1) \subseteq Sides(b, a)
  <2>1. i \in a + 1 .. Len(b) /\ i - 1 \in i - 1 .. Len(b)
    BY <1>1
  <2>2. \A k \in a + 1 .. i - 1 : b[k] \in {"then", "else"} => Level(b, k) > Level(b, a)
    BY <1>1
  <2>3. \A k \in i .. i - 1 : b[k] \notin {"then", "else"}
    OBVIOUS
  <2> QED
    BY <1>1, <2>1, <2>2, <2>3, SidesCondition
<1>4. \A q \in 0 .. Len(b) : Level(b, q) \in Int
  BY LevelType
<1>5. ASSUME NEW x \in Sides(b, e)
      PROVE  x \in Sides(b, i - 1) \cup {<<t, "no">>}
  <2>1. PICK k \in 1 .. e : /\ b[k] = "then"
                            /\ \A m \in k .. e : Level(b, m) >= Level(b, k)
                            /\ x = <<k, IF \E f \in k .. e : b[f] = "else" /\ Level(b, f) = Level(b, k) THEN "no" ELSE "yes">>
    BY DEF Sides
  <2>2. CASE k = t
    <3>1. \E f \in k .. e : b[f] = "else" /\ Level(b, f) = Level(b, k)
      BY <2>2
    <3>2. x = <<t, "no">>
      BY <2>1, <2>2, <3>1
    <3> QED
      BY <3>2
  <2>3. CASE k \in t + 1 .. e
    <3>1. Level(b, k) > Level(b, t)
      <4>1. t \in 1 .. Len(b) /\ b[t] \in Structure \ {"if"} /\ k \in t + 1 .. Len(b)
            /\ \A q \in t .. k : Level(b, q) >= Level(b, t)
        BY <2>3 DEF Structure
      <4> QED
        BY <2>1, <4>1, ThenInside
    <3>2. Level(b, e) >= Level(b, k)
      BY <2>1
    <3>3. Level(b, e) \in Int /\ Level(b, k) \in Int /\ Level(b, t) \in Int
      BY <1>4
    <3> QED
      BY <3>1, <3>2, <3>3
  <2>4. CASE k < t
    <3>1. k \in 1 .. i - 1
      BY <1>1, <2>1, <2>4
    <3>2. \A m \in k .. i - 1 : Level(b, m) >= Level(b, k)
      BY <1>1, <2>1, <3>1
    <3>3. ASSUME NEW f \in i .. e, b[f] = "else", Level(b, f) = Level(b, k)
          PROVE  FALSE
      <4>1. Level(b, f) > Level(b, a)
        BY <3>3
      <4>2. Level(b, a) >= Level(b, k)
        BY <1>1, <3>1, <3>2
      <4>3. Level(b, a) \in Int /\ Level(b, k) \in Int
        BY <1>4, <3>1
      <4> QED
        BY <3>3, <4>1, <4>2, <4>3
    <3>4. (\E f \in k .. e : b[f] = "else" /\ Level(b, f) = Level(b, k))
            <=> (\E f \in k .. i - 1 : b[f] = "else" /\ Level(b, f) = Level(b, k))
      <4>1. \A f \in k .. e : f \in k .. i - 1 \/ f \in i .. e
        BY <1>1, <3>1
      <4>2. \A f \in k .. i - 1 : f \in k .. e
        BY <1>1, <3>1
      <4> QED
        BY <3>3, <4>1, <4>2
    <3> QED
      BY <2>1, <3>1, <3>2, <3>4 DEF Sides
  <2> QED
    BY <2>1, <2>2, <2>3, <2>4
<1> QED
  BY <1>2, <1>3, <1>5

-----------------------------------------------------------------------------
(* Texts cut out of a body.                                                *)

LEMMA PieceEmpty ==
  ASSUME NEW b \in Seq(Token), NEW a \in 0 .. Len(b)
  PROVE  Piece(b, a, <<>>, a)
BY DEF Piece

LEMMA PieceSkips ==
  ASSUME NEW b \in Seq(Token), NEW y \in Seq(Nat), NEW a \in Nat, NEW r \in Nat, Piece(b, a, y, r),
         NEW q \in r .. Len(b), \A p \in r + 1 .. q : b[p] = "nl"
  PROVE  Piece(b, a, y, q)
<1>1. a <= q /\ q <= Len(b)
  BY DEF Piece
<1>2. \A k \in 1 .. Len(y) : y[k] \in a + 1 .. q
  BY DEF Piece
<1>3. \A p \in a + 1 .. q : b[p] = "nl" \/ \E k \in 1 .. Len(y) : y[k] = p
  <2>1. \A p \in a + 1 .. q : p \in a + 1 .. r \/ p \in r + 1 .. q
    OBVIOUS
  <2> QED
    BY <2>1 DEF Piece
<1> QED
  BY <1>1, <1>2, <1>3 DEF Piece

LEMMA PieceGrows ==
  ASSUME NEW b \in Seq(Token), NEW y \in Seq(Nat), NEW a \in Nat, NEW r \in Nat, Piece(b, a, y, r),
         NEW q \in r + 1 .. Len(b), \A p \in r + 1 .. q - 1 : b[p] = "nl"
  PROVE  Piece(b, a, Append(y, q), q)
<1> DEFINE w == Append(y, q)
<1>1. /\ Len(w) = Len(y) + 1 /\ w[Len(y) + 1] = q /\ Len(y) \in Nat
      /\ \A k \in 1 .. Len(y) : w[k] = y[k]
  OBVIOUS
<1> HIDE DEF w
<1>2. a <= q /\ q <= Len(b) /\ a <= r
  BY DEF Piece
<1>3. \A k \in 1 .. Len(w) : w[k] \in a + 1 .. q
  <2>1. \A k \in 1 .. Len(w) : k \in 1 .. Len(y) \/ k = Len(y) + 1
    BY <1>1
  <2>2. \A k \in 1 .. Len(y) : y[k] \in a + 1 .. r
    BY DEF Piece
  <2>3. \A k \in 1 .. Len(y) : w[k] \in a + 1 .. q
    BY <1>1, <2>2
  <2> QED
    BY <1>1, <1>2, <2>1, <2>3
<1>4. ASSUME NEW k \in 1 .. Len(w), NEW l \in 1 .. Len(w), k < l
      PROVE  w[k] < w[l]
  <2>1. k \in 1 .. Len(y)
    BY <1>1, <1>4
  <2>2. CASE l \in 1 .. Len(y)
    <3>1. y[k] < y[l]
      BY <1>4, <2>1, <2>2 DEF Piece
    <3> QED
      BY <1>1, <2>1, <2>2, <3>1
  <2>3. CASE l = Len(y) + 1
    <3>1. y[k] \in a + 1 .. r
      BY <2>1 DEF Piece
    <3> QED
      BY <1>1, <2>1, <2>3, <3>1
  <2> QED
    BY <1>1, <2>2, <2>3
<1>5. ASSUME NEW p \in a + 1 .. q
      PROVE  b[p] = "nl" \/ \E k \in 1 .. Len(w) : w[k] = p
  <2>1. CASE p \in a + 1 .. r
    <3>1. b[p] = "nl" \/ \E k \in 1 .. Len(y) : y[k] = p
      BY <2>1 DEF Piece
    <3>2. \A k \in 1 .. Len(y) : k \in 1 .. Len(w)
      BY <1>1
    <3> QED
      BY <1>1, <3>1, <3>2
  <2>2. CASE p \in r + 1 .. q - 1
    BY <2>2
  <2>3. CASE p = q
    <3>1. Len(y) + 1 \in 1 .. Len(w)
      BY <1>1
    <3> QED
      BY <1>1, <2>3, <3>1
  <2> QED
    BY <1>2, <2>1, <2>2, <2>3
<1>6. Piece(b, a, w, q)
  BY <1>2, <1>3, <1>4, <1>5 DEF Piece
<1> QED
  BY <1>6 DEF w

(* The ends of a piece are its first and last positions but for newlines.  *)
LEMMA PieceEnds ==
  ASSUME NEW b \in Seq(Token), NEW y \in Seq(Nat), NEW a \in Nat, NEW z \in Nat, Piece(b, a, y, z), y # <<>>
  PROVE  /\ From(y) \in a .. z /\ To(y) \in From(y) + 1 .. z /\ From(y) = y[1] - 1 /\ To(y) = y[Len(y)]
         /\ \A p \in a + 1 .. From(y) : b[p] = "nl"
         /\ \A p \in To(y) + 1 .. z : b[p] = "nl"
         /\ Piece(b, From(y), y, To(y))
<1>1. Len(y) \in Nat /\ Len(y) >= 1 /\ 1 \in 1 .. Len(y) /\ Len(y) \in 1 .. Len(y)
  OBVIOUS
<1>2. PICK u \in Nat, v \in Nat : u = y[1] /\ v = y[Len(y)]
  BY <1>1
<1>3. u \in a + 1 .. z /\ v \in a + 1 .. z /\ z <= Len(b)
  BY <1>1, <1>2 DEF Piece
<1>4. \A k \in 1 .. Len(y) : y[k] \in u .. v
  <2>1. ASSUME NEW k \in 1 .. Len(y)
        PROVE  y[k] \in u .. v
    <3>1. y[k] \in Nat
      OBVIOUS
    <3>2. k = 1 \/ y[1] < y[k]
      <4>1. 1 < k => y[1] < y[k]
        BY <1>1 DEF Piece
      <4> QED
        BY <4>1
    <3>3. k = Len(y) \/ y[k] < y[Len(y)]
      <4>1. k < Len(y) => y[k] < y[Len(y)]
        BY <1>1 DEF Piece
      <4> QED
        BY <4>1
    <3> QED
      BY SMTT(30), <1>2, <3>1, <3>2, <3>3
  <2> QED
    BY <2>1
<1>5. From(y) = u - 1 /\ To(y) = v
  BY <1>2 DEF From, To
<1>6. u <= v
  BY <1>1, <1>2, <1>4
<1>7. \A p \in a + 1 .. z : b[p] = "nl" \/ p \in u .. v
  <2>1. \A p \in a + 1 .. z : b[p] = "nl" \/ \E k \in 1 .. Len(y) : y[k] = p
    BY DEF Piece
  <2> QED
    BY <1>4, <2>1
<1>8. \A p \in a + 1 .. u - 1 : b[p] = "nl"
  <2>1. \A p \in a + 1 .. u - 1 : p \in a + 1 .. z /\ p \notin u .. v
    BY <1>3
  <2> QED
    BY <1>7, <2>1
<1>9. \A p \in v + 1 .. z : b[p] = "nl"
  <2>1. \A p \in v + 1 .. z : p \in a + 1 .. z /\ p \notin u .. v
    BY <1>3
  <2> QED
    BY <1>7, <2>1
<1>10. Piece(b, u - 1, y, v)
  <2>1. 0 <= u - 1 /\ u - 1 <= v /\ v <= Len(b)
    BY <1>3, <1>6
  <2>2. \A k \in 1 .. Len(y) : y[k] \in (u - 1) + 1 .. v
    BY <1>4
  <2>3. \A k \in 1 .. Len(y), l \in 1 .. Len(y) : k < l => y[k] < y[l]
    BY DEF Piece
  <2>4. \A p \in (u - 1) + 1 .. v : p \in a + 1 .. z
    BY <1>3
  <2>5. \A p \in (u - 1) + 1 .. v : b[p] = "nl" \/ \E k \in 1 .. Len(y) : y[k] = p
    BY <2>4 DEF Piece
  <2> QED
    BY <2>1, <2>2, <2>3, <2>5 DEF Piece
<1>11. u - 1 \in a .. z /\ v \in (u - 1) + 1 .. z
  BY <1>3, <1>6
<1>12. From(y) = y[1] - 1 /\ To(y) = y[Len(y)]
  BY <1>2, <1>5
<1> QED
  BY <1>5, <1>8, <1>9, <1>10, <1>11, <1>12

LEMMA NewlinesFlat ==
  ASSUME NEW b \in Seq(Token), NEW a \in 0 .. Len(b), NEW z \in a .. Len(b), \A p \in a + 1 .. z : b[p] = "nl"
  PROVE  Level(b, z) = Level(b, a)
<1>1. \A p \in a .. z : Level(b, p) = Level(b, a)
  BY LevelFlat
<1> QED
  BY <1>1

LEMMA EmptyText ==
  ASSUME NEW b \in Seq(Token)
  PROVE  Text(b, <<>>)
<1>1. From(<<>>) = 0 /\ To(<<>>) = 0
  BY DEF From, To
<1>2. Piece(b, 0, <<>>, 0)
  BY PieceEmpty
<1>3. Even(b, 0, 0)
  BY LevelStart DEF Even
<1> QED
  BY <1>1, <1>2, <1>3 DEF Text

(* A piece between an if, a then, an else or a loop and its end is a text. *)
LEMMA PieceText ==
  ASSUME NEW b \in Seq(Token), NEW y \in Seq(Nat), NEW a \in Nat, NEW z \in Nat, Piece(b, a, y, z), Even(b, a, z)
  PROVE  Text(b, y)
<1>1. CASE y = <<>>
  BY <1>1, EmptyText
<1>2. CASE y # <<>>
  <2>1. /\ From(y) \in a .. z /\ To(y) \in From(y) + 1 .. z
        /\ \A p \in a + 1 .. From(y) : b[p] = "nl"
        /\ \A p \in To(y) + 1 .. z : b[p] = "nl"
        /\ Piece(b, From(y), y, To(y))
    BY <1>2, PieceEnds
  <2>2. PICK u \in Nat, v \in Nat : u = From(y) /\ v = To(y)
    BY <2>1
  <2>3. a <= u /\ u < v /\ v <= z /\ z <= Len(b)
    BY <2>1, <2>2 DEF Piece
  <2>4. Level(b, u) = Level(b, a)
    <3>1. a \in 0 .. Len(b) /\ u \in a .. Len(b)
      BY <2>3
    <3>2. \A p \in a + 1 .. u : b[p] = "nl"
      BY <2>1, <2>2
    <3> QED
      BY <3>1, <3>2, NewlinesFlat
  <2>5. Level(b, v) = Level(b, a)
    <3>1. v \in 0 .. Len(b) /\ z \in v .. Len(b)
      BY <2>3
    <3>2. \A p \in v + 1 .. z : b[p] = "nl"
      BY <2>1, <2>2
    <3>3. Level(b, z) = Level(b, v)
      BY <3>1, <3>2, NewlinesFlat
    <3> QED
      BY <3>3 DEF Even
  <2>6. Even(b, u, v)
    <3>1. \A p \in u .. v : Level(b, p) >= Level(b, u)
      <4>1. \A p \in u .. v : p \in a .. z
        BY <2>3
      <4> QED
        BY <2>4, <4>1 DEF Even
    <3>2. \A p \in u + 1 .. v : b[p] \in {"then", "else"} => Level(b, p) > Level(b, u)
      <4>1. \A p \in u + 1 .. v : p \in a + 1 .. z
        BY <2>3
      <4> QED
        BY <2>4, <4>1 DEF Even
    <3> QED
      BY <2>4, <2>5, <3>1, <3>2 DEF Even
  <2> QED
    BY <2>1, <2>2, <2>6 DEF Text
<1> QED
  BY <1>1, <1>2

(* Reading on in a text: from r to q.                                      *)
LEMMA TextNext ==
  ASSUME NEW b \in Seq(Token), NEW y \in Seq(Nat), Text(b, y), NEW pos \in 1 .. Len(y)
  PROVE  /\ From(y) \in Nat /\ To(y) \in Nat /\ To(y) <= Len(b) /\ From(y) = y[1] - 1
         /\ Read(y, pos) \in From(y) .. To(y) /\ y[pos] \in Read(y, pos) + 1 .. To(y) /\ Read(y, pos + 1) = y[pos]
         /\ \A p \in Read(y, pos) + 1 .. y[pos] - 1 : b[p] = "nl"
         /\ Level(b, y[pos] - 1) = Level(b, Read(y, pos))
<1>1. y # <<>> /\ 1 \in 1 .. Len(y) /\ Len(y) \in 1 .. Len(y) /\ From(y) = y[1] - 1 /\ To(y) = y[Len(y)]
  BY DEF From, To
<1>2. \A k \in 1 .. Len(y) : y[k] \in Nat
  OBVIOUS
<1>3. PICK a \in Int, z \in Nat : a = From(y) /\ z = To(y)
  BY <1>1, <1>2
<1>4. Piece(b, a, y, z)
  BY <1>3 DEF Text
<1>5. 0 <= a /\ z <= Len(b) /\ \A k \in 1 .. Len(y) : y[k] \in a + 1 .. z
  BY <1>4 DEF Piece
<1>6. Read(y, pos + 1) = y[pos]
  BY DEF Read
<1>7. PICK r \in Int, q \in Nat : r = Read(y, pos) /\ q = y[pos]
  BY SMTT(30), <1>1, <1>2, <1>3 DEF Read
<1>8. a \in Nat /\ r \in a .. z /\ q \in r + 1 .. z /\ \A p \in r + 1 .. q - 1 : b[p] = "nl"
  <2>1. a \in Nat /\ y[1] \in Nat /\ y[1] \in a + 1 .. z /\ a = y[1] - 1 /\ q \in a + 1 .. z
    BY <1>1, <1>2, <1>3, <1>5, <1>7
  <2>2. CASE pos = 1
    <3>1. r = a /\ q = y[1]
      BY <1>3, <1>7, <2>2 DEF Read
    <3>2. q = a + 1 /\ a \in Nat /\ q <= z
      BY <2>1, <3>1
    <3>3. r \in a .. z /\ q \in r + 1 .. z /\ \A p \in r + 1 .. q - 1 : b[p] = "nl"
      BY <3>1, <3>2
    <3> QED
      BY <3>2, <3>3
  <2>3. CASE pos # 1
    <3>1. r = y[pos - 1] /\ pos - 1 \in 1 .. Len(y) /\ pos - 1 < pos
      BY <1>7, <2>3 DEF Read
    <3>2. r < q /\ r \in a + 1 .. z
      BY <1>4, <1>5, <1>7, <3>1 DEF Piece
    <3>3. ASSUME NEW p \in r + 1 .. q - 1, b[p] # "nl"
          PROVE  FALSE
      <4>1. p \in a + 1 .. z
        BY SMTT(30), <2>1, <3>2
      <4>2. PICK k \in 1 .. Len(y) : y[k] = p
        BY <1>4, <3>3, <4>1 DEF Piece
      <4>3. k < pos \/ k = pos \/ pos < k
        OBVIOUS
      <4>4. k <= pos - 1
        <5>1. pos < k => q < p
          BY <1>4, <1>7, <4>2 DEF Piece
        <5>2. k = pos => q = p
          BY <1>7, <4>2
        <5> QED
          BY <4>3, <5>1, <5>2
      <4>5. k = pos - 1 \/ p < r
        <5>1. k < pos - 1 => y[k] < y[pos - 1]
          BY <1>4, <3>1 DEF Piece
        <5> QED
          BY <3>1, <4>2, <4>4, <5>1
      <4> QED
        BY <3>1, <4>2, <4>5
    <3>4. \A p \in r + 1 .. q - 1 : b[p] = "nl"
      BY <3>3
    <3>5. a \in Nat /\ q <= z
      BY <2>1
    <3>6. r \in a .. z /\ q \in r + 1 .. z
      BY <3>2, <3>5
    <3> QED
      BY <3>4, <3>5, <3>6
  <2> QED
    BY <2>2, <2>3
<1>9. Level(b, q - 1) = Level(b, r)
  <2>1. r \in 0 .. Len(b) /\ q - 1 \in r .. Len(b)
    BY <1>5, <1>8
  <2> QED
    BY <1>8, <2>1, NewlinesFlat
<1> QED
  BY <1>1, <1>3, <1>5, <1>6, <1>7, <1>8, <1>9

(* Where a parse is in its text.                                           *)
LEMMA TextRead ==
  ASSUME NEW b \in Seq(Token), NEW y \in Seq(Nat), Text(b, y), NEW pos \in 1 .. Len(y) + 1
  PROVE  /\ From(y) \in Nat /\ To(y) \in Nat /\ From(y) <= To(y) /\ To(y) <= Len(b)
         /\ Read(y, pos) \in From(y) .. To(y)
         /\ pos = Len(y) + 1 => Read(y, pos) = To(y)
<1>1. CASE y = <<>>
  <2>1. From(y) = 0 /\ To(y) = 0 /\ pos = 1 /\ Len(y) = 0
    BY <1>1 DEF From, To
  <2> QED
    BY <2>1 DEF Read
<1>2. CASE y # <<>>
  <2>1. 1 \in 1 .. Len(y) /\ Len(y) \in 1 .. Len(y) /\ Len(y) \in Nat
    BY <1>2
  <2>2. /\ From(y) \in Nat /\ To(y) \in Nat /\ To(y) <= Len(b)
        /\ \A k \in 1 .. Len(y) : Read(y, k) \in From(y) .. To(y) /\ y[k] \in Read(y, k) + 1 .. To(y)
    BY <2>1, TextNext
  <2>3. PICK a \in Nat, z \in Nat : a = From(y) /\ z = To(y)
    BY <2>2
  <2>4. a <= z
    BY <2>1, <2>2, <2>3
  <2>5. CASE pos \in 1 .. Len(y)
    BY <2>1, <2>2, <2>3, <2>4, <2>5
  <2>6. CASE pos = Len(y) + 1
    <3>1. Read(y, pos) = y[Len(y)]
      BY <2>1, <2>6 DEF Read
    <3>2. To(y) = y[Len(y)]
      BY <1>2 DEF To
    <3> QED
      BY <2>2, <2>3, <2>4, <3>1, <3>2
  <2> QED
    BY <2>5, <2>6
<1> QED
  BY <1>1, <1>2

-----------------------------------------------------------------------------
(* A parse reads the next token of its text.                               *)

(* A text of b from a to z; r has been read and q is next.                 *)
Reading(s, a, r, q) ==
  a = From(s.text) /\ r = Read(s.text, s.pos) /\ q = s.text[s.pos] /\ q = Read(s.text, s.pos + 1)

Ahead(b, a, r, q, z) ==
  /\ a <= r /\ r < q /\ q <= z /\ z <= Len(b)
  /\ \A p \in r + 1 .. q - 1 : b[p] = "nl"
  /\ Even(b, a, z)

LEMMA IsAhead ==
  ASSUME NEW b \in Seq(Token), NEW s \in Scan, s.text \in Seq(Nat), s.pos \in 1 .. Len(s.text), Text(b, s.text)
  PROVE  \E a \in Nat, r \in Nat, q \in Nat, z \in Nat : Reading(s, a, r, q) /\ Ahead(b, a, r, q, z)
<1> DEFINE y == s.text
           pos == s.pos
<1>1. y \in Seq(Nat) /\ pos \in 1 .. Len(y) /\ Text(b, y)
  OBVIOUS
<1> HIDE DEF y, pos
<1>2. /\ From(y) \in Nat /\ To(y) \in Nat /\ To(y) <= Len(b)
      /\ Read(y, pos) \in From(y) .. To(y) /\ y[pos] \in Read(y, pos) + 1 .. To(y) /\ Read(y, pos + 1) = y[pos]
      /\ \A p \in Read(y, pos) + 1 .. y[pos] - 1 : b[p] = "nl"
  BY <1>1, TextNext
<1>3. PICK a \in Nat, z \in Nat : a = From(y) /\ z = To(y)
  BY <1>2
<1>4. PICK r \in Nat, q \in Nat : r = Read(y, pos) /\ q = y[pos]
  BY <1>2, <1>3
<1>5. a <= r /\ r < q /\ q <= z /\ z <= Len(b) /\ q = Read(y, pos + 1)
  BY <1>2, <1>3, <1>4
<1>6. \A p \in r + 1 .. q - 1 : b[p] = "nl"
  BY <1>2, <1>4
<1>7. Even(b, a, z)
  BY <1>1, <1>3 DEF Text
<1>8. Ahead(b, a, r, q, z)
  BY <1>5, <1>6, <1>7 DEF Ahead
<1>9. Reading(s, a, r, q)
  BY <1>3, <1>4, <1>5 DEF Reading, y, pos
<1> QED
  BY <1>8, <1>9

LEMMA LevelAhead ==
  ASSUME NEW b \in Seq(Token), NEW a \in Nat, NEW r \in Nat, NEW q \in Nat, NEW z \in Nat,
         Ahead(b, a, r, q, z)
  PROVE  /\ \A p \in 0 .. Len(b) : Level(b, p) \in Int
         /\ Level(b, a) \in Int /\ Level(b, r) \in Int /\ Level(b, q) \in Int /\ Level(b, q) >= Level(b, a)
         /\ a \in 0 .. Len(b) /\ r \in a .. Len(b) /\ q \in r + 1 .. Len(b) /\ q \in 1 .. Len(b)
         /\ \A p \in r .. q - 1 : Level(b, p) = Level(b, r)
         /\ Level(b, q) = Level(b, r) + (IF b[q] = "if" THEN 1 ELSE IF b[q] = "endif" THEN -1 ELSE 0)
         /\ \A p \in a .. q : Level(b, p) >= Level(b, a)
         /\ \A p \in a + 1 .. q : b[p] \in {"then", "else"} => Level(b, p) > Level(b, a)
<1>1. \A p \in 0 .. Len(b) : Level(b, p) \in Int
  BY LevelType
<1>2. a <= r /\ r < q /\ q <= z /\ z <= Len(b) /\ Len(b) \in Nat
  BY DEF Ahead
<1>3. a \in 0 .. Len(b) /\ r \in a .. Len(b) /\ q \in r + 1 .. Len(b) /\ q \in 1 .. Len(b)
  BY <1>2
<1>4. \A p \in r .. q - 1 : Level(b, p) = Level(b, r)
  <2>1. r \in 0 .. Len(b) /\ q - 1 \in r .. Len(b)
    BY <1>2
  <2>2. \A p \in r + 1 .. q - 1 : b[p] \notin {"if", "endif"}
    BY DEF Ahead
  <2> QED
    BY <2>1, <2>2, LevelFlat
<1>5. Level(b, q) = Level(b, r) + (IF b[q] = "if" THEN 1 ELSE IF b[q] = "endif" THEN -1 ELSE 0)
  <2>1. Level(b, q - 1) = Level(b, r)
    BY <1>2, <1>4
  <2> QED
    BY <1>3, <2>1, LevelNext
<1>6. \A p \in a .. q : p \in a .. z
  BY <1>2
<1>7. \A p \in a + 1 .. q : p \in a + 1 .. z
  BY <1>2
<1>8. \A p \in a .. q : Level(b, p) >= Level(b, a)
  BY <1>6 DEF Ahead, Even
<1>9. \A p \in a + 1 .. q : b[p] \in {"then", "else"} => Level(b, p) > Level(b, a)
  BY <1>7 DEF Ahead, Even
<1>10. r \in 0 .. Len(b) /\ q \in 0 .. Len(b) /\ q \in a .. q
  BY <1>2
<1>11. Level(b, a) \in Int /\ Level(b, r) \in Int /\ Level(b, q) \in Int /\ Level(b, q) >= Level(b, a)
  BY <1>1, <1>3, <1>8, <1>10
<1> QED
  BY <1>1, <1>3, <1>4, <1>5, <1>8, <1>9, <1>11

(* At the end of a text no if is open.                                     *)
LEMMA LevelEnd ==
  ASSUME NEW b \in Seq(Token), NEW s \in Scan, s.text \in Seq(Nat), s.pos = Len(s.text) + 1, Text(b, s.text)
  PROVE  /\ Level(b, Read(s.text, s.pos)) = Level(b, From(s.text))
         /\ Level(b, From(s.text)) \in Int
<1>1. /\ From(s.text) \in Nat /\ To(s.text) \in Nat /\ From(s.text) <= To(s.text) /\ To(s.text) <= Len(b)
      /\ Read(s.text, s.pos) = To(s.text)
  <2>1. s.pos \in 1 .. Len(s.text) + 1
    OBVIOUS
  <2> QED
    BY <2>1, TextRead
<1>2. From(s.text) \in 0 .. Len(b)
  BY <1>1
<1> QED
  BY <1>1, <1>2, LevelType DEF Text, Even

(* A parse never owes less than nothing.                                   *)
LEMMA OwesNat ==
  ASSUME NEW b \in Seq(Token), NEW s \in Scan, s.text \in Seq(Nat), s.pos \in 1 .. Len(s.text) + 1, Parse(b, s)
  PROVE  Owes(b, s) \in Nat
<1>1. /\ From(s.text) \in Nat /\ To(s.text) \in Nat /\ To(s.text) <= Len(b)
      /\ Read(s.text, s.pos) \in From(s.text) .. To(s.text)
  BY TextRead DEF Parse
<1>2. From(s.text) \in 0 .. Len(b) /\ Read(s.text, s.pos) \in 0 .. Len(b)
  BY <1>1
<1>3. Level(b, From(s.text)) \in Int /\ Level(b, Read(s.text, s.pos)) \in Int
  BY <1>2, LevelType
<1>4. Level(b, Read(s.text, s.pos)) >= Level(b, From(s.text))
  BY <1>1 DEF Parse, Text, Even
<1> QED
  BY <1>3, <1>4 DEF Owes

-----------------------------------------------------------------------------
(* In the lexer's initial state.                                           *)

(* s moves on to t, the counter from n to m.                               *)
Goes(b, s, t, n, m) ==
  /\ Parse(b, t) /\ AtWork(b, t, m)
  /\ m - Owes(b, t) = n - Owes(b, s)

LEMMA PlainRead ==
  ASSUME NEW b \in Seq(Token), NEW s \in Scan, s.text \in Seq(Nat), s.pos \in 1 .. Len(s.text), Parse(b, s),
         s.mode \in {"initial", "pending"}, b[s.text[s.pos]] \notin {"if", "endif"},
         NEW t \in Scan, t.text = s.text, t.pos = s.pos + 1, t.mode = s.mode, t.counted = s.counted,
         t.cond = s.cond, t.yes = s.yes, NEW n \in Int
  PROVE  Goes(b, s, t, n, n)
<1>1. PICK a \in Nat, r \in Nat, q \in Nat, z \in Nat : Reading(s, a, r, q) /\ Ahead(b, a, r, q, z)
  BY IsAhead DEF Parse
<1>2. Level(b, q) = Level(b, r) /\ b[q] \notin {"if", "endif"}
  <2>1. b[q] \notin {"if", "endif"}
    BY <1>1 DEF Reading
  <2>2. Level(b, r) \in Int /\ Level(b, q) = Level(b, r) + (IF b[q] = "if" THEN 1 ELSE IF b[q] = "endif" THEN -1 ELSE 0)
    BY <1>1, LevelAhead
  <2> QED
    BY <2>1, <2>2
<1>3. a = From(s.text) /\ r = Read(s.text, s.pos) /\ q = Read(t.text, t.pos) /\ q = s.text[s.pos]
  BY <1>1 DEF Reading
<1>4. Level(b, r) = Level(b, a)
  BY <1>3 DEF Parse
<1>5. ~s.counted
  BY <1>2, <1>3 DEF Parse
<1>6. Parse(b, t)
  BY <1>2, <1>3, <1>4, <1>5 DEF Parse
<1>7. Owes(b, s) = 0 /\ Owes(b, t) = 0
  BY <1>5 DEF Owes
<1>8. AtWork(b, t, n)
  BY DEF AtWork
<1> QED
  BY <1>6, <1>7, <1>8 DEF Goes

LEMMA IfRead ==
  ASSUME NEW b \in Seq(Token), NEW s \in Scan, s.text \in Seq(Nat), s.pos \in 1 .. Len(s.text), Parse(b, s),
         s.mode = "initial", b[s.text[s.pos]] = "if", s.counted \in BOOLEAN,
         NEW t \in Scan, t.text = s.text, t.pos = s.pos + 1, t.mode = "if", t.counted = FALSE,
         t.cond = <<>>, t.yes = <<>>, t.no = <<>>, t.else = FALSE,
         NEW n \in Int, NEW m \in Int, m = IF s.counted THEN n ELSE n + 1
  PROVE  Goes(b, s, t, n, m)
<1>1. PICK a \in Nat, r \in Nat, q \in Nat, z \in Nat : Reading(s, a, r, q) /\ Ahead(b, a, r, q, z)
  BY IsAhead DEF Parse
<1>2. a = From(s.text) /\ r = Read(s.text, s.pos) /\ q = Read(t.text, t.pos) /\ q = s.text[s.pos] /\ b[q] = "if"
  BY <1>1 DEF Reading
<1>3. Level(b, r) = Level(b, a) /\ Level(b, a) \in Int /\ Level(b, q) = Level(b, a) + 1
  <2>1. Level(b, r) = Level(b, a)
    BY <1>2 DEF Parse
  <2>2. Level(b, r) \in Int /\ Level(b, q) = Level(b, r) + (IF b[q] = "if" THEN 1 ELSE IF b[q] = "endif" THEN -1 ELSE 0)
    BY <1>1, LevelAhead
  <2> QED
    BY <1>2, <2>1, <2>2
<1>4. a < q /\ q <= Len(b)
  BY <1>1 DEF Ahead
<1>5. InIf(b, t, a, q)
  <2>1. q \in a + 1 .. q /\ q \in 0 .. Len(b)
    BY <1>4
  <2>2. Piece(b, q, t.cond, q)
    BY <2>1, PieceEmpty
  <2>3. Quiet(b, q, q)
    BY DEF Quiet
  <2> QED
    BY <1>2, <1>3, <2>1, <2>2, <2>3 DEF InIf, Between
<1>6. Parse(b, t)
  BY <1>2, <1>5 DEF Parse
<1>7. Owes(b, s) = (IF s.counted THEN 1 ELSE 0) /\ Owes(b, t) = 1
  BY <1>2, <1>3 DEF Owes
<1>8. AtWork(b, t, m)
  BY DEF AtWork
<1> QED
  BY <1>6, <1>7, <1>8 DEF Goes

LEMMA WhileRead ==
  ASSUME NEW b \in Seq(Token), NEW s \in Scan, s.text \in Seq(Nat), s.pos \in 1 .. Len(s.text), Parse(b, s),
         s.mode = "initial", b[s.text[s.pos]] = "while",
         NEW t \in Scan, t.text = s.text, t.pos = s.pos + 1, t.mode = "while", t.counted = s.counted,
         t.cond = <<>>, t.yes = <<>>, t.else = FALSE, NEW n \in Int
  PROVE  Goes(b, s, t, n, n)
<1>1. PICK a \in Nat, r \in Nat, q \in Nat, z \in Nat : Reading(s, a, r, q) /\ Ahead(b, a, r, q, z)
  BY IsAhead DEF Parse
<1>2. a = From(s.text) /\ r = Read(s.text, s.pos) /\ q = Read(t.text, t.pos) /\ q = s.text[s.pos] /\ b[q] = "while"
  BY <1>1 DEF Reading
<1>3. Level(b, r) = Level(b, a) /\ Level(b, a) \in Int /\ Level(b, q) = Level(b, a)
  <2>1. Level(b, r) = Level(b, a)
    BY <1>2 DEF Parse
  <2>2. Level(b, r) \in Int /\ Level(b, q) = Level(b, r) + (IF b[q] = "if" THEN 1 ELSE IF b[q] = "endif" THEN -1 ELSE 0)
    BY <1>1, LevelAhead
  <2> QED
    BY <1>2, <2>1, <2>2
<1>4. a < q /\ q <= Len(b)
  BY <1>1 DEF Ahead
<1>5. InWhile(b, t, a, q)
  <2>1. q \in a + 1 .. q /\ q \in 0 .. Len(b)
    BY <1>4
  <2>2. Piece(b, q, t.cond, q)
    BY <2>1, PieceEmpty
  <2>3. Quiet(b, q, q)
    BY DEF Quiet
  <2> QED
    BY <1>2, <1>3, <2>1, <2>2, <2>3 DEF InWhile, Between
<1>6. ~s.counted
  BY <1>2 DEF Parse
<1>7. Parse(b, t)
  BY <1>2, <1>5, <1>6 DEF Parse
<1>8. Owes(b, s) = 0 /\ Owes(b, t) = 0
  BY <1>6 DEF Owes
<1>9. AtWork(b, t, n)
  BY DEF AtWork
<1> QED
  BY <1>7, <1>8, <1>9 DEF Goes

(* What is run stands on no more sides than its text.                      *)
LEMMA SidesRead ==
  ASSUME NEW b \in Seq(Token), NEW s \in Scan, s.text \in Seq(Nat), s.pos \in 1 .. Len(s.text), Parse(b, s), s.mode = "initial"
  PROVE  Sides(b, s.text[s.pos]) \subseteq Sides(b, From(s.text))
<1>1. PICK a \in Nat, r \in Nat, q \in Nat, z \in Nat : Reading(s, a, r, q) /\ Ahead(b, a, r, q, z)
  BY IsAhead DEF Parse
<1>2. a = From(s.text) /\ r = Read(s.text, s.pos) /\ q = s.text[s.pos]
  BY <1>1 DEF Reading
<1>3. /\ \A p \in 0 .. Len(b) : Level(b, p) \in Int
      /\ a \in 0 .. Len(b) /\ r \in a .. Len(b) /\ q \in r + 1 .. Len(b) /\ q \in 1 .. Len(b)
      /\ \A p \in r .. q - 1 : Level(b, p) = Level(b, r)
      /\ Level(b, q) = Level(b, r) + (IF b[q] = "if" THEN 1 ELSE IF b[q] = "endif" THEN -1 ELSE 0)
      /\ \A p \in a + 1 .. q : b[p] \in {"then", "else"} => Level(b, p) > Level(b, a)
      /\ Level(b, q) >= Level(b, a)
  BY SMTT(30), <1>1, LevelAhead
<1>4. Level(b, r) = Level(b, a) /\ Level(b, a) \in Int
  BY <1>2, <1>3 DEF Parse
<1>5. CASE b[q] = "if"
  <2>1. q \in a + 1 .. Len(b) /\ q \in q - 1 .. Len(b) /\ q - 1 \in r .. q - 1
    BY <1>3
  <2>2. Level(b, q - 1) = Level(b, a)
    BY <1>3, <1>4, <2>1
  <2>3. \A k \in a + 1 .. q - 1 : b[k] \in {"then", "else"} => Level(b, k) > Level(b, a)
    BY <1>3
  <2>4. \A k \in q .. q : b[k] \notin {"then", "else"}
    BY <1>5
  <2>5. Sides(b, q) \subseteq Sides(b, a)
    BY <1>3, <2>1, <2>2, <2>3, <2>4, SidesCondition
  <2> QED
    BY <1>2, <2>5
<1>6. CASE b[q] # "if"
  <2>1. Level(b, q) = Level(b, a)
    BY <1>3, <1>4, <1>6
  <2>2. q \in a .. Len(b)
    BY <1>3
  <2>3. \A k \in a + 1 .. q : b[k] \in {"then", "else"} => Level(b, k) > Level(b, a) /\ Level(b, k) > Level(b, q)
    BY <1>3, <2>1
  <2>4. Sides(b, q) \subseteq Sides(b, a)
    BY <1>3, <2>2, <2>3, SidesFall
  <2> QED
    BY <1>2, <2>4
<1> QED
  BY <1>5, <1>6

-----------------------------------------------------------------------------
(* In a condition, between k (an if or a while) and what follows it.       *)

LEMMA NextMark ==
  ASSUME NEW b \in Seq(Token), NEW a \in Nat, NEW r \in Nat, NEW q \in Nat, NEW z \in Nat, Ahead(b, a, r, q, z),
         NEW k \in a + 1 .. r, Quiet(b, k, r), NEW l \in 1 .. Len(b), Leads(b, k, l), b[l] \in Structure
  PROVE  q <= l /\ (q # l => b[q] \notin Structure)
<1>1. a <= r /\ r < q /\ q <= Len(b) /\ k <= r /\ k \in Nat
  BY DEF Ahead
<1>2. k < l /\ \A p \in k + 1 .. l - 1 : b[p] \notin Structure
  BY DEF Leads
<1>3. l \notin k + 1 .. r
  BY DEF Quiet
<1>4. l \notin r + 1 .. q - 1
  <2>1. \A p \in r + 1 .. q - 1 : b[p] \notin Structure
    BY DEF Ahead, Structure
  <2> QED
    BY <2>1
<1>5. q <= l
  BY <1>1, <1>2, <1>3, <1>4
<1>6. q # l => q \in k + 1 .. l - 1
  BY <1>1, <1>5
<1> QED
  BY <1>2, <1>5, <1>6

LEMMA QuietLevel ==
  ASSUME NEW b \in Seq(Token), NEW k \in Nat, NEW r \in k .. Len(b), Quiet(b, k, r)
  PROVE  \A p \in k .. r : Level(b, p) = Level(b, k)
<1>1. \A p \in k + 1 .. r : b[p] \notin {"if", "endif"}
  BY DEF Quiet, Structure
<1>2. k \in 0 .. Len(b)
  OBVIOUS
<1> QED
  BY <1>1, <1>2, LevelFlat

LEMMA CondGrows ==
  ASSUME NEW b \in Seq(Token), NEW a \in Nat, NEW r \in Nat, NEW q \in Nat, NEW z \in Nat, Ahead(b, a, r, q, z),
         NEW k \in a + 1 .. r, Quiet(b, k, r), b[q] \notin Structure,
         NEW y \in Seq(Nat), Piece(b, k, y, r)
  PROVE  /\ Quiet(b, k, q) /\ Level(b, q) = Level(b, r)
         /\ Piece(b, k, Append(y, q), q)
         /\ b[q] = "nl" => Piece(b, k, y, q)
<1>1. a <= r /\ r < q /\ q <= Len(b) /\ k <= r /\ k \in Nat /\ \A p \in r + 1 .. q - 1 : b[p] = "nl"
  BY DEF Ahead
<1>2. Quiet(b, k, q)
  <2>1. \A p \in k + 1 .. q : p \in k + 1 .. r \/ p \in r + 1 .. q - 1 \/ p = q
    BY <1>1
  <2> QED
    BY <1>1, <2>1 DEF Quiet, Structure
<1>3. Level(b, q) = Level(b, r)
  <2>1. r \in 0 .. Len(b) /\ q \in r .. Len(b) /\ q \in r .. q
    BY <1>1
  <2>2. \A p \in r + 1 .. q : p \in k + 1 .. q
    BY <1>1
  <2>3. \A p \in r + 1 .. q : b[p] \notin {"if", "endif"}
    BY <1>2, <2>2 DEF Quiet, Structure
  <2>4. \A p \in r .. q : Level(b, p) = Level(b, r)
    BY <2>1, <2>3, LevelFlat
  <2> QED
    BY <2>1, <2>4
<1>4. q \in r + 1 .. Len(b) /\ q \in r .. Len(b)
  BY <1>1
<1>5. Piece(b, k, Append(y, q), q)
  BY <1>1, <1>4, PieceGrows
<1>6. ASSUME b[q] = "nl"
      PROVE  Piece(b, k, y, q)
  <2>1. \A p \in r + 1 .. q : b[p] = "nl"
    BY <1>1, <1>6
  <2> QED
    BY <1>1, <1>4, <2>1, PieceSkips
<1> QED
  BY <1>2, <1>3, <1>5, <1>6

LEMMA CondText ==
  ASSUME NEW b \in Seq(Token), NEW k \in Nat, NEW r \in Nat, Quiet(b, k, r), NEW y \in Seq(Nat), Piece(b, k, y, r)
  PROVE  /\ Text(b, y)
         /\ y # <<>> => From(y) \in k .. r /\ Level(b, From(y)) = Level(b, k)
<1>1. k <= r /\ r <= Len(b) /\ r \in k .. Len(b)
  BY DEF Piece
<1>2. \A p \in k .. r : Level(b, p) = Level(b, k)
  BY <1>1, QuietLevel
<1>3. \A p \in k .. r : Level(b, p) \in Int
  <2>1. \A p \in k .. r : p \in 0 .. Len(b)
    BY <1>1
  <2> QED
    BY <2>1, LevelType
<1>4. Even(b, k, r)
  <2>1. r \in k .. r
    BY <1>1
  <2>2. \A p \in k .. r : Level(b, p) >= Level(b, k)
    BY <1>2, <1>3
  <2>3. \A p \in k + 1 .. r : b[p] \notin {"then", "else"}
    BY DEF Quiet, Structure
  <2> QED
    BY <1>2, <2>1, <2>2, <2>3 DEF Even
<1>5. Text(b, y)
  BY <1>4, PieceText
<1>6. y # <<>> => From(y) \in k .. r
  BY PieceEnds
<1> QED
  BY <1>2, <1>5, <1>6

LEMMA NoSides ==
  ASSUME NEW b, NEW c
  PROVE  Sides(b, From(<<>>)) \subseteq c
<1>1. From(<<>>) = 0
  BY DEF From
<1>2. Sides(b, 0) = {}
  BY DEF Sides
<1> QED
  BY <1>1, <1>2

LEMMA IfCondition ==
  ASSUME NEW b \in Seq(Token), NEW a \in Nat, NEW r \in Nat, NEW q \in Nat, NEW z \in Nat, Ahead(b, a, r, q, z),
         NEW s \in Scan, s.cond \in Seq(Nat), InIf(b, s, a, r)
  PROVE  Within(b, a, s.cond)
<1>1. PICK k \in a + 1 .. r : /\ b[k] = "if" /\ Level(b, k) = Level(b, a) + 1
                              /\ Quiet(b, k, r) /\ Piece(b, k, s.cond, r)
  BY DEF InIf, Between
<1>2. a <= r /\ r < q /\ q <= Len(b) /\ k \in Nat /\ a < k /\ k <= r /\ a \in 0 .. Len(b)
  BY DEF Ahead
<1>3. Text(b, s.cond) /\ (s.cond # <<>> => From(s.cond) \in k .. r)
  BY <1>1, <1>2, CondText
<1>4. CASE s.cond = <<>>
  BY <1>3, <1>4 DEF Within
<1>5. CASE s.cond # <<>>
  <2>1. PICK p \in k .. r : p = From(s.cond)
    BY <1>3, <1>5
  <2>2. k \in a + 1 .. Len(b) /\ p \in k - 1 .. Len(b) /\ k \in 1 .. Len(b) /\ p >= a
    BY <1>2
  <2>3. Level(b, k - 1) = Level(b, a)
    <3>1. Level(b, k - 1) \in Int /\ Level(b, k) = Level(b, k - 1) + 1
      BY <1>1, <2>2, LevelNext
    <3>2. Level(b, a) \in Int
      BY <1>2, LevelType
    <3> QED
      BY <1>1, <3>1, <3>2
  <2>4. \A m \in a + 1 .. k - 1 : b[m] \in {"then", "else"} => Level(b, m) > Level(b, a)
    <3>1. \A m \in a + 1 .. k - 1 : m \in a + 1 .. q
      BY <1>2
    <3>2. \A m \in a + 1 .. q : b[m] \in {"then", "else"} => Level(b, m) > Level(b, a)
      BY LevelAhead
    <3> QED
      BY <3>1, <3>2
  <2>5. \A m \in k .. p : b[m] \notin {"then", "else"}
    <3>1. \A m \in k .. p : m = k \/ m \in k + 1 .. r
      BY <1>2
    <3> QED
      BY <1>1, <3>1 DEF Quiet, Structure
  <2>6. Sides(b, p) \subseteq Sides(b, a)
    BY <1>2, <2>2, <2>3, <2>4, <2>5, SidesCondition
  <2> QED
    BY <1>3, <2>1, <2>2, <2>6 DEF Within
<1> QED
  BY <1>4, <1>5

(* A text that begins at a place of the same level stands on no more sides. *)
LEMMA LevelSides ==
  ASSUME NEW b \in Seq(Token), NEW a \in Nat, NEW r \in Nat, NEW q \in Nat, NEW z \in Nat, Ahead(b, a, r, q, z),
         NEW p \in a .. q, Level(b, p) = Level(b, a)
  PROVE  Sides(b, p) \subseteq Sides(b, a)
<1>1. a <= r /\ r < q /\ q <= Len(b) /\ a \in 0 .. Len(b) /\ p \in a .. Len(b)
  BY DEF Ahead
<1>2. \A m \in a + 1 .. q : b[m] \in {"then", "else"} => Level(b, m) > Level(b, a)
  BY LevelAhead
<1>3. \A m \in a + 1 .. p : b[m] \in {"then", "else"} => Level(b, m) > Level(b, a) /\ Level(b, m) > Level(b, p)
  BY <1>2
<1> QED
  BY <1>1, <1>3, SidesFall

LEMMA WhileCondition ==
  ASSUME NEW b \in Seq(Token), NEW a \in Nat, NEW r \in Nat, NEW q \in Nat, NEW z \in Nat, Ahead(b, a, r, q, z),
         NEW s \in Scan, s.cond \in Seq(Nat), InWhile(b, s, a, r)
  PROVE  Within(b, a, s.cond)
<1>1. PICK k \in a + 1 .. r : /\ b[k] = "while" /\ Level(b, k) = Level(b, a)
                              /\ Quiet(b, k, r) /\ Piece(b, k, s.cond, r)
  BY DEF InWhile, Between
<1>2. a <= r /\ r < q /\ q <= Len(b) /\ k \in Nat /\ a < k /\ k <= r
  BY DEF Ahead
<1>3. Text(b, s.cond) /\ (s.cond # <<>> => From(s.cond) \in k .. r /\ Level(b, From(s.cond)) = Level(b, k))
  BY <1>1, <1>2, CondText
<1>4. CASE s.cond = <<>>
  BY <1>3, <1>4 DEF Within
<1>5. CASE s.cond # <<>>
  <2>1. PICK p \in k .. r : p = From(s.cond)
    BY <1>3, <1>5
  <2>2. p \in a .. q /\ p >= a /\ Level(b, p) = Level(b, a)
    BY <1>1, <1>2, <1>3, <1>5, <2>1
  <2>3. Sides(b, p) \subseteq Sides(b, a)
    BY <2>2, LevelSides
  <2> QED
    BY <1>3, <2>1, <2>2, <2>3 DEF Within
<1> QED
  BY <1>4, <1>5

LEMMA IfCondRead ==
  ASSUME NEW b \in Seq(Token), IfsNest(b),
         NEW s \in Scan, s.text \in Seq(Nat), s.pos \in 1 .. Len(s.text), Parse(b, s),
         s.mode = "if", b[s.text[s.pos]] # "then", s.cond \in Seq(Nat),
         NEW t \in Scan, t.text = s.text, t.pos = s.pos + 1, t.mode = s.mode, t.counted = s.counted,
         t.cond = (IF b[s.text[s.pos]] = "nl" THEN s.cond ELSE Append(s.cond, s.text[s.pos])),
         t.yes = s.yes, t.no = s.no, t.else = s.else, NEW n \in Int
  PROVE  Goes(b, s, t, n, n)
<1>1. PICK a \in Nat, r \in Nat, q \in Nat, z \in Nat : Reading(s, a, r, q) /\ Ahead(b, a, r, q, z)
  BY IsAhead DEF Parse
<1>2. a = From(s.text) /\ r = Read(s.text, s.pos) /\ q = Read(t.text, t.pos) /\ q = s.text[s.pos]
  BY <1>1 DEF Reading
<1>3. s.no = <<>> /\ s.yes = <<>> /\ ~s.else
      /\ \E k \in a + 1 .. r : b[k] = "if" /\ Level(b, k) = Level(b, a) + 1 /\ Quiet(b, k, r) /\ Piece(b, k, s.cond, r)
  <2>1. InIf(b, s, a, r)
    BY <1>2 DEF Parse
  <2> QED
    BY <2>1 DEF InIf, Between
<1>4. PICK k \in a + 1 .. r : b[k] = "if" /\ Level(b, k) = Level(b, a) + 1 /\ Quiet(b, k, r) /\ Piece(b, k, s.cond, r)
  BY <1>3
<1>5. a <= r /\ r < q /\ q <= Len(b) /\ k \in 1 .. Len(b) /\ k \in a + 1 .. q
  BY <1>1 DEF Ahead
<1>6. PICK l \in 1 .. Len(b) : b[l] = "then" /\ Leads(b, k, l)
  BY <1>4, <1>5 DEF IfsNest
<1>7. b[q] \notin Structure
  <2>1. b[l] \in Structure
    BY <1>6 DEF Structure
  <2>2. Ahead(b, a, r, q, z) /\ Quiet(b, k, r) /\ Leads(b, k, l)
    BY <1>1, <1>4, <1>6
  <2>3. q # l => b[q] \notin Structure
    BY <2>1, <2>2, NextMark
  <2> QED
    BY <1>2, <1>6, <2>3
<1>8. /\ Quiet(b, k, q) /\ Level(b, q) = Level(b, r)
      /\ Piece(b, k, Append(s.cond, q), q)
      /\ b[q] = "nl" => Piece(b, k, s.cond, q)
  BY <1>1, <1>4, <1>7, CondGrows
<1>9. Piece(b, k, t.cond, q)
  BY <1>2, <1>8
<1>10. InIf(b, t, a, q)
  BY <1>3, <1>4, <1>5, <1>8, <1>9 DEF InIf, Between
<1>11. Parse(b, t)
  BY <1>2, <1>10 DEF Parse
<1>12. Owes(b, t) = Owes(b, s)
  BY <1>2, <1>8 DEF Owes
<1>13. AtWork(b, t, n)
  BY DEF AtWork
<1> QED
  BY <1>11, <1>12, <1>13 DEF Goes

LEMMA WhileCondRead ==
  ASSUME NEW b \in Seq(Token), LoopsNest(b),
         NEW s \in Scan, s.text \in Seq(Nat), s.pos \in 1 .. Len(s.text), Parse(b, s),
         s.mode = "while", b[s.text[s.pos]] # "loop", s.cond \in Seq(Nat),
         NEW t \in Scan, t.text = s.text, t.pos = s.pos + 1, t.mode = s.mode, t.counted = s.counted,
         t.cond = (IF b[s.text[s.pos]] = "nl" THEN s.cond ELSE Append(s.cond, s.text[s.pos])),
         t.yes = s.yes, t.else = s.else, NEW n \in Int
  PROVE  Goes(b, s, t, n, n)
<1>1. PICK a \in Nat, r \in Nat, q \in Nat, z \in Nat : Reading(s, a, r, q) /\ Ahead(b, a, r, q, z)
  BY IsAhead DEF Parse
<1>2. a = From(s.text) /\ r = Read(s.text, s.pos) /\ q = Read(t.text, t.pos) /\ q = s.text[s.pos]
  BY <1>1 DEF Reading
<1>3. s.yes = <<>> /\ ~s.else
      /\ \E k \in a + 1 .. r : b[k] = "while" /\ Level(b, k) = Level(b, a) /\ Quiet(b, k, r) /\ Piece(b, k, s.cond, r)
  <2>1. InWhile(b, s, a, r)
    BY <1>2 DEF Parse
  <2> QED
    BY <2>1 DEF InWhile, Between
<1>4. PICK k \in a + 1 .. r : b[k] = "while" /\ Level(b, k) = Level(b, a) /\ Quiet(b, k, r) /\ Piece(b, k, s.cond, r)
  BY <1>3
<1>5. a <= r /\ r < q /\ q <= Len(b) /\ k \in 1 .. Len(b) /\ k \in a + 1 .. q
  BY SMTT(30), <1>1 DEF Ahead
<1>6. PICK l \in 1 .. Len(b) : b[l] = "loop" /\ Leads(b, k, l)
  BY <1>4, <1>5 DEF LoopsNest
<1>7. b[q] \notin Structure
  <2>1. b[l] \in Structure
    BY <1>6 DEF Structure
  <2>2. Ahead(b, a, r, q, z) /\ Quiet(b, k, r) /\ Leads(b, k, l)
    BY <1>1, <1>4, <1>6
  <2>3. q # l => b[q] \notin Structure
    BY <2>1, <2>2, NextMark
  <2> QED
    BY <1>2, <1>6, <2>3
<1>8. /\ Quiet(b, k, q)
      /\ Piece(b, k, Append(s.cond, q), q)
      /\ b[q] = "nl" => Piece(b, k, s.cond, q)
  BY <1>1, <1>4, <1>7, CondGrows
<1>9. Piece(b, k, t.cond, q)
  BY <1>2, <1>8
<1>10. InWhile(b, t, a, q)
  BY <1>3, <1>4, <1>5, <1>8, <1>9 DEF InWhile, Between
<1>11. ~s.counted
  BY DEF Parse
<1>12. Parse(b, t)
  BY <1>2, <1>10, <1>11 DEF Parse
<1>13. Owes(b, t) = Owes(b, s)
  BY DEF Owes
<1>14. AtWork(b, t, n)
  BY DEF AtWork
<1> QED
  BY <1>12, <1>13, <1>14 DEF Goes

(* At then, the condition is a text, and the branches begin.               *)
LEMMA ThenRead ==
  ASSUME NEW b \in Seq(Token), IfsNest(b),
         NEW s \in Scan, s.text \in Seq(Nat), s.pos \in 1 .. Len(s.text), Parse(b, s),
         s.mode = "if", b[s.text[s.pos]] = "then", s.cond \in Seq(Nat),
         NEW t \in Scan, t.text = s.text, t.pos = s.pos + 1, t.mode = "then", t.at = s.text[s.pos],
         t.yes = s.yes, t.no = s.no, t.else = s.else, t.counted = s.counted, NEW n \in Int
  PROVE  /\ Goes(b, s, t, n, n) /\ Within(b, From(s.text), s.cond)
         /\ t.at = Read(t.text, t.pos) /\ Branches(b, t, t.at)
<1>1. PICK a \in Nat, r \in Nat, q \in Nat, z \in Nat : Reading(s, a, r, q) /\ Ahead(b, a, r, q, z)
  BY IsAhead DEF Parse
<1>2. a = From(s.text) /\ r = Read(s.text, s.pos) /\ q = Read(t.text, t.pos) /\ q = s.text[s.pos] /\ b[q] = "then"
  BY <1>1 DEF Reading
<1>3. InIf(b, s, a, r)
  BY <1>2 DEF Parse
<1>4. s.no = <<>> /\ s.yes = <<>> /\ ~s.else
  BY <1>3 DEF InIf, Between
<1>5. PICK k \in a + 1 .. r : b[k] = "if" /\ Level(b, k) = Level(b, a) + 1 /\ Quiet(b, k, r)
  BY <1>3 DEF InIf, Between
<1>6. a <= r /\ r < q /\ q <= Len(b) /\ k \in 1 .. Len(b) /\ k \in a + 1 .. q
  BY SMTT(30), <1>1 DEF Ahead
<1>7. PICK l \in 1 .. Len(b) : b[l] = "then" /\ Leads(b, k, l)
  BY <1>5, <1>6 DEF IfsNest
<1>8. l = q
  <2>1. b[l] \in Structure /\ b[q] \in Structure
    BY <1>2, <1>7 DEF Structure
  <2>2. Ahead(b, a, r, q, z) /\ Quiet(b, k, r) /\ Leads(b, k, l)
    BY <1>1, <1>5, <1>7
  <2>3. q # l => b[q] \notin Structure
    BY <2>1, <2>2, NextMark
  <2> QED
    BY <2>1, <2>3
<1>9. Level(b, r) = Level(b, k)
  <2>1. k \in Nat /\ r \in k .. Len(b) /\ r \in k .. r
    BY <1>6
  <2>2. \A p \in k .. r : Level(b, p) = Level(b, k)
    BY <1>5, <2>1, QuietLevel
  <2> QED
    BY <2>1, <2>2
<1>10. Level(b, q) = Level(b, r)
  <2>1. Level(b, r) \in Int /\ Level(b, q) = Level(b, r) + (IF b[q] = "if" THEN 1 ELSE IF b[q] = "endif" THEN -1 ELSE 0)
    BY <1>1, LevelAhead
  <2> QED
    BY SMTT(30), <1>2, <2>1
<1>11. t.at = q /\ b[q] = "then" /\ q \in a + 1 .. q
  <2>1. t.at = q
    BY <1>2
  <2>2. q \in a + 1 .. q
    BY <1>6
  <2> QED
    BY <1>2, <2>1, <2>2
<1>12. InThen(b, t, a, q)
  BY <1>5, <1>6, <1>7, <1>8, <1>9, <1>10, <1>11 DEF InThen
<1>13. Branches(b, t, q)
  <2>1. Level(b, q) \in Int /\ q \in 0 .. Len(b)
    BY <1>6, LevelType
  <2>2. Piece(b, q, <<>>, q)
    BY <2>1, PieceEmpty
  <2>3. \A p \in q .. q : p = q
    OBVIOUS
  <2>4. \A p \in q .. q : Level(b, p) >= Level(b, q)
    BY <2>1, <2>3
  <2>5. \A p \in q + 1 .. q : FALSE
    OBVIOUS
  <2> QED
    BY <1>4, <1>11, <2>2, <2>4, <2>5 DEF Branches
<1>14. ~t.counted
  BY DEF Parse
<1>15. Parse(b, t)
  BY <1>2, <1>12, <1>14 DEF Parse
<1>16. Owes(b, t) = Owes(b, s)
  BY <1>2, <1>10 DEF Owes
<1>17. AtWork(b, t, n)
  BY <1>2, <1>13 DEF AtWork
<1>18. Within(b, a, s.cond)
  BY <1>1, <1>3, IfCondition
<1> QED
  BY <1>2, <1>11, <1>13, <1>15, <1>16, <1>17, <1>18 DEF Goes

LEMMA LoopRead ==
  ASSUME NEW b \in Seq(Token), LoopsNest(b),
         NEW s \in Scan, s.text \in Seq(Nat), s.pos \in 1 .. Len(s.text), Parse(b, s),
         s.mode = "while", b[s.text[s.pos]] = "loop", s.cond \in Seq(Nat),
         NEW t \in Scan, t.text = s.text, t.pos = s.pos + 1, t.mode = "loop",
         t.cond = s.cond, t.yes = s.yes, t.else = s.else, t.counted = s.counted, NEW n \in Int
  PROVE  Goes(b, s, t, n, n) /\ Within(b, From(s.text), s.cond)
<1>1. PICK a \in Nat, r \in Nat, q \in Nat, z \in Nat : Reading(s, a, r, q) /\ Ahead(b, a, r, q, z)
  BY IsAhead DEF Parse
<1>2. a = From(s.text) /\ r = Read(s.text, s.pos) /\ q = Read(t.text, t.pos) /\ q = s.text[s.pos] /\ b[q] = "loop"
  BY <1>1 DEF Reading
<1>3. InWhile(b, s, a, r)
  BY <1>2 DEF Parse
<1>4. s.yes = <<>> /\ ~s.else
  BY <1>3 DEF InWhile, Between
<1>5. PICK k \in a + 1 .. r : b[k] = "while" /\ Level(b, k) = Level(b, a) /\ Quiet(b, k, r)
  BY <1>3 DEF InWhile, Between
<1>6. a <= r /\ r < q /\ q <= Len(b) /\ k \in 1 .. Len(b)
  BY SMTT(30), <1>1 DEF Ahead
<1>7. Level(b, r) = Level(b, k)
  <2>1. k \in Nat /\ r \in k .. Len(b) /\ r \in k .. r
    BY <1>6
  <2>2. \A p \in k .. r : Level(b, p) = Level(b, k)
    BY <1>5, <2>1, QuietLevel
  <2> QED
    BY <2>1, <2>2
<1>8. Level(b, q) = Level(b, r)
  <2>1. Ahead(b, a, r, q, z)
    BY <1>1
  <2>2. Level(b, r) \in Int
    BY ONLY <2>1, b \in Seq(Token), a \in Nat, r \in Nat, q \in Nat, z \in Nat, LevelAhead
  <2>3. Level(b, q) = Level(b, r) + (IF b[q] = "if" THEN 1 ELSE IF b[q] = "endif" THEN -1 ELSE 0)
    BY ONLY <2>1, b \in Seq(Token), a \in Nat, r \in Nat, q \in Nat, z \in Nat, LevelAhead
  <2> QED
    BY SMTT(30), <1>2, <2>2, <2>3
<1>9. Within(b, a, s.cond)
  BY <1>1, <1>3, WhileCondition
<1>10. InLoop(b, t, a, q)
  <2>1. q \in a + 1 .. q /\ q \in 0 .. Len(b)
    BY <1>6
  <2>2. Piece(b, q, t.yes, q)
    BY <1>4, <2>1, PieceEmpty
  <2>3. \A p \in q + 1 .. q : FALSE
    OBVIOUS
  <2> QED
    BY <1>2, <1>4, <1>5, <1>7, <1>8, <1>9, <2>1, <2>2, <2>3 DEF InLoop
<1>11. ~t.counted
  BY DEF Parse
<1>12. Parse(b, t)
  BY <1>2, <1>10, <1>11 DEF Parse
<1>13. Owes(b, t) = 0 /\ Owes(b, s) = 0
  BY <1>11 DEF Owes
<1>14. AtWork(b, t, n)
  BY DEF AtWork
<1> QED
  BY <1>2, <1>9, <1>12, <1>13, <1>14 DEF Goes

-----------------------------------------------------------------------------
(* Between then and end if.                                                *)

(* The branches grow by a token that is not theirs to end.                 *)
LEMMA BranchesGrow ==
  ASSUME NEW b \in Seq(Token), NEW a \in Nat, NEW r \in Nat, NEW q \in Nat, NEW z \in Nat, Ahead(b, a, r, q, z),
         NEW s \in Scan, s.at \in a + 1 .. r, s.yes \in Seq(Nat), s.no \in Seq(Nat), s.else \in BOOLEAN,
         Branches(b, s, r), Level(b, q) >= Level(b, s.at), b[q] = "else" => Level(b, q) > Level(b, s.at),
         NEW t \in Scan, t.at = s.at, t.else = s.else,
         t.yes = (IF s.else THEN s.yes ELSE Append(s.yes, q)), t.no = (IF s.else THEN Append(s.no, q) ELSE s.no)
  PROVE  Branches(b, t, q)
<1>1. PICK h \in a + 1 .. r : h = s.at
  OBVIOUS
<1>2. /\ a <= r /\ r < q /\ q <= Len(b) /\ \A p \in r + 1 .. q - 1 : b[p] = "nl"
      /\ h \in Nat /\ h <= r /\ q \in r + 1 .. Len(b) /\ t.at = h
  BY <1>1 DEF Ahead
<1>3. \A p \in h .. q : p \in h .. r \/ p \in r .. q - 1 \/ p = q
  BY <1>2
<1>4. \A p \in h .. q : Level(b, p) >= Level(b, h)
  <2>1. \A p \in h .. r : Level(b, p) >= Level(b, h)
    BY <1>1 DEF Branches
  <2>2. r \in h .. r
    BY <1>2
  <2>3. \A p \in r .. q - 1 : Level(b, p) = Level(b, r)
    BY LevelAhead
  <2> QED
    BY <1>1, <1>3, <2>1, <2>2, <2>3
<1>5. \A p \in h + 1 .. q : p \in h + 1 .. r \/ p \in r + 1 .. q - 1 \/ p = q
  BY <1>2
<1>6. CASE ~s.else
  <2>1. s.no = <<>> /\ Piece(b, h, s.yes, r) /\ \A p \in h + 1 .. r : b[p] = "else" => Level(b, p) > Level(b, h)
    BY <1>1, <1>6 DEF Branches
  <2>2. Piece(b, h, Append(s.yes, q), q)
    BY <1>2, <2>1, PieceGrows
  <2>3. \A p \in h + 1 .. q : b[p] = "else" => Level(b, p) > Level(b, h)
    BY <1>1, <1>2, <1>5, <2>1
  <2>4. ~t.else /\ t.no = <<>> /\ t.yes = Append(s.yes, q)
    BY <1>6, <2>1
  <2>5. Piece(b, h, t.yes, q)
    BY <2>2, <2>4
  <2> QED
    BY <1>2, <1>4, <2>3, <2>4, <2>5 DEF Branches
<1>7. CASE s.else
  <2>1. PICK e \in h + 1 .. r :
             /\ b[e] = "else" /\ Level(b, e) = Level(b, h)
             /\ Piece(b, h, s.yes, e - 1) /\ Piece(b, e, s.no, r)
             /\ \A p \in h + 1 .. r : b[p] = "else" /\ p # e => Level(b, p) > Level(b, h)
    BY <1>1, <1>7 DEF Branches
  <2>2. e \in Nat /\ e \in h + 1 .. q
    BY <1>2
  <2>3. Piece(b, e, Append(s.no, q), q)
    BY <1>2, <2>1, <2>2, PieceGrows
  <2>4. \A p \in h + 1 .. q : b[p] = "else" /\ p # e => Level(b, p) > Level(b, h)
    BY <1>1, <1>2, <1>5, <2>1
  <2>5. t.else /\ t.yes = s.yes /\ t.no = Append(s.no, q)
    BY <1>7
  <2>6. Piece(b, h, t.yes, e - 1) /\ Piece(b, e, t.no, q)
    BY <2>1, <2>3, <2>5
  <2> QED
    BY <1>2, <1>4, <2>1, <2>2, <2>4, <2>5, <2>6 DEF Branches
<1> QED
  BY <1>6, <1>7

(* A line of a branch, if the counter says that an else or end if is of an *)
(* inner if.                                                               *)
LEMMA IfLineRead ==
  ASSUME NEW b \in Seq(Token),
         NEW s \in Scan, s.text \in Seq(Nat), s.pos \in 1 .. Len(s.text), Parse(b, s),
         s.mode = "then", s.yes \in Seq(Nat), s.no \in Seq(Nat), s.else \in BOOLEAN,
         NEW q \in Nat, q = s.text[s.pos],
         NEW t \in Scan, t.text = s.text, t.pos = s.pos + 1, t.mode = "then", t.at = s.at, t.else = s.else,
         t.yes = (IF s.else THEN s.yes ELSE Append(s.yes, q)), t.no = (IF s.else THEN Append(s.no, q) ELSE s.no),
         t.counted = s.counted,
         NEW n \in Int, NEW m \in Int, n >= Owes(b, s), AtWork(b, s, n),
         b[q] \in {"else", "endif"} => n # 1,
         m = (IF b[q] = "if" THEN n + 1 ELSE IF b[q] = "endif" THEN n - 1 ELSE n)
  PROVE  Goes(b, s, t, n, m)
<1>1. PICK a \in Nat, r \in Nat, q1 \in Nat, z \in Nat : Reading(s, a, r, q1) /\ Ahead(b, a, r, q1, z)
  BY IsAhead DEF Parse
<1>2. a = From(s.text) /\ r = Read(s.text, s.pos) /\ q = Read(t.text, t.pos) /\ q1 = q
  BY <1>1 DEF Reading
<1>3. Ahead(b, a, r, q, z)
  BY <1>1, <1>2
<1>4. PICK la \in Int, lr \in Int, lq \in Int : la = Level(b, a) /\ lr = Level(b, r) /\ lq = Level(b, q)
  BY <1>3, LevelAhead
<1>5. lq >= la /\ lq = lr + (IF b[q] = "if" THEN 1 ELSE IF b[q] = "endif" THEN -1 ELSE 0)
  <2>1. /\ Level(b, q) >= Level(b, a)
        /\ Level(b, q) = Level(b, r) + (IF b[q] = "if" THEN 1 ELSE IF b[q] = "endif" THEN -1 ELSE 0)
    BY ONLY <1>3, b \in Seq(Token), a \in Nat, r \in Nat, q \in Nat, z \in Nat, LevelAhead
  <2> QED
    BY <1>4, <2>1
<1>6. b[q] = "else" => lq > la
  <2>1. \A p \in a + 1 .. q : b[p] \in {"then", "else"} => Level(b, p) > Level(b, a)
    BY <1>3, LevelAhead
  <2>2. a <= r /\ r < q
    BY <1>3 DEF Ahead
  <2>3. q \in a + 1 .. q
    BY SMTT(30), <2>2
  <2> QED
    BY <1>4, <2>1, <2>3
<1>7. InThen(b, s, a, r)
  BY <1>2 DEF Parse
<1>8. PICK h \in a + 1 .. r : h = s.at
  BY <1>7 DEF InThen
<1>9. h \in a + 1 .. q /\ Level(b, h) = la + 1
  <2>1. Level(b, h) = la + 1
    BY <1>4, <1>7, <1>8 DEF InThen
  <2>2. a <= r /\ r < q
    BY <1>3 DEF Ahead
  <2> QED
    BY SMTT(30), <2>1, <2>2
<1>10. InThen(b, t, a, q)
  <2>1. t.at = h /\ s.at = h
    BY <1>8
  <2> QED
    BY <1>7, <1>9, <2>1 DEF InThen
<1>11. Owes(b, s) = lr - la /\ Owes(b, t) = lq - la
  BY <1>2, <1>4 DEF Owes
<1>12. n >= lr - la /\ m - lq = n - lr
  <2>1. n >= lr - la
    BY <1>11
  <2> QED
    BY <1>5, <2>1
<1>13. m - Owes(b, t) = n - Owes(b, s)
  BY <1>11, <1>12
<1>14. AtWork(b, t, m)
  <2>1. CASE n > lr - la
    <3>1. m > lq - la
      BY <1>12, <2>1
    <3>2. m > Level(b, Read(t.text, t.pos)) - Level(b, From(t.text))
      BY <1>2, <1>4, <3>1
    <3> QED
      BY <3>2 DEF AtWork
  <2>2. CASE ~(n > lr - la)
    <3>1. Branches(b, s, r)
      BY <1>2, <1>4, <2>2 DEF AtWork
    <3>2. n = lr - la
      BY <1>12, <2>2
    <3>3. lq >= la + 1 /\ (b[q] = "else" => lq > la + 1)
      <4>1. CASE b[q] = "else"
        <5>1. n # 1
          BY <4>1
        <5> QED
          BY <1>5, <1>6, <3>2, <4>1, <5>1
      <4>2. CASE b[q] = "endif"
        <5>1. n # 1
          BY <4>2
        <5> QED
          BY <1>5, <3>2, <4>2, <5>1
      <4>3. CASE b[q] \notin {"else", "endif"}
        <5>1. r \in h .. r
          BY <1>8
        <5>2. Level(b, r) >= Level(b, h)
          BY <1>8, <3>1, <5>1 DEF Branches
        <5>3. lr >= la + 1
          BY <1>4, <1>9, <5>2
        <5> QED
          BY <1>5, <4>3, <5>3
      <4> QED
        BY <4>1, <4>2, <4>3
    <3>4. /\ Level(b, q) >= Level(b, s.at) /\ (b[q] = "else" => Level(b, q) > Level(b, s.at))
          /\ s.at \in a + 1 .. r
      BY <1>4, <1>8, <1>9, <3>3
    <3>5. t.at = s.at /\ t.else = s.else /\ s.yes \in Seq(Nat) /\ s.no \in Seq(Nat) /\ s.else \in BOOLEAN
      OBVIOUS
    <3>6. /\ t.yes = (IF s.else THEN s.yes ELSE Append(s.yes, q))
          /\ t.no = (IF s.else THEN Append(s.no, q) ELSE s.no)
      OBVIOUS
    <3> HIDE DEF Branches
    <3>7. Branches(b, t, q)
      BY ONLY <1>3, <3>1, <3>4, <3>5, <3>6, b \in Seq(Token), a \in Nat, r \in Nat, q \in Nat, z \in Nat,
              s \in Scan, t \in Scan, BranchesGrow
    <3> QED
      BY <1>2, <3>7 DEF AtWork
  <2> QED
    BY <2>1, <2>2
<1>15. ~t.counted
  BY DEF Parse
<1>16. Parse(b, t)
  BY <1>2, <1>10, <1>15 DEF Parse
<1> QED
  BY <1>13, <1>14, <1>16 DEF Goes

(* An else or end if is that of the if being collected when the counter is *)
(* 1: then the branches are cut right.                                     *)
LEMMA OwnTurn ==
  ASSUME NEW b \in Seq(Token), NEW a \in Nat, NEW r \in Nat, NEW q \in Nat, NEW z \in Nat, Ahead(b, a, r, q, z),
         NEW s \in Scan, Reading(s, a, r, q), Parse(b, s), s.mode = "then", b[q] \in {"else", "endif"},
         Owes(b, s) <= 1, AtWork(b, s, 1)
  PROVE  /\ Branches(b, s, r) /\ InThen(b, s, a, r)
         /\ Level(b, a) \in Int /\ Level(b, r) = Level(b, a) + 1 /\ Owes(b, s) = 1
         /\ Level(b, q) = IF b[q] = "else" THEN Level(b, a) + 1 ELSE Level(b, a)
<1>1. a = From(s.text) /\ r = Read(s.text, s.pos)
  BY DEF Reading
<1>2. PICK la \in Int, lr \in Int, lq \in Int : la = Level(b, a) /\ lr = Level(b, r) /\ lq = Level(b, q)
  BY LevelAhead
<1>3. lq >= la /\ lq = lr + (IF b[q] = "if" THEN 1 ELSE IF b[q] = "endif" THEN -1 ELSE 0)
  <2>1. /\ Level(b, q) >= Level(b, a)
        /\ Level(b, q) = Level(b, r) + (IF b[q] = "if" THEN 1 ELSE IF b[q] = "endif" THEN -1 ELSE 0)
    BY LevelAhead
  <2> QED
    BY <1>2, <2>1
<1>4. b[q] = "else" => lq > la
  <2>1. \A p \in a + 1 .. q : b[p] \in {"then", "else"} => Level(b, p) > Level(b, a)
    BY LevelAhead
  <2>2. a <= r /\ r < q
    BY DEF Ahead
  <2>3. q \in a + 1 .. q
    BY <2>2
  <2> QED
    BY <1>2, <2>1, <2>3
<1>5. Owes(b, s) = lr - la
  BY <1>1, <1>2 DEF Owes
<1>6. lr - la <= 1
  BY <1>5
<1>7. lr = la + 1
  <2>1. CASE b[q] = "else"
    BY <1>3, <1>4, <1>6, <2>1
  <2>2. CASE b[q] = "endif"
    BY <1>3, <1>6, <2>2
  <2> QED
    BY <2>1, <2>2
<1>8. lq = IF b[q] = "else" THEN la + 1 ELSE la
  BY <1>3, <1>7
<1>9. Branches(b, s, r)
  <2>1. ~(1 > Level(b, Read(s.text, s.pos)) - Level(b, From(s.text)))
    BY <1>1, <1>2, <1>7
  <2> QED
    BY <1>1, <2>1 DEF AtWork
<1>10. InThen(b, s, a, r)
  BY <1>1 DEF Parse
<1>11. Owes(b, s) = 1
  BY <1>5, <1>7
<1> QED
  BY <1>2, <1>7, <1>8, <1>9, <1>10, <1>11

LEMMA OneElse ==
  ASSUME NEW b \in Seq(Token), IfsNest(b), NEW h \in Nat, NEW e \in h + 1 .. Len(b), NEW q \in e + 1 .. Len(b),
         b[e] = "else", b[q] = "else", Level(b, e) = Level(b, h), Level(b, q) = Level(b, h),
         \A p \in h .. q : Level(b, p) >= Level(b, h)
  PROVE  FALSE
<1>1. PICK t \in 1 .. q - 1 :
           /\ b[t] = "then" /\ Level(b, t) = Level(b, q)
           /\ \A p \in t + 1 .. q - 1 : b[p] = "else" => Level(b, p) > Level(b, q)
  <2>1. q \in 1 .. Len(b)
    OBVIOUS
  <2> QED
    BY <2>1 DEF IfsNest
<1>2. Level(b, h) \in Int
  <2>1. h \in 0 .. Len(b)
    OBVIOUS
  <2> QED
    BY <2>1, LevelType
<1>3. e \notin t + 1 .. q - 1
  <2> SUFFICES ASSUME e \in t + 1 .. q - 1 PROVE FALSE
    OBVIOUS
  <2>1. Level(b, e) > Level(b, q)
    BY <1>1
  <2> QED
    BY <1>2, <2>1
<1>4. t # e
  BY <1>1
<1>5. t \in e + 1 .. Len(b) /\ t <= q /\ e \in 1 .. Len(b)
  BY <1>3, <1>4
<1>6. \A p \in e .. t : Level(b, p) >= Level(b, e)
  <2>1. \A p \in e .. t : p \in h .. q
    BY <1>5
  <2> QED
    BY <2>1
<1>7. Level(b, t) > Level(b, e)
  <2>1. b[e] \in Structure \ {"if"}
    BY DEF Structure
  <2> QED
    BY <1>1, <1>5, <1>6, <2>1, ThenInside
<1> QED
  BY <1>1, <1>2, <1>7

(* An else at 1 is the first one of its if.                                *)
LEMMA AtElse ==
  ASSUME NEW b \in Seq(Token), IfsNest(b),
         NEW a \in Nat, NEW r \in Nat, NEW q \in Nat, NEW z \in Nat, Ahead(b, a, r, q, z),
         NEW s \in Scan, Reading(s, a, r, q), Parse(b, s), s.mode = "then", b[q] = "else",
         Owes(b, s) <= 1, AtWork(b, s, 1)
  PROVE  /\ ~s.else /\ Branches(b, s, r) /\ InThen(b, s, a, r)
         /\ Level(b, a) \in Int /\ Level(b, r) = Level(b, a) + 1 /\ Level(b, q) = Level(b, a) + 1
         /\ \A p \in s.at .. q : Level(b, p) >= Level(b, s.at)
<1>1. Reading(s, a, r, q) /\ Ahead(b, a, r, q, z)
  OBVIOUS
<1>2. b[q] = "else"
  OBVIOUS
<1>3. /\ Branches(b, s, r) /\ InThen(b, s, a, r)
      /\ Level(b, a) \in Int /\ Level(b, r) = Level(b, a) + 1
      /\ Level(b, q) = IF b[q] = "else" THEN Level(b, a) + 1 ELSE Level(b, a)
  <2>1. b[q] \in {"else", "endif"} /\ Reading(s, a, r, q) /\ Ahead(b, a, r, q, z)
    BY <1>1, <1>2
  <2> QED
    BY ONLY <2>1, b \in Seq(Token), a \in Nat, r \in Nat, q \in Nat, z \in Nat, s \in Scan, Parse(b, s),
            s.mode = "then", Owes(b, s) <= 1, AtWork(b, s, 1), OwnTurn
<1>4. Level(b, q) = Level(b, a) + 1
  BY <1>2, <1>3
<1>5. PICK h \in a + 1 .. r : h = s.at /\ Level(b, h) = Level(b, a) + 1
  BY <1>3 DEF InThen
<1>6. /\ a <= r /\ r < q /\ q <= Len(b) /\ \A p \in r + 1 .. q - 1 : b[p] = "nl"
      /\ h \in Nat /\ h <= r
  BY <1>1 DEF Ahead
<1>7. \A p \in h .. q : Level(b, p) >= Level(b, h)
  <2>1. \A p \in h .. r : Level(b, p) >= Level(b, h)
    BY <1>3, <1>5 DEF Branches
  <2>2. \A p \in r .. q - 1 : Level(b, p) = Level(b, r)
    BY <1>1, LevelAhead
  <2>3. \A p \in h .. q : p \in h .. r \/ p \in r .. q - 1 \/ p = q
    BY <1>6
  <2>4. Level(b, q) >= Level(b, h) /\ Level(b, r) >= Level(b, h)
    <3>1. PICK l \in Int : l = Level(b, a)
      BY <1>3
    <3>2. Level(b, q) = l + 1 /\ Level(b, r) = l + 1 /\ Level(b, h) = l + 1
      BY <1>3, <1>4, <1>5, <3>1
    <3> QED
      BY ONLY <3>2, l \in Int
  <2>5. \A p \in r .. q - 1 : Level(b, p) >= Level(b, h)
    BY <2>2, <2>4
  <2> QED
    BY <2>1, <2>3, <2>4, <2>5
<1>8. ~s.else
  <2> SUFFICES ASSUME s.else PROVE FALSE
    OBVIOUS
  <2>1. PICK e \in h + 1 .. r : b[e] = "else" /\ Level(b, e) = Level(b, h)
    BY <1>3, <1>5 DEF Branches
  <2>2. e \in h + 1 .. Len(b) /\ q \in e + 1 .. Len(b) /\ Level(b, q) = Level(b, h)
    BY SMTT(30), <1>4, <1>5, <1>6
  <2> QED
    BY <1>2, <1>6, <1>7, <2>1, <2>2, OneElse
<1> QED
  BY <1>3, <1>4, <1>5, <1>7, <1>8

LEMMA ElseRead ==
  ASSUME NEW b \in Seq(Token), IfsNest(b),
         NEW s \in Scan, s.text \in Seq(Nat), s.pos \in 1 .. Len(s.text), Parse(b, s),
         s.mode = "then", b[s.text[s.pos]] = "else", s.yes \in Seq(Nat), s.else \in BOOLEAN,
         NEW t \in Scan, t.text = s.text, t.pos = s.pos + 1, t.mode = "then", t.at = s.at, t.else = TRUE,
         t.yes = s.yes, t.no = s.no, t.counted = s.counted, Owes(b, s) <= 1, AtWork(b, s, 1)
  PROVE  Goes(b, s, t, 1, 1)
<1>1. PICK a \in Nat, r \in Nat, q \in Nat, z \in Nat : Reading(s, a, r, q) /\ Ahead(b, a, r, q, z)
  BY IsAhead DEF Parse
<1>2. a = From(s.text) /\ r = Read(s.text, s.pos) /\ q = Read(t.text, t.pos) /\ b[q] = "else"
  BY <1>1 DEF Reading
<1>3. /\ ~s.else /\ Branches(b, s, r) /\ InThen(b, s, a, r)
      /\ Level(b, a) \in Int /\ Level(b, r) = Level(b, a) + 1 /\ Level(b, q) = Level(b, a) + 1
      /\ \A p \in s.at .. q : Level(b, p) >= Level(b, s.at)
  <2>1. b[q] = "else" /\ Reading(s, a, r, q) /\ Ahead(b, a, r, q, z)
    BY <1>1, <1>2
  <2> QED
    BY ONLY <2>1, b \in Seq(Token), IfsNest(b), a \in Nat, r \in Nat, q \in Nat, z \in Nat, s \in Scan, Parse(b, s),
            s.mode = "then", Owes(b, s) <= 1, AtWork(b, s, 1), AtElse
<1>4. Level(b, q) = Level(b, a) + 1
  BY <1>3
<1>5. PICK h \in a + 1 .. r : h = s.at /\ Level(b, h) = Level(b, a) + 1
  BY <1>3 DEF InThen
<1>6. /\ a <= r /\ r < q /\ q <= Len(b) /\ \A p \in r + 1 .. q - 1 : b[p] = "nl"
      /\ h \in Nat /\ h <= r
  BY <1>1 DEF Ahead
<1>7. \A p \in h .. q : Level(b, p) >= Level(b, h)
  BY <1>3, <1>5
<1>8. ~s.else
  BY <1>3
<1>9. Branches(b, t, q)
  <2>1. /\ s.no = <<>> /\ Piece(b, h, s.yes, r)
        /\ \A p \in h + 1 .. r : b[p] = "else" => Level(b, p) > Level(b, h)
    BY <1>3, <1>5, <1>8 DEF Branches
  <2>2. Piece(b, h, s.yes, q - 1)
    <3>1. q - 1 \in r .. Len(b)
      BY <1>6
    <3> QED
      BY <1>6, <2>1, <3>1, PieceSkips
  <2>3. Piece(b, q, <<>>, q)
    <3>1. q \in 0 .. Len(b)
      BY <1>6
    <3> QED
      BY <3>1, PieceEmpty
  <2>4. \A p \in h + 1 .. q : b[p] = "else" /\ p # q => Level(b, p) > Level(b, h)
    <3>1. \A p \in h + 1 .. q : p \in h + 1 .. r \/ p \in r + 1 .. q - 1 \/ p = q
      BY <1>6
    <3> QED
      BY <1>6, <2>1, <3>1
  <2>5. t.at = h /\ t.else /\ t.yes = s.yes /\ t.no = <<>>
    BY <1>5, <2>1
  <2>6. q \in h + 1 .. q /\ b[q] = "else" /\ Level(b, q) = Level(b, h)
    BY SMTT(30), <1>2, <1>4, <1>5, <1>6
  <2> QED
    BY <1>7, <2>2, <2>3, <2>4, <2>5, <2>6 DEF Branches
<1>10. InThen(b, t, a, q)
  <2>1. s.at \in a + 1 .. q /\ t.at = s.at
    BY <1>5, <1>6
  <2> QED
    BY <1>3, <2>1 DEF InThen
<1>11. ~t.counted
  BY DEF Parse
<1>12. Parse(b, t)
  BY <1>2, <1>10, <1>11 DEF Parse
<1>13. Owes(b, s) = Owes(b, t)
  BY <1>2, <1>3, <1>4 DEF Owes
<1>14. AtWork(b, t, 1)
  BY <1>2, <1>9 DEF AtWork
<1> QED
  BY <1>12, <1>13, <1>14 DEF Goes

LEMMA EndIfRead ==
  ASSUME NEW b \in Seq(Token),
         NEW s \in Scan, s.text \in Seq(Nat), s.pos \in 1 .. Len(s.text), Parse(b, s),
         s.mode = "then", b[s.text[s.pos]] = "endif",
         NEW t \in Scan, t.text = s.text, t.pos = s.pos + 1, t.mode = "initial", t.counted = s.counted,
         Owes(b, s) <= 1, AtWork(b, s, 1)
  PROVE  Goes(b, s, t, 1, 0)
<1>1. PICK a \in Nat, r \in Nat, q \in Nat, z \in Nat : Reading(s, a, r, q) /\ Ahead(b, a, r, q, z)
  BY IsAhead DEF Parse
<1>2. a = From(s.text) /\ r = Read(s.text, s.pos) /\ q = Read(t.text, t.pos) /\ b[q] = "endif"
  BY <1>1 DEF Reading
<1>3. Owes(b, s) = 1 /\ Level(b, q) = IF b[q] = "else" THEN Level(b, a) + 1 ELSE Level(b, a)
  <2>1. b[q] \in {"else", "endif"} /\ Reading(s, a, r, q) /\ Ahead(b, a, r, q, z)
    BY <1>1, <1>2
  <2> QED
    BY ONLY <2>1, b \in Seq(Token), a \in Nat, r \in Nat, q \in Nat, z \in Nat, s \in Scan, Parse(b, s),
            s.mode = "then", Owes(b, s) <= 1, AtWork(b, s, 1), OwnTurn
<1>4. Level(b, q) = Level(b, a)
  BY <1>2, <1>3
<1>5. ~t.counted
  BY DEF Parse
<1>6. Parse(b, t)
  BY <1>2, <1>4, <1>5 DEF Parse
<1>7. Owes(b, t) = 0 /\ AtWork(b, t, 0)
  BY <1>5 DEF Owes, AtWork
<1> QED
  BY <1>3, <1>6, <1>7 DEF Goes

-----------------------------------------------------------------------------
(* The texts of the branches.                                              *)

(* A text that stands on side x besides the sides of a.                    *)
Stands(b, a, y, x) ==
  /\ Text(b, y)
  /\ y # <<>> => From(y) >= a
  /\ Sides(b, From(y)) \subseteq Sides(b, a) \cup {x}

(* Behind h, a then, else or loop, the level is back at r.                 *)
LEMMA EvenInside ==
  ASSUME NEW b \in Seq(Token), IfsNest(b), NEW h \in 1 .. Len(b), b[h] \in Structure \ {"if"}, NEW r \in h .. Len(b),
         Level(b, r) = Level(b, h), \A p \in h .. r : Level(b, p) >= Level(b, h),
         \A p \in h + 1 .. r : b[p] = "else" => Level(b, p) > Level(b, h)
  PROVE  Even(b, h, r)
<1>1. ASSUME NEW p \in h + 1 .. r, b[p] = "then"
      PROVE  Level(b, p) > Level(b, h)
  <2>1. p \in h + 1 .. Len(b) /\ \A m \in h .. p : Level(b, m) >= Level(b, h)
    OBVIOUS
  <2> QED
    BY <1>1, <2>1, ThenInside
<1> QED
  BY <1>1 DEF Even

(* Where a piece begins.                                                   *)
LEMMA PieceFrom ==
  ASSUME NEW b \in Seq(Token), NEW y \in Seq(Nat), y # <<>>, NEW h \in Nat, NEW r \in Nat, Piece(b, h, y, r)
  PROVE  \E p \in h .. Len(b) : p = From(y) /\ \A k \in h + 1 .. p : b[k] = "nl"
<1>1. From(y) \in h .. r /\ \A p \in h + 1 .. From(y) : b[p] = "nl"
  BY PieceEnds
<1>2. r <= Len(b)
  BY DEF Piece
<1> QED
  BY <1>1, <1>2

LEMMA YesText ==
  ASSUME NEW b \in Seq(Token), NEW a \in Nat, NEW r \in Nat, NEW q \in Nat, NEW z \in Nat, Ahead(b, a, r, q, z),
         NEW h \in a + 1 .. r, NEW i \in a + 1 .. h, b[i] = "if", b[h] = "then", Leads(b, i, h),
         Level(b, h) = Level(b, a) + 1, NEW y \in Seq(Nat), NEW v \in Nat, Piece(b, h, y, v), Even(b, h, v)
  PROVE  Stands(b, a, y, <<h, "yes">>)
<1>1. Text(b, y)
  BY PieceText
<1>2. CASE y = <<>>
  BY <1>1, <1>2, NoSides DEF Stands
<1>3. CASE y # <<>>
  <2>1. PICK p \in h .. Len(b) : p = From(y) /\ \A k \in h + 1 .. p : b[k] = "nl"
    BY <1>3, PieceFrom
  <2>2. a <= r /\ r < q /\ q <= Len(b) /\ a \in 0 .. Len(b) /\ h \in a + 1 .. Len(b) /\ p >= a
    BY DEF Ahead
  <2>3. \A k \in a + 1 .. h : b[k] \in {"then", "else"} => Level(b, k) > Level(b, a)
    <3>1. \A k \in a + 1 .. q : b[k] \in {"then", "else"} => Level(b, k) > Level(b, a)
      BY LevelAhead
    <3>2. \A k \in a + 1 .. h : k \in a + 1 .. q
      BY <2>2
    <3> QED
      BY <3>1, <3>2
  <2>4. \A k \in h + 1 .. p : b[k] \notin {"then", "else"}
    BY <2>1
  <2>5. Sides(b, p) \subseteq Sides(b, a) \cup {<<h, "yes">>}
    BY <2>1, <2>2, <2>3, <2>4, SidesThen
  <2> QED
    BY <1>1, <2>1, <2>2, <2>5 DEF Stands
<1> QED
  BY <1>2, <1>3

LEMMA NoText ==
  ASSUME NEW b \in Seq(Token), IfsNest(b),
         NEW a \in Nat, NEW r \in Nat, NEW q \in Nat, NEW z \in Nat, Ahead(b, a, r, q, z),
         NEW h \in a + 1 .. r, NEW i \in a + 1 .. h, b[i] = "if", b[h] = "then", Leads(b, i, h),
         Level(b, h) = Level(b, a) + 1, NEW e \in h + 1 .. r, b[e] = "else", Level(b, e) = Level(b, h),
         \A k \in h .. e : Level(b, k) >= Level(b, h),
         NEW y \in Seq(Nat), NEW v \in Nat, Piece(b, e, y, v), Even(b, e, v)
  PROVE  Stands(b, a, y, <<h, "no">>)
<1>1. Text(b, y)
  BY PieceText
<1>2. CASE y = <<>>
  BY <1>1, <1>2, NoSides DEF Stands
<1>3. CASE y # <<>>
  <2>1. PICK p \in e .. Len(b) : p = From(y) /\ \A k \in e + 1 .. p : b[k] = "nl"
    BY <1>3, PieceFrom
  <2>2. a <= r /\ r < q /\ q <= Len(b) /\ a \in 0 .. Len(b) /\ h \in a + 1 .. Len(b) /\ p >= a /\ e \in h + 1 .. Len(b)
    BY DEF Ahead
  <2>3. \A k \in a + 1 .. e : b[k] \in {"then", "else"} => Level(b, k) > Level(b, a)
    <3>1. \A k \in a + 1 .. q : b[k] \in {"then", "else"} => Level(b, k) > Level(b, a)
      BY LevelAhead
    <3>2. \A k \in a + 1 .. e : k \in a + 1 .. q
      BY <2>2
    <3> QED
      BY <3>1, <3>2
  <2>4. \A k \in e + 1 .. p : b[k] \notin {"then", "else"}
    BY <2>1
  <2>5. Sides(b, p) \subseteq Sides(b, a) \cup {<<h, "no">>}
    BY <2>1, <2>2, <2>3, <2>4, SidesElse
  <2> QED
    BY <1>1, <2>1, <2>2, <2>5 DEF Stands
<1> QED
  BY <1>2, <1>3

(* At the end of the if, both branches are texts.                          *)
LEMMA BranchTexts ==
  ASSUME NEW b \in Seq(Token), IfsNest(b),
         NEW s \in Scan, s.text \in Seq(Nat), s.pos \in 1 .. Len(s.text), Parse(b, s),
         s.mode = "then", b[s.text[s.pos]] = "endif", s.yes \in Seq(Nat), s.no \in Seq(Nat),
         Owes(b, s) <= 1, AtWork(b, s, 1)
  PROVE  /\ s.at > From(s.text) /\ s.text # <<>>
         /\ Stands(b, From(s.text), s.yes, <<s.at, "yes">>)
         /\ s.else => Stands(b, From(s.text), s.no, <<s.at, "no">>)
<1>1. PICK a \in Nat, r \in Nat, q \in Nat, z \in Nat : Reading(s, a, r, q) /\ Ahead(b, a, r, q, z)
  BY IsAhead DEF Parse
<1>2. a = From(s.text) /\ r = Read(s.text, s.pos) /\ b[q] = "endif"
  BY <1>1 DEF Reading
<1>3. Branches(b, s, r) /\ InThen(b, s, a, r) /\ Level(b, a) \in Int /\ Level(b, r) = Level(b, a) + 1
  <2>1. b[q] \in {"else", "endif"} /\ Reading(s, a, r, q) /\ Ahead(b, a, r, q, z)
    BY <1>1, <1>2
  <2> QED
    BY ONLY <2>1, b \in Seq(Token), a \in Nat, r \in Nat, q \in Nat, z \in Nat, s \in Scan, Parse(b, s),
            s.mode = "then", Owes(b, s) <= 1, AtWork(b, s, 1), OwnTurn
<1>4. PICK h \in a + 1 .. r : h = s.at
  BY <1>3 DEF InThen
<1>5. b[h] = "then" /\ Level(b, h) = Level(b, a) + 1
  BY <1>3, <1>4 DEF InThen
<1>6. PICK i \in a + 1 .. h : b[i] = "if" /\ Leads(b, i, h)
  BY <1>3, <1>4 DEF InThen
<1>7. a <= r /\ r < q /\ q <= Len(b) /\ h \in 1 .. Len(b) /\ r \in h .. Len(b) /\ h > a /\ h \in Nat
  <2>1. a <= r /\ r < q /\ q <= z /\ z <= Len(b)
    BY <1>1 DEF Ahead
  <2>2. h \in Nat /\ a < h /\ h <= r /\ Len(b) \in Nat
    OBVIOUS
  <2> QED
    BY <2>1, <2>2
<1>8. \A p \in h .. r : Level(b, p) >= Level(b, h)
  BY <1>3, <1>4 DEF Branches
<1>9. b[h] \in Structure \ {"if"}
  BY <1>5 DEF Structure
<1>10. CASE ~s.else
  <2>1. Piece(b, h, s.yes, r) /\ \A p \in h + 1 .. r : b[p] = "else" => Level(b, p) > Level(b, h)
    BY <1>3, <1>4, <1>10 DEF Branches
  <2>2. Level(b, r) = Level(b, h)
    BY <1>3, <1>5
  <2>3. Even(b, h, r)
    BY <1>7, <1>8, <1>9, <2>1, <2>2, EvenInside
  <2>4. Stands(b, a, s.yes, <<h, "yes">>)
    BY <1>1, <1>5, <1>6, <2>1, <2>3, YesText
  <2> QED
    BY SMTT(30), <1>2, <1>4, <1>7, <1>10, <2>4
<1>11. CASE s.else
  <2>1. PICK e \in h + 1 .. r :
             /\ b[e] = "else" /\ Level(b, e) = Level(b, h)
             /\ Piece(b, h, s.yes, e - 1) /\ Piece(b, e, s.no, r)
             /\ \A p \in h + 1 .. r : b[p] = "else" /\ p # e => Level(b, p) > Level(b, h)
    BY <1>3, <1>4, <1>11 DEF Branches
  <2>2. e \in 1 .. Len(b) /\ e - 1 \in h .. Len(b) /\ r \in e .. Len(b) /\ e \in Nat /\ e - 1 \in Nat
    BY <1>7
  <2>3. Even(b, h, e - 1)
    <3>1. Level(b, e - 1) = Level(b, h)
      <4>1. Level(b, e) = Level(b, e - 1) + 0 /\ Level(b, e - 1) \in Int
        BY <2>1, <2>2, LevelNext
      <4> QED
        BY <2>1, <4>1
    <3>2. \A p \in h .. e - 1 : p \in h .. r
      BY <2>2
    <3>3. \A p \in h + 1 .. e - 1 : p \in h + 1 .. r /\ p # e
      BY <2>2
    <3>4. \A p \in h .. e - 1 : Level(b, p) >= Level(b, h)
      BY <1>8, <3>2
    <3>5. \A p \in h + 1 .. e - 1 : b[p] = "else" => Level(b, p) > Level(b, h)
      BY <2>1, <3>3
    <3> QED
      BY <1>7, <1>9, <2>2, <3>1, <3>4, <3>5, EvenInside
  <2>4. Even(b, e, r)
    <3>1. Level(b, r) = Level(b, e)
      BY <1>3, <1>5, <2>1
    <3>2. \A p \in e .. r : p \in h .. r
      BY <2>2
    <3>3. \A p \in e .. r : Level(b, p) >= Level(b, e)
      BY <1>8, <2>1, <3>2
    <3>4. \A p \in e + 1 .. r : p \in h + 1 .. r /\ p # e
      BY <2>2
    <3>5. \A p \in e + 1 .. r : b[p] = "else" => Level(b, p) > Level(b, e)
      BY <2>1, <3>4
    <3>6. b[e] \in Structure \ {"if"}
      BY <2>1 DEF Structure
    <3> QED
      BY <2>2, <3>1, <3>3, <3>5, <3>6, EvenInside
  <2>5. Stands(b, a, s.yes, <<h, "yes">>)
    BY <1>1, <1>5, <1>6, <2>1, <2>2, <2>3, YesText
  <2>6. Stands(b, a, s.no, <<h, "no">>)
    <3>1. \A k \in h .. e : Level(b, k) >= Level(b, h)
      BY <1>8, <2>2
    <3> QED
      BY <1>1, <1>5, <1>6, <2>1, <2>2, <2>4, <3>1, NoText
  <2> QED
    BY SMTT(30), <1>2, <1>4, <1>7, <2>5, <2>6
<1> QED
  BY <1>10, <1>11

-----------------------------------------------------------------------------
(* Between loop and what follows its end.                                  *)

LEMMA LoopLineRead ==
  ASSUME NEW b \in Seq(Token), IfsNest(b), LoopsNest(b),
         NEW s \in Scan, s.text \in Seq(Nat), s.pos \in 1 .. Len(s.text), Parse(b, s),
         s.mode = "loop", s.yes \in Seq(Nat),
         NEW t \in Scan, t.text = s.text, t.pos = s.pos + 1, t.counted = s.counted, t.cond = s.cond, t.else = s.else,
         t.mode = (IF b[s.text[s.pos]] = "endloop" THEN "pending" ELSE "loop"),
         t.yes = (IF b[s.text[s.pos]] \in {"nl", "endloop"} THEN s.yes ELSE Append(s.yes, s.text[s.pos])), NEW n \in Int
  PROVE  Goes(b, s, t, n, n)
<1>1. PICK a \in Nat, r \in Nat, q \in Nat, z \in Nat : Reading(s, a, r, q) /\ Ahead(b, a, r, q, z)
  BY IsAhead DEF Parse
<1>2. a = From(s.text) /\ r = Read(s.text, s.pos) /\ q = Read(t.text, t.pos) /\ q = s.text[s.pos]
  BY <1>1 DEF Reading
<1>3. Ahead(b, a, r, q, z)
  BY <1>1
<1>13. /\ t.mode = (IF b[q] = "endloop" THEN "pending" ELSE "loop")
       /\ t.yes = (IF b[q] \in {"nl", "endloop"} THEN s.yes ELSE Append(s.yes, q))
  BY <1>2
<1>4. InLoop(b, s, a, r)
  BY <1>2 DEF Parse
<1>5. Within(b, a, s.cond) /\ ~s.else
  BY <1>4 DEF InLoop
<1>6. PICK k \in a + 1 .. r : /\ b[k] = "loop" /\ Level(b, k) = Level(b, a)
                              /\ Piece(b, k, s.yes, r) /\ \A p \in k + 1 .. r : b[p] # "endloop"
  BY <1>4 DEF InLoop
<1>7. a <= r /\ r < q /\ q <= Len(b) /\ \A p \in r + 1 .. q - 1 : b[p] = "nl"
  <2>1. /\ a <= r /\ r < q /\ q <= z /\ z <= Len(b) /\ Len(b) \in Nat
        /\ \A p \in r + 1 .. q - 1 : b[p] = "nl"
    BY <1>3 DEF Ahead
  <2>2. q <= Len(b)
    BY <2>1
  <2> QED
    BY <2>1, <2>2
<1>8. k \in Nat /\ a < k /\ k <= r /\ k \in 1 .. Len(b) /\ q \in r + 1 .. Len(b)
  <2>1. k \in Nat /\ a < k /\ k <= r /\ Len(b) \in Nat
    OBVIOUS
  <2>2. k <= Len(b) /\ q <= Len(b) /\ r + 1 <= q
    BY <1>7, <2>1
  <2> QED
    BY <2>1, <2>2
<1>9. ~s.counted
  BY DEF Parse
<1>10. Owes(b, s) = 0 /\ Owes(b, t) = 0 /\ AtWork(b, t, n)
  BY <1>9 DEF Owes, AtWork
<1>11. CASE b[q] # "endloop"
  <2>1. Piece(b, k, t.yes, q)
    <3>1. CASE b[q] = "nl"
      <4>1. \A p \in r + 1 .. q : b[p] = "nl"
        BY <1>7, <3>1
      <4>2. q \in r .. Len(b)
        BY <1>8
      <4>3. Piece(b, k, s.yes, q)
        BY <1>6, <1>8, <4>1, <4>2, PieceSkips
      <4> QED
        BY <1>13, <3>1, <4>3
    <3>2. CASE b[q] # "nl"
      <4>1. Piece(b, k, Append(s.yes, q), q)
        BY <1>6, <1>7, <1>8, PieceGrows
      <4> QED
        BY <1>11, <1>13, <3>2, <4>1
    <3> QED
      BY <3>1, <3>2
  <2>2. \A p \in k + 1 .. q : b[p] # "endloop"
    <3>1. \A p \in k + 1 .. q : p \in k + 1 .. r \/ p \in r + 1 .. q - 1 \/ p = q
      BY <1>7, <1>8
    <3> QED
      BY <1>6, <1>7, <1>11, <3>1
  <2>3. k \in a + 1 .. q
    BY <1>7, <1>8
  <2>4. t.cond = s.cond /\ ~t.else /\ t.mode = "loop"
    BY <1>5, <1>11, <1>13
  <2>5. InLoop(b, t, a, q)
    BY <1>5, <1>6, <2>1, <2>2, <2>3, <2>4 DEF InLoop
  <2>6. Parse(b, t)
    BY <1>2, <1>9, <2>4, <2>5 DEF Parse
  <2> QED
    BY <1>10, <2>6 DEF Goes
<1>12. CASE b[q] = "endloop"
  <2>1. PICK l \in k + 1 .. Len(b) :
             /\ b[l] = "endloop" /\ Level(b, l) = Level(b, k)
             /\ \A p \in k + 1 .. l - 1 :
                  /\ b[p] \notin {"while", "loop", "endloop"} /\ Level(b, p) >= Level(b, k)
                  /\ b[p] = "else" => Level(b, p) > Level(b, k)
    BY <1>6, <1>8 DEF LoopsNest
  <2>2. l = q
    <3>1. l \notin k + 1 .. r
      BY <1>6, <2>1
    <3>2. l \notin r + 1 .. q - 1
      BY <1>7, <2>1
    <3>3. q \notin k + 1 .. l - 1
      BY <1>12, <2>1
    <3> QED
      BY <1>7, <1>8, <3>1, <3>2, <3>3
  <2>3. Level(b, a) \in Int /\ Level(b, q) = Level(b, a) /\ Level(b, r) = Level(b, a) /\ Level(b, k) = Level(b, a)
    <3>1. /\ Level(b, r) \in Int /\ Level(b, a) \in Int
          /\ Level(b, q) = Level(b, r) + (IF b[q] = "if" THEN 1 ELSE IF b[q] = "endif" THEN -1 ELSE 0)
      BY ONLY <1>3, b \in Seq(Token), a \in Nat, r \in Nat, q \in Nat, z \in Nat, LevelAhead
    <3> QED
      BY <1>6, <1>12, <2>1, <2>2, <3>1
  <2>4. Even(b, k, r)
    <3>1. \A p \in k .. r : p = k \/ p \in k + 1 .. l - 1
      BY <1>7, <1>8, <2>2
    <3>2. \A p \in k .. r : Level(b, p) >= Level(b, k)
      <4>1. Level(b, k) >= Level(b, k)
        BY <2>3
      <4>2. \A p \in k + 1 .. l - 1 : Level(b, p) >= Level(b, k)
        BY <2>1
      <4> QED
        BY <3>1, <4>1, <4>2
    <3>3. \A p \in k + 1 .. r : p \in k + 1 .. l - 1
      BY <1>7, <1>8, <2>2
    <3>4. \A p \in k + 1 .. r : b[p] = "else" => Level(b, p) > Level(b, k)
      BY <2>1, <3>3
    <3>5. b[k] \in Structure \ {"if"}
      BY <1>6 DEF Structure
    <3>6. r \in k .. Len(b) /\ Level(b, r) = Level(b, k)
      BY <1>7, <1>8, <2>3
    <3> QED
      BY <1>8, <3>2, <3>4, <3>5, <3>6, EvenInside
  <2>5. Text(b, s.yes)
    BY <1>6, <1>8, <2>4, PieceText
  <2>6. Within(b, a, s.yes)
    <3>1. CASE s.yes = <<>>
      BY <2>5, <3>1 DEF Within
    <3>2. CASE s.yes # <<>>
      <4>1. From(s.yes) \in k .. r /\ \A p \in k + 1 .. From(s.yes) : b[p] = "nl"
        BY SMTT(30), <1>6, <1>8, <3>2, PieceEnds
      <4>2. PICK p \in k .. r : p = From(s.yes)
        BY <4>1
      <4>3. p \in k .. Len(b) /\ k \in 0 .. Len(b) /\ p \in a .. q /\ p >= a
        BY <1>7, <1>8
      <4>4. Level(b, p) = Level(b, k)
        BY <4>1, <4>2, <4>3, NewlinesFlat
      <4>5. Sides(b, p) \subseteq Sides(b, a)
        BY <1>3, <2>3, <4>3, <4>4, LevelSides
      <4> QED
        BY <2>5, <4>2, <4>3, <4>5 DEF Within
    <3> QED
      BY <3>1, <3>2
  <2>7. t.mode = "pending" /\ t.yes = s.yes /\ t.cond = s.cond
    BY <1>12, <1>13
  <2>8. Parse(b, t)
    BY SMTT(30), <1>2, <1>5, <1>9, <2>3, <2>6, <2>7 DEF Parse
  <2> QED
    BY <1>10, <2>8 DEF Goes
<1> QED
  BY <1>11, <1>12

(* The loop is done with, or run, when the next token is there.            *)
LEMMA RunLoopRead ==
  ASSUME NEW b \in Seq(Token), NEW s \in Scan, s.pos \in 1 .. Len(s.text) + 1, Parse(b, s), s.mode = "pending",
         NEW t \in Scan, t.text = s.text, t.pos = s.pos, t.mode = "initial", t.cond = s.cond, t.yes = s.yes,
         t.counted \in BOOLEAN, t.counted => s.pos <= Len(s.text) /\ b[s.text[s.pos]] = "if",
         NEW n \in Int, NEW m \in Int, m = IF t.counted THEN n + 1 ELSE n
  PROVE  Goes(b, s, t, n, m) /\ s.text # <<>> /\ Within(b, From(s.text), s.cond) /\ Within(b, From(s.text), s.yes)
<1>1. ~s.counted /\ s.text # <<>> /\ Within(b, From(s.text), s.cond) /\ Within(b, From(s.text), s.yes)
  BY DEF Parse
<1>2. Parse(b, t)
  BY DEF Parse
<1>3. Owes(b, s) = 0 /\ Owes(b, t) = (IF t.counted THEN 1 ELSE 0) /\ AtWork(b, t, m)
  BY <1>1 DEF Owes, AtWork
<1>4. m - Owes(b, t) = n - Owes(b, s)
  BY <1>3
<1> QED
  BY <1>1, <1>2, <1>3, <1>4 DEF Goes

(* A parse that begins.                                                    *)
LEMMA Begun ==
  ASSUME NEW b \in Seq(Token), NEW t \in Scan, Text(b, t.text), t.pos = 1, t.mode = "initial", t.counted = FALSE, NEW n
  PROVE  Parse(b, t) /\ Owes(b, t) = 0 /\ AtWork(b, t, n)
<1>1. Read(t.text, t.pos) = From(t.text)
  BY DEF Read
<1> QED
  BY <1>1 DEF Parse, Owes, AtWork

(* A body is a text.                                                       *)
LEMMA WholeIsText ==
  ASSUME NEW b \in Seq(Token), IfsNest(b), NEW y \in Seq(Nat), y = [k \in 1 .. Len(b) |-> k]
  PROVE  Text(b, y) /\ Sides(b, From(y)) = {}
<1>1. Len(y) = Len(b) /\ \A k \in 1 .. Len(b) : y[k] = k
  OBVIOUS
<1>2. CASE y = <<>>
  <2>1. From(y) = 0
    BY <1>2 DEF From
  <2>2. Sides(b, 0) = {}
    BY DEF Sides
  <2> QED
    BY <1>2, <2>1, <2>2, EmptyText
<1>3. CASE y # <<>>
  <2>1. From(y) = 0 /\ To(y) = Len(b)
    <3>1. Len(b) \in Nat /\ Len(b) >= 1
      BY <1>1, <1>3
    <3>2. y[1] = 1 /\ y[Len(y)] = Len(b)
      BY <1>1, <3>1
    <3> QED
      BY <1>3, <3>2 DEF From, To
  <2>2. Piece(b, 0, y, Len(b))
    BY <1>1 DEF Piece
  <2>3. Level(b, 0) = 0
    BY LevelStart
  <2>4. Level(b, Len(b)) = 0 /\ \A p \in 1 .. Len(b) : Level(b, p) >= 0
    BY DEF IfsNest
  <2>5. \A p \in 0 .. Len(b) : Level(b, p) >= 0
    <3>1. \A p \in 0 .. Len(b) : p = 0 \/ p \in 1 .. Len(b)
      OBVIOUS
    <3> QED
      BY <2>3, <2>4, <3>1
  <2>6. ASSUME NEW p \in 1 .. Len(b), b[p] = "then"
        PROVE  Level(b, p) > 0
    <3>1. PICK i \in 1 .. Len(b) : b[i] = "if" /\ Leads(b, i, p)
      BY <2>6 DEF IfsNest
    <3>2. i < p /\ \A r \in i + 1 .. p - 1 : b[r] \notin {"if", "endif"}
      BY <3>1 DEF Leads, Structure
    <3>3. Level(b, p) = Level(b, i)
      <4>1. i \in 0 .. Len(b) /\ p \in i .. Len(b)
        BY <3>2
      <4>2. \A r \in i + 1 .. p : b[r] \notin {"if", "endif"}
        BY <2>6, <3>2
      <4>3. \A r \in i .. p : Level(b, r) = Level(b, i)
        BY <4>1, <4>2, LevelFlat
      <4> QED
        BY <3>2, <4>3
    <3>4. Level(b, i) = Level(b, i - 1) + 1 /\ Level(b, i - 1) \in Int
      BY <3>1, LevelNext
    <3>5. Level(b, i - 1) >= 0
      BY <2>5
    <3> QED
      BY <3>3, <3>4, <3>5
  <2>7. ASSUME NEW p \in 1 .. Len(b), b[p] = "else"
        PROVE  Level(b, p) > 0
    <3>1. PICK i \in 1 .. p - 1 : b[i] = "then" /\ Level(b, i) = Level(b, p)
      BY <2>7 DEF IfsNest
    <3>2. i \in 1 .. Len(b)
      OBVIOUS
    <3> QED
      BY <2>6, <3>1, <3>2
  <2>8. Even(b, 0, Len(b))
    <3>1. \A p \in 0 + 1 .. Len(b) : b[p] \in {"then", "else"} => Level(b, p) > Level(b, 0)
      BY <2>3, <2>6, <2>7
    <3> QED
      BY <2>3, <2>4, <2>5, <3>1 DEF Even
  <2>9. Sides(b, 0) = {}
    BY DEF Sides
  <2> QED
    BY <2>1, <2>2, <2>8, <2>9 DEF Text
<1> QED
  BY <1>2, <1>3

-----------------------------------------------------------------------------
(* The parses under way.                                                   *)

LEMMA FromInt ==
  ASSUME NEW y \in Seq(Nat)
  PROVE  From(y) \in Int
<1>1. y # <<>> => y[1] \in Nat
  OBVIOUS
<1> QED
  BY <1>1 DEF From

LEMMA OverTrans ==
  ASSUME NEW s \in Scan, NEW m \in Scan, NEW t \in Scan, Over(s, m), Over(m, t)
  PROVE  Over(s, t)
<1>1. s.depth \in Nat /\ m.depth \in Nat /\ t.depth \in Nat /\ s.text \in Seq(Nat) /\ m.text \in Seq(Nat) /\ t.text \in Seq(Nat)
  BY DEF Scan
<1>2. s.depth <= m.depth /\ m.depth <= t.depth
  BY DEF Over
<1>3. PICK ds \in Nat, dm \in Nat, dt \in Nat : ds = s.depth /\ dm = m.depth /\ dt = t.depth
  BY <1>1
<1>4. s.depth <= t.depth /\ (s.depth = t.depth => s.depth = m.depth /\ m.depth = t.depth)
  BY <1>2, <1>3
<1>5. ASSUME s.depth = t.depth, t.text # <<>>
      PROVE  s.text # <<>> /\ From(s.text) <= From(t.text)
  <2>1. m.text # <<>> /\ From(m.text) <= From(t.text)
    BY <1>4, <1>5 DEF Over
  <2>2. s.text # <<>> /\ From(s.text) <= From(m.text)
    BY <1>4, <1>5, <2>1 DEF Over
  <2>3. From(s.text) \in Int /\ From(m.text) \in Int /\ From(t.text) \in Int
    BY <1>1, FromInt
  <2> QED
    BY <2>1, <2>2, <2>3
<1> QED
  BY <1>4, <1>5 DEF Over

(* The frames change, but not where their parses are.                      *)
LEMMA StackKept ==
  ASSUME NEW bd, NEW fs \in Seq(Frame), NEW gs \in Seq(Frame), NEW ss \in Seq(Scan),
         NEW gone \in BOOLEAN, NEW lost \in BOOLEAN, gone => lost, Stack(bd, fs, ss, gone),
         \A i \in 1 .. Len(ss) :
           /\ ss[i].depth \in 1 .. Len(gs) /\ gs[ss[i].depth].fn = fs[ss[i].depth].fn
           /\ Sides(BodyOf(bd, fs, ss[i]), From(ss[i].text)) \subseteq gs[ss[i].depth].taken
  PROVE  Stack(bd, gs, ss, lost)
<1>1. \A i \in 1 .. Len(ss) : BodyOf(bd, gs, ss[i]) = BodyOf(bd, fs, ss[i])
  BY DEF BodyOf
<1>2. \A i \in 1 .. Len(ss) : Fits(bd, gs, ss[i])
  <2> SUFFICES ASSUME NEW i \in 1 .. Len(ss) PROVE Fits(bd, gs, ss[i])
    OBVIOUS
  <2>1. Fits(bd, fs, ss[i])
    BY DEF Stack
  <2>2. BodyOf(bd, gs, ss[i]) = BodyOf(bd, fs, ss[i])
    BY <1>1
  <2>3. ss[i].depth \in 1 .. Len(gs) /\ Sides(BodyOf(bd, fs, ss[i]), From(ss[i].text)) \subseteq gs[ss[i].depth].taken
    OBVIOUS
  <2> QED
    BY <2>1, <2>2, <2>3 DEF Fits
<1>3. \A i \in 1 .. Len(ss) - 1 : Makes(bd, gs, ss[i], ss[i + 1], lost)
  <2> SUFFICES ASSUME NEW i \in 1 .. Len(ss) - 1 PROVE Makes(bd, gs, ss[i], ss[i + 1], lost)
    OBVIOUS
  <2>1. Makes(bd, fs, ss[i], ss[i + 1], gone)
    BY DEF Stack
  <2>2. BodyOf(bd, gs, ss[i]) = BodyOf(bd, fs, ss[i])
    BY <1>1
  <2> QED
    BY <2>1, <2>2 DEF Makes, Paid
<1> QED
  BY <1>2, <1>3 DEF Stack

LEMMA CutSeq ==
  ASSUME NEW ss \in Seq(Scan), ss # <<>>
  PROVE  LET ts == SubSeq(ss, 1, Len(ss) - 1)
         IN ts \in Seq(Scan) /\ Len(ts) = Len(ss) - 1 /\ \A i \in 1 .. Len(ss) - 1 : ts[i] = ss[i]
<1> DEFINE n == Len(ss)
           ts == SubSeq(ss, 1, n - 1)
<1>1. n \in Nat /\ n >= 1
  OBVIOUS
<1>2. \A i \in 1 .. n - 1 : ss[i] \in Scan
  BY <1>1
<1> HIDE DEF n
<1>3. 1 \in Int /\ n - 1 \in Int
  BY <1>1
<1>4. /\ ts \in Seq(Scan) /\ Len(ts) = (IF 1 <= n - 1 THEN (n - 1) - 1 + 1 ELSE 0)
      /\ \A i \in 1 .. (n - 1) - 1 + 1 : ts[i] = ss[1 + i - 1]
  BY <1>2, <1>3, SubSeqProperties
<1> HIDE DEF ts
<1>5. Len(ts) = n - 1
  BY <1>1, <1>4
<1>6. \A i \in 1 .. n - 1 : ts[i] = ss[i]
  <2> SUFFICES ASSUME NEW i \in 1 .. n - 1 PROVE ts[i] = ss[i]
    OBVIOUS
  <2>1. i \in 1 .. (n - 1) - 1 + 1 /\ 1 + i - 1 = i
    BY <1>1
  <2> QED
    BY <1>4, <2>1
<1> QED
  BY <1>4, <1>5, <1>6 DEF ts, n

LEMMA StackCut ==
  ASSUME NEW bd, NEW fs, NEW ss \in Seq(Scan), ss # <<>>, NEW gone, Stack(bd, fs, ss, gone)
  PROVE  Stack(bd, fs, SubSeq(ss, 1, Len(ss) - 1), gone)
<1> DEFINE ts == SubSeq(ss, 1, Len(ss) - 1)
<1>1. Len(ss) \in Nat /\ Len(ss) >= 1
  OBVIOUS
<1>2. ts \in Seq(Scan) /\ Len(ts) = Len(ss) - 1 /\ \A i \in 1 .. Len(ss) - 1 : ts[i] = ss[i]
  BY CutSeq
<1> HIDE DEF ts
<1>3. ts # <<>> => 1 \in 1 .. Len(ss) - 1
  <2>1. ts # <<>> => Len(ts) # 0
    BY <1>2
  <2> QED
    BY <1>1, <1>2, <2>1
<1>4. \A i \in 1 .. Len(ts) : Fits(bd, fs, ts[i])
  BY SMTT(30), <1>1, <1>2 DEF Stack
<1>5. \A i \in 1 .. Len(ts) - 1 : Makes(bd, fs, ts[i], ts[i + 1], gone)
  <2>1. \A i \in 1 .. Len(ts) - 1 : i \in 1 .. Len(ss) - 1 /\ i + 1 \in 1 .. Len(ss) - 1
    BY <1>1, <1>2
  <2> QED
    BY <1>2, <2>1 DEF Stack
<1>6. \A i \in 1 .. Len(ts), j \in 1 .. Len(ts) : i < j => Over(ts[i], ts[j])
  BY <1>1, <1>2 DEF Stack
<1>7. ts # <<>> /\ ~gone => ts[1].ifs = 0
  BY <1>1, <1>2, <1>3 DEF Stack
<1>8. Stack(bd, fs, ts, gone)
  BY <1>4, <1>5, <1>6, <1>7 DEF Stack
<1> QED
  BY <1>8 DEF ts

(* A parse is made by the innermost one.                                   *)
LEMMA StackPush ==
  ASSUME NEW bd, NEW fs \in Seq(Frame), NEW ss \in Seq(Scan), NEW gone, Stack(bd, fs, ss, gone),
         NEW t \in Scan, Fits(bd, fs, t),
         ss # <<>> => Makes(bd, fs, ss[Len(ss)], t, gone) /\ Over(ss[Len(ss)], t),
         ss = <<>> /\ ~gone => t.ifs = 0
  PROVE  Stack(bd, fs, Append(ss, t), gone)
<1> DEFINE ts == Append(ss, t)
           n == Len(ss)
<1>1. n \in Nat /\ Len(ts) = n + 1 /\ ts[n + 1] = t /\ (\A i \in 1 .. n : ts[i] = ss[i]) /\ (ss # <<>> <=> n # 0)
  OBVIOUS
<1>2. \A i \in 1 .. n : Fits(bd, fs, ss[i])
  BY DEF Stack
<1>3. \A i \in 1 .. n - 1 : Makes(bd, fs, ss[i], ss[i + 1], gone)
  BY DEF Stack
<1>4. \A i \in 1 .. n, j \in 1 .. n : i < j => Over(ss[i], ss[j])
  BY DEF Stack
<1>5. n # 0 => Makes(bd, fs, ss[n], t, gone) /\ Over(ss[n], t)
  BY <1>1
<1>6. \A i \in 1 .. n : ss[i] \in Scan
  OBVIOUS
<1>7. n # 0 /\ ~gone => ss[1].ifs = 0
  BY <1>1 DEF Stack
<1>8. n = 0 /\ ~gone => t.ifs = 0
  BY <1>1
<1> HIDE DEF ts, n
<1>9. \A i \in 1 .. n + 1 : i \in 1 .. n \/ i = n + 1
  BY <1>1
<1>10. \A i \in 1 .. Len(ts) : Fits(bd, fs, ts[i])
  BY <1>1, <1>2, <1>9
<1>11. \A i \in 1 .. Len(ts) - 1 : Makes(bd, fs, ts[i], ts[i + 1], gone)
  <2> SUFFICES ASSUME NEW i \in 1 .. n PROVE Makes(bd, fs, ts[i], ts[i + 1], gone)
    BY <1>1
  <2>1. CASE i \in 1 .. n - 1
    <3>1. i + 1 \in 1 .. n
      BY <1>1, <2>1
    <3> QED
      BY <1>1, <1>3, <2>1, <3>1
  <2>2. CASE i = n
    <3>1. n # 0
      BY <1>1, <2>2
    <3> QED
      BY <1>1, <1>5, <2>2, <3>1
  <2> QED
    BY <1>1, <2>1, <2>2
<1>12. ASSUME NEW i \in 1 .. n
       PROVE  Over(ts[i], t)
  <2>1. n # 0 /\ n \in 1 .. n
    BY <1>1
  <2>2. CASE i = n
    BY <1>1, <1>5, <2>1, <2>2
  <2>3. CASE i < n
    <3>1. Over(ss[i], ss[n]) /\ Over(ss[n], t)
      BY <1>4, <1>5, <2>1, <2>3
    <3>2. Over(ss[i], t)
      BY <1>6, <2>1, <3>1, OverTrans
    <3> QED
      BY <1>1, <3>2
  <2> QED
    BY <1>1, <2>2, <2>3
<1>13. \A i \in 1 .. Len(ts), j \in 1 .. Len(ts) : i < j => Over(ts[i], ts[j])
  <2> SUFFICES ASSUME NEW i \in 1 .. n + 1, NEW j \in 1 .. n + 1, i < j PROVE Over(ts[i], ts[j])
    BY <1>1
  <2>1. i \in 1 .. n
    BY <1>1
  <2>2. CASE j = n + 1
    BY <1>1, <1>12, <2>1, <2>2
  <2>3. CASE j \in 1 .. n
    BY <1>1, <1>4, <2>1, <2>3
  <2> QED
    BY <1>9, <2>2, <2>3
<1>14. ~gone => ts[1].ifs = 0
  <2>1. CASE n = 0
    BY <1>1, <1>8, <2>1
  <2>2. CASE n # 0
    <3>1. 1 \in 1 .. n
      BY <1>1, <2>2
    <3> QED
      BY <1>1, <1>7, <2>2, <3>1
  <2> QED
    BY <2>1, <2>2
<1>15. Stack(bd, fs, ts, gone)
  BY <1>10, <1>11, <1>13, <1>14 DEF Stack
<1> QED
  BY <1>15 DEF ts

(* The innermost parse moves on.                                           *)
LEMMA StackTurn ==
  ASSUME NEW bd, NEW fs \in Seq(Frame), NEW ss \in Seq(Scan), ss # <<>>, NEW gone, Stack(bd, fs, ss, gone),
         NEW s \in Scan, s.use = ss[Len(ss)].use, s.depth = ss[Len(ss)].depth, s.text = ss[Len(ss)].text,
         s.ifs = ss[Len(ss)].ifs, Parse(BodyOf(bd, fs, ss[Len(ss)]), s)
  PROVE  Stack(bd, fs, Append(SubSeq(ss, 1, Len(ss) - 1), s), gone)
<1> DEFINE n == Len(ss)
           top == ss[Len(ss)]
           ts == SubSeq(ss, 1, Len(ss) - 1)
<1>1. n \in Nat /\ n >= 1 /\ n \in 1 .. n /\ top = ss[n] /\ top \in Scan
  OBVIOUS
<1>2. ts \in Seq(Scan) /\ Len(ts) = n - 1 /\ \A i \in 1 .. n - 1 : ts[i] = ss[i]
  BY CutSeq
<1>3. Stack(bd, fs, ts, gone)
  BY StackCut
<1>4. Fits(bd, fs, top)
  BY <1>1 DEF Stack
<1>5. BodyOf(bd, fs, s) = BodyOf(bd, fs, top)
  BY DEF BodyOf
<1>6. s.use = top.use /\ s.depth = top.depth /\ s.text = top.text /\ s.ifs = top.ifs /\ Parse(BodyOf(bd, fs, top), s)
  OBVIOUS
<1>7. \A i \in 1 .. n - 1 : Makes(bd, fs, ss[i], ss[i + 1], gone)
  BY DEF Stack
<1>8. \A i \in 1 .. n, j \in 1 .. n : i < j => Over(ss[i], ss[j])
  BY DEF Stack
<1>9. ~gone => ss[1].ifs = 0
  BY DEF Stack
<1> HIDE DEF n, top, ts
<1>10. Fits(bd, fs, s)
  BY <1>4, <1>5, <1>6 DEF Fits
<1>11. ASSUME ts # <<>>
       PROVE  Makes(bd, fs, ts[Len(ts)], s, gone) /\ Over(ts[Len(ts)], s)
  <2>1. Len(ts) # 0
    BY <1>2, <1>11
  <2>2. n - 1 \in 1 .. n - 1 /\ n - 1 \in 1 .. n /\ n - 1 < n /\ (n - 1) + 1 = n
    BY <1>1, <1>2, <2>1
  <2>3. Makes(bd, fs, ss[n - 1], top, gone) /\ Over(ss[n - 1], top)
    BY <1>1, <1>7, <1>8, <2>2
  <2>4. ts[Len(ts)] = ss[n - 1]
    BY <1>2, <2>2
  <2> QED
    BY <1>6, <2>3, <2>4 DEF Makes, Over
<1>12. ASSUME ts = <<>>, ~gone
       PROVE  s.ifs = 0
  <2>1. Len(ts) = 0
    BY <1>12
  <2>2. n = 1
    BY <1>1, <1>2, <2>1
  <2> QED
    BY <1>1, <1>6, <1>9, <1>12, <2>2
<1>13. Stack(bd, fs, Append(ts, s), gone)
  BY <1>2, <1>3, <1>10, <1>11, <1>12, StackPush
<1> QED
  BY <1>13 DEF ts

(* A parse begins inside the innermost one.                                *)
LEMMA StackOpen ==
  ASSUME NEW bd, NEW fs \in Seq(Frame), NEW ss \in Seq(Scan), NEW gone \in BOOLEAN, Stack(bd, fs, ss, gone),
         NEW t \in Scan, t.depth \in 1 .. Len(fs), BodyOf(bd, fs, t) \in Seq(Token), Text(BodyOf(bd, fs, t), t.text),
         t.pos = 1, t.mode = "initial", t.counted = FALSE, t.ifs >= 0,
         Sides(BodyOf(bd, fs, t), From(t.text)) \subseteq fs[t.depth].taken,
         ss # <<>> => /\ Makes(bd, fs, ss[Len(ss)], t, gone)
                      /\ Over(ss[Len(ss)], t),
         ss = <<>> /\ ~gone => t.ifs = 0
  PROVE  Stack(bd, fs, Append(ss, t), gone) /\ Innermost(bd, fs, t, t.ifs, gone)
<1> DEFINE b == BodyOf(bd, fs, t)
<1>1. t.ifs \in Int
  BY DEF Scan
<1>2. Parse(b, t) /\ Owes(b, t) = 0 /\ AtWork(b, t, t.ifs)
  BY Begun
<1>3. Fits(bd, fs, t)
  BY <1>2 DEF Fits
<1>4. Stack(bd, fs, Append(ss, t), gone)
  BY <1>3, StackPush
<1>5. Paid(t.ifs, t.ifs + Owes(b, t), gone)
  BY <1>1, <1>2 DEF Paid
<1> QED
  BY <1>2, <1>4, <1>5 DEF Innermost

-----------------------------------------------------------------------------
(* The steps of the system.                                                *)

(* The frames gs leave what the parses rest on.                            *)
Keeps(gs) ==
  \A i \in 1 .. Len(scans) :
    /\ scans[i].depth \in 1 .. Len(gs) /\ gs[scans[i].depth].fn = frames[scans[i].depth].fn
    /\ Sides(BodyOf(body, frames, scans[i]), From(scans[i].text)) \subseteq gs[scans[i].depth].taken

(* What is known where a parse is under way.                               *)
LEMMA Facts ==
  ASSUME IInv, Cuts, frames # <<>>
  PROVE  /\ scans \in Seq(Scan) /\ scans # <<>> /\ frames \in Seq(Frame) /\ torn \in BOOLEAN /\ ifCounter \in Int
         /\ Scn \in Scan /\ Scn.pos \in 1 .. Len(Scn.text) + 1 /\ Scn.text \in Seq(Nat) /\ Scn.depth = Depth
         /\ Depth = Len(frames) /\ Depth \in Nat /\ Depth >= 1
         /\ Scn = scans[Len(scans)] /\ Len(scans) \in Nat /\ Len(scans) >= 1
         /\ body[Fn] \in Seq(Token) /\ IfsNest(body[Fn]) /\ LoopsNest(body[Fn])
         /\ BodyOf(body, frames, Scn) = body[Fn]
         /\ Stack(body, frames, scans, torn) /\ Innermost(body, frames, Scn, ifCounter, torn)
         /\ Fits(body, frames, Scn) /\ Parse(body[Fn], Scn)
         /\ Owes(body[Fn], Scn) \in Nat /\ Scn.ifs \in Int /\ Scn.ifs >= 0
         /\ ifCounter >= Owes(body[Fn], Scn)
<1>1. /\ scans # <<>> /\ Scn \in Scan /\ Scn.pos \in 1 .. Len(Scn.text) + 1 /\ Scn.depth = Depth
      /\ Depth \in Nat /\ Depth >= 1 /\ Fn \in Functions
  BY Inside
<1>2. scans \in Seq(Scan) /\ frames \in Seq(Frame) /\ torn \in BOOLEAN /\ ifCounter \in Int
  BY DEF IInv, RestOK, FramesOK, ScansOK
<1>3. Scn.text \in Seq(Nat) /\ Scn.ifs \in Int
  BY <1>1 DEF Scan
<1>4. Scn = scans[Len(scans)] /\ Len(scans) \in Nat /\ Len(scans) >= 1 /\ Len(scans) \in 1 .. Len(scans)
  BY <1>1, <1>2 DEF Scn
<1>5. body[Fn] \in Seq(Token) /\ IfsNest(body[Fn]) /\ LoopsNest(body[Fn])
  <2>1. body \in Bodies
    BY DEF Cuts
  <2> QED
    BY <1>1, <2>1, BodiesAssumption, NestingAssumption
<1>6. BodyOf(body, frames, Scn) = body[Fn]
  BY <1>1 DEF BodyOf, Fn, Frm
<1>7. Stack(body, frames, scans, torn) /\ Innermost(body, frames, Scn, ifCounter, torn)
  BY <1>1 DEF Cuts
<1>8. Fits(body, frames, Scn)
  BY <1>4, <1>7 DEF Stack
<1>9. Parse(body[Fn], Scn) /\ Scn.ifs >= 0
  BY <1>6, <1>8 DEF Fits
<1>10. Owes(body[Fn], Scn) \in Nat
  BY <1>1, <1>3, <1>5, <1>9, OwesNat
<1>11. ifCounter >= Scn.ifs + Owes(body[Fn], Scn)
  BY <1>6, <1>7 DEF Innermost, Paid
<1>12. ifCounter >= Owes(body[Fn], Scn)
  <2>1. PICK o \in Nat, i \in Int : o = Owes(body[Fn], Scn) /\ i = Scn.ifs
    BY <1>3, <1>10
  <2>2. ifCounter >= i + o /\ i >= 0
    BY <1>9, <1>11, <2>1
  <2>3. ifCounter >= o
    BY <1>2, <2>1, <2>2
  <2> QED
    BY <2>1, <2>3
<1>13. Depth = Len(frames)
  BY DEF Depth
<1> QED
  BY <1>1, <1>2, <1>3, <1>4, <1>5, <1>6, <1>7, <1>8, <1>9, <1>10, <1>12, <1>13

LEMMA Turned ==
  ASSUME IInv, Cuts, frames # <<>>, NEW gs \in Seq(Frame), Keeps(gs),
         NEW s \in Scan, s.use = Scn.use, s.depth = Scn.depth, s.text = Scn.text, s.ifs = Scn.ifs,
         NEW m \in Int, Goes(body[Fn], Scn, s, ifCounter, m), Owes(body[Fn], s) \in Int
  PROVE  /\ Stack(body, gs, Append(Closed, s), torn) /\ Innermost(body, gs, s, m, torn)
         /\ BodyOf(body, gs, s) = body[Fn]
<1>1. /\ scans \in Seq(Scan) /\ scans # <<>> /\ frames \in Seq(Frame) /\ torn \in BOOLEAN /\ ifCounter \in Int
      /\ Scn = scans[Len(scans)] /\ Len(scans) \in 1 .. Len(scans) /\ Scn.ifs \in Int
      /\ BodyOf(body, frames, Scn) = body[Fn]
      /\ Stack(body, frames, scans, torn) /\ Innermost(body, frames, Scn, ifCounter, torn)
      /\ Owes(body[Fn], Scn) \in Nat
  BY Facts
<1>2. Stack(body, gs, scans, torn)
  BY SMTT(30), <1>1, StackKept DEF Keeps
<1>3. BodyOf(body, gs, scans[Len(scans)]) = body[Fn] /\ BodyOf(body, gs, s) = body[Fn]
  <2>1. gs[Scn.depth].fn = frames[Scn.depth].fn
    BY <1>1 DEF Keeps
  <2> QED
    BY <1>1, <2>1 DEF BodyOf
<1>4. Parse(body[Fn], s) /\ AtWork(body[Fn], s, m) /\ m - Owes(body[Fn], s) = ifCounter - Owes(body[Fn], Scn)
  BY DEF Goes
<1>5. Stack(body, gs, Append(SubSeq(scans, 1, Len(scans) - 1), s), torn)
  BY <1>1, <1>2, <1>3, <1>4, StackTurn
<1>6. Paid(m, s.ifs + Owes(body[Fn], s), torn)
  <2>1. PICK o \in Int, p \in Nat, i \in Int : o = Owes(body[Fn], s) /\ p = Owes(body[Fn], Scn) /\ i = Scn.ifs
    BY <1>1
  <2>2. ifCounter >= i + p /\ (~torn => ifCounter = i + p)
    BY <1>1, <2>1 DEF Innermost, Paid
  <2>3. m - o = ifCounter - p
    BY <1>4, <2>1
  <2>4. m >= i + o /\ (~torn => m = i + o)
    BY <1>1, <2>1, <2>2, <2>3
  <2> QED
    BY <2>1, <2>4 DEF Paid
<1>7. Innermost(body, gs, s, m, torn)
  BY <1>3, <1>4, <1>6 DEF Innermost
<1> QED
  BY <1>3, <1>5, <1>7 DEF Closed

-----------------------------------------------------------------------------
(* What a step leaves of the frames.                                       *)

(* The same functions, on the same sides.                                  *)
Alike(fs, gs) ==
  /\ gs \in Seq(Frame) /\ Len(gs) = Len(fs)
  /\ \A i \in 1 .. Len(fs) : gs[i].fn = fs[i].fn /\ gs[i].taken = fs[i].taken /\ gs[i].returned = fs[i].returned

LEMMA AllStepsAlike ==
  ASSUME NEW fs \in Seq(Frame), NEW st \in {"continue", "over"}
  PROVE  Alike(fs, AllSteps(fs, st))
<1>1. \A i \in 1 .. Len(fs) : AllSteps(fs, st)[i] = [fs[i] EXCEPT !.step = st]
  BY DEF AllSteps
<1>2. ASSUME NEW i \in 1 .. Len(fs)
      PROVE  LET f == [fs[i] EXCEPT !.step = st]
             IN f.fn = fs[i].fn /\ f.taken = fs[i].taken /\ f.returned = fs[i].returned
  <2>1. fs[i] \in Frame
    OBVIOUS
  <2> QED
    BY <2>1 DEF Frame
<1>3. AllSteps(fs, st) \in Seq(Frame) /\ Len(AllSteps(fs, st)) = Len(fs)
  BY AllStepsSet
<1>4. ASSUME NEW i \in 1 .. Len(fs)
      PROVE  /\ AllSteps(fs, st)[i].fn = fs[i].fn /\ AllSteps(fs, st)[i].taken = fs[i].taken
             /\ AllSteps(fs, st)[i].returned = fs[i].returned
  BY <1>1, <1>2
<1> QED
  BY <1>3, <1>4 DEF Alike

LEMMA SettledAlike ==
  ASSUME NEW fs \in Seq(Frame), fs # <<>>, NEW st \in Steps
  PROVE  Alike(fs, Settled(fs, st))
<1>1. Len(fs) \in Nat /\ Len(fs) >= 1 /\ fs[Len(fs)] \in Frame
  OBVIOUS
<1>2. CASE st = "continue"
  <2>1. Settled(fs, st) = AllSteps(fs, "continue")
    BY <1>2 DEF Settled
  <2> QED
    BY <2>1, AllStepsAlike
<1>3. CASE st = "out"
  <2> DEFINE f == [fs[Len(fs)] EXCEPT !.step = "continue"]
  <2>1. f.fn = fs[Len(fs)].fn /\ f.taken = fs[Len(fs)].taken /\ f.returned = fs[Len(fs)].returned
    BY <1>1 DEF Frame
  <2>2. Settled(fs, st) = [fs EXCEPT ![Len(fs)] = f]
    BY <1>3 DEF Settled
  <2> HIDE DEF f
  <2>3. \A i \in 1 .. Len(fs) : Settled(fs, st)[i] = IF i = Len(fs) THEN f ELSE fs[i]
    BY <1>1, <2>2
  <2>4. Settled(fs, st) \in Seq(Frame) /\ Len(Settled(fs, st)) = Len(fs)
    BY SettledSet
  <2> QED
    BY <2>1, <2>3, <2>4 DEF Alike
<1>4. CASE st \notin {"continue", "out"}
  <2>1. Settled(fs, st) = fs
    BY <1>4 DEF Settled
  <2> QED
    BY <2>1 DEF Alike
<1> QED
  BY <1>2, <1>3, <1>4

LEMMA AlikeTrans ==
  ASSUME NEW fs, NEW gs, NEW hs, Alike(fs, gs), Alike(gs, hs)
  PROVE  Alike(fs, hs)
BY DEF Alike

LEMMA WithFrameIs ==
  ASSUME frames \in Seq(Frame), frames # <<>>, NEW f \in Frame
  PROVE  /\ WithFrame(f) \in Seq(Frame) /\ Len(WithFrame(f)) = Depth
         /\ \A i \in 1 .. Depth : WithFrame(f)[i] = IF i = Depth THEN f ELSE frames[i]
BY DEF WithFrame, Depth

LEMMA RaisedAlike ==
  ASSUME FramesOK, frames # <<>>, NEW f \in Frame, NEW line \in Nat, Raise(f, line)
  PROVE  Alike(WithFrame(f), frames')
<1> DEFINE g  == [f EXCEPT !.inner = line, !.announced = line]
           fs == WithFrame(g)
<1>1. frames \in Seq(Frame) /\ step \in Steps /\ Depth \in Nat /\ Depth >= 1
  BY DEF FramesOK, Depth
<1>2. g \in Frame /\ g.fn = f.fn /\ g.taken = f.taken /\ g.returned = f.returned
  BY DEF Frame
<1>3. \/ frames' = AllSteps(fs, "over")
      \/ frames' = IF g.step = "over" THEN fs ELSE Settled(fs, step)
  BY DEF Raise
<1> HIDE DEF g
<1>4. /\ fs \in Seq(Frame) /\ Len(fs) = Depth
      /\ \A i \in 1 .. Depth : fs[i] = IF i = Depth THEN g ELSE frames[i]
  BY <1>1, <1>2, WithFrameIs
<1>5. /\ Len(WithFrame(f)) = Depth
      /\ \A i \in 1 .. Depth : WithFrame(f)[i] = IF i = Depth THEN f ELSE frames[i]
  BY <1>1, WithFrameIs
<1> HIDE DEF fs
<1>6. Alike(WithFrame(f), fs)
  BY <1>1, <1>2, <1>4, <1>5 DEF Alike
<1>7. fs # <<>>
  <2>1. Len(fs) # 0
    BY <1>1, <1>4
  <2> QED
    BY <2>1
<1>8. Alike(fs, frames')
  <2>1. Alike(fs, AllSteps(fs, "over"))
    BY <1>4, AllStepsAlike
  <2>2. Alike(fs, Settled(fs, step))
    BY <1>1, <1>4, <1>7, SettledAlike
  <2>3. Alike(fs, fs)
    BY <1>4 DEF Alike
  <2> QED
    BY <1>3, <2>1, <2>2, <2>3
<1> QED
  BY <1>6, <1>8, AlikeTrans

LEMMA KeepsAll ==
  ASSUME IInv, Cuts, frames # <<>>, NEW gs \in Seq(Frame), Len(gs) >= Depth,
         \A i \in 1 .. Depth : gs[i].fn = frames[i].fn /\ frames[i].taken \subseteq gs[i].taken
  PROVE  Keeps(gs)
<1>1. Stack(body, frames, scans, torn) /\ Depth \in Nat /\ Depth = Len(frames)
  BY Facts
<1>2. \A i \in 1 .. Len(scans) : Fits(body, frames, scans[i])
  BY <1>1 DEF Stack
<1> SUFFICES ASSUME NEW i \in 1 .. Len(scans)
             PROVE  /\ scans[i].depth \in 1 .. Len(gs) /\ gs[scans[i].depth].fn = frames[scans[i].depth].fn
                    /\ Sides(BodyOf(body, frames, scans[i]), From(scans[i].text)) \subseteq gs[scans[i].depth].taken
  BY DEF Keeps
<1>3. /\ scans[i].depth \in 1 .. Depth
      /\ Sides(BodyOf(body, frames, scans[i]), From(scans[i].text)) \subseteq frames[scans[i].depth].taken
  BY <1>1, <1>2 DEF Fits
<1>4. Len(gs) \in Nat
  OBVIOUS
<1>5. scans[i].depth \in 1 .. Len(gs)
  BY <1>1, <1>3, <1>4
<1> QED
  BY <1>3, <1>5

LEMMA KeepsAlike ==
  ASSUME IInv, Cuts, frames # <<>>, NEW gs, Alike(frames, gs)
  PROVE  gs \in Seq(Frame) /\ Keeps(gs)
<1>1. gs \in Seq(Frame) /\ Len(gs) = Depth /\ Depth \in Nat
  BY Facts DEF Alike
<1>2. \A i \in 1 .. Depth : gs[i].fn = frames[i].fn /\ frames[i].taken \subseteq gs[i].taken
  BY DEF Alike, Depth
<1> QED
  BY <1>1, <1>2, KeepsAll

-----------------------------------------------------------------------------
(* The steps in common.                                                    *)

LEMMA SidesWhere ==
  ASSUME NEW b, NEW p \in Int, NEW t \in Sides(b, p)
  PROVE  t[1] \in 1 .. p
BY DEF Sides

(* A side is chosen for an if behind the beginning of the text.            *)
LEMMA KeepsTaking ==
  ASSUME IInv, Cuts, frames # <<>>, NEW side, NEW gs \in Seq(Frame), Len(gs) = Depth,
         Scn.text # <<>>, Scn.at \in Nat, Scn.at > From(Scn.text),
         \A i \in 1 .. Depth : gs[i].fn = frames[i].fn,
         \A i \in 1 .. Depth - 1 : gs[i].taken = frames[i].taken,
         gs[Depth].taken = {t \in Frm.taken : t[1] # Scn.at} \cup {<<Scn.at, side>>}
  PROVE  Keeps(gs)
<1>1. /\ Stack(body, frames, scans, torn) /\ Depth \in Nat /\ Depth >= 1 /\ Depth = Len(frames) /\ scans \in Seq(Scan)
      /\ Scn = scans[Len(scans)] /\ Len(scans) \in Nat /\ Len(scans) >= 1 /\ Scn.depth = Depth /\ Scn.text \in Seq(Nat)
  BY Facts
<1>2. \A i \in 1 .. Len(scans) : Fits(body, frames, scans[i])
  BY <1>1 DEF Stack
<1> SUFFICES ASSUME NEW i \in 1 .. Len(scans)
             PROVE  /\ scans[i].depth \in 1 .. Len(gs) /\ gs[scans[i].depth].fn = frames[scans[i].depth].fn
                    /\ Sides(BodyOf(body, frames, scans[i]), From(scans[i].text)) \subseteq gs[scans[i].depth].taken
  BY DEF Keeps
<1>3. /\ scans[i].depth \in 1 .. Depth
      /\ Sides(BodyOf(body, frames, scans[i]), From(scans[i].text)) \subseteq frames[scans[i].depth].taken
  BY <1>1, <1>2 DEF Fits
<1>4. CASE scans[i].depth # Depth
  <2>1. scans[i].depth \in 1 .. Depth - 1
    BY <1>1, <1>3, <1>4
  <2> QED
    BY <1>3, <2>1
<1>5. CASE scans[i].depth = Depth
  <2>1. scans[i].text \in Seq(Nat)
    <3>1. scans[i] \in Scan
      BY <1>1
    <3> QED
      BY <3>1 DEF Scan
  <2>2. From(scans[i].text) \in Int /\ From(Scn.text) \in Int
    BY <1>1, <2>1, FromInt
  <2>3. From(scans[i].text) <= From(Scn.text)
    <3>1. CASE i = Len(scans)
      BY <1>1, <2>2, <3>1
    <3>2. CASE i # Len(scans)
      <4>1. Len(scans) \in 1 .. Len(scans) /\ i < Len(scans)
        BY <1>1, <3>2
      <4>2. Over(scans[i], Scn)
        BY <1>1, <4>1 DEF Stack
      <4> QED
        BY <1>1, <1>5, <4>2 DEF Over
    <3> QED
      BY <3>1, <3>2
  <2>4. ASSUME NEW t \in Sides(BodyOf(body, frames, scans[i]), From(scans[i].text))
        PROVE  t \in gs[Depth].taken
    <3>1. t \in Frm.taken
      BY <1>3, <1>5 DEF Frm
    <3>2. t[1] \in 1 .. From(scans[i].text)
      BY <2>2, SidesWhere
    <3>3. t[1] # Scn.at
      <4>1. PICK h \in Nat, u \in Int, v \in Int : h = Scn.at /\ u = From(scans[i].text) /\ v = From(Scn.text)
        BY <2>2
      <4>2. PICK k \in Int : k = t[1]
        BY <3>2
      <4>3. k <= u /\ u <= v /\ v < h
        BY <2>3, <3>2, <4>1, <4>2
      <4>4. k # h
        BY <4>1, <4>2, <4>3
      <4> QED
        BY <4>1, <4>2, <4>4
    <3> QED
      BY <3>1, <3>3
  <2> QED
    BY <1>1, <1>3, <1>5, <2>4
<1> QED
  BY <1>4, <1>5

LEMMA WithScanIs ==
  ASSUME scans \in Seq(Scan), scans # <<>>, NEW s \in Scan
  PROVE  Closed \in Seq(Scan) /\ WithScan(s) = Append(Closed, s)
<1>1. Closed \in Seq(Scan) /\ Len(Closed) = Len(scans) - 1 /\ \A i \in 1 .. Len(scans) - 1 : Closed[i] = scans[i]
  BY CutSeq DEF Closed
<1>2. Len(scans) \in Nat /\ Len(scans) >= 1
  OBVIOUS
<1> DEFINE w == WithScan(s)
           v == Append(Closed, s)
           n == Len(scans)
<1>3. w \in Seq(Scan) /\ Len(w) = n /\ \A i \in 1 .. n : w[i] = IF i = n THEN s ELSE scans[i]
  BY <1>2 DEF WithScan
<1>4. v \in Seq(Scan) /\ Len(v) = n
  BY <1>1, <1>2
<1>5. ASSUME NEW i \in 1 .. n
      PROVE  v[i] = IF i = n THEN s ELSE scans[i]
  <2>1. CASE i = n
    <3>1. i = Len(Closed) + 1
      BY <1>1, <1>2, <2>1
    <3> QED
      BY <1>1, <2>1, <3>1
  <2>2. CASE i # n
    <3>1. i \in 1 .. n - 1 /\ i \in 1 .. Len(Closed)
      BY <1>1, <1>2, <2>2
    <3> QED
      BY <1>1, <2>2, <3>1
  <2> QED
    BY <2>1, <2>2
<1> HIDE DEF w, v, n
<1>6. \A i \in 1 .. n : w[i] = v[i]
  BY <1>3, <1>5
<1>7. w = v
  BY <1>3, <1>4, <1>6
<1> QED
  BY <1>1, <1>7 DEF w, v

(* A parse is the innermost one after a step.                              *)
LEMMA CutsAfter ==
  ASSUME body \in Bodies, body' = body, NEW ss \in Seq(Scan), NEW s \in Scan, scans' = Append(ss, s),
         Stack(body, frames', Append(ss, s), torn'), Innermost(body, frames', s, ifCounter', torn'),
         s.mode = "if" => Going'
  PROVE  Cuts' /\ Scn' = s
<1>1. scans' # <<>> /\ scans'[Len(scans')] = s
  OBVIOUS
<1>2. Scn' = s
  BY <1>1 DEF Scn
<1> QED
  BY <1>1, <1>2 DEF Cuts

LEMMA MovesOn ==
  ASSUME IInv, Cuts, frames # <<>>, frames' \in Seq(Frame), Keeps(frames'), UNCHANGED <<body, torn>>, ifCounter' \in Int,
         NEW s, Moves(s), s.text = Scn.text, s.ifs = Scn.ifs, scans' = WithScan(s),
         Goes(body[Fn], Scn, s, ifCounter, ifCounter'), s.mode = "if" => Going'
  PROVE  Cuts'
<1>1. scans \in Seq(Scan) /\ scans # <<>> /\ Scn.text \in Seq(Nat) /\ body[Fn] \in Seq(Token)
  BY Facts
<1>2. s \in Scan /\ s.use = Scn.use /\ s.depth = Scn.depth /\ s.pos \in 1 .. Len(s.text) + 1
  BY DEF Moves
<1>3. Parse(body[Fn], s)
  BY DEF Goes
<1>4. Owes(body[Fn], s) \in Int
  <2>1. Owes(body[Fn], s) \in Nat
    BY <1>1, <1>2, <1>3, OwesNat
  <2> QED
    BY <2>1
<1>5. Stack(body, frames', Append(Closed, s), torn) /\ Innermost(body, frames', s, ifCounter', torn)
  BY <1>2, <1>4, Turned
<1>6. scans' = Append(Closed, s) /\ Closed \in Seq(Scan)
  BY <1>1, <1>2, WithScanIs
<1>7. body \in Bodies /\ torn' = torn /\ body' = body
  BY DEF Cuts
<1> QED
  BY <1>2, <1>5, <1>6, <1>7, CutsAfter

LEMMA NewScanIs ==
  ASSUME NEW use \in Uses, NEW depth \in Nat, NEW text \in Seq(Nat), ifCounter' \in Int
  PROVE  LET t == NewScan(use, depth, text)
         IN /\ t \in Scan /\ t.use = use /\ t.depth = depth /\ t.text = text /\ t.pos = 1
            /\ t.mode = "initial" /\ t.counted = FALSE /\ t.ifs = ifCounter'
BY NewScanSet DEF NewScan

-----------------------------------------------------------------------------
(* A parse begins inside the innermost one, which has moved on.            *)

Fresh(fs, t, n) ==
  /\ t.depth \in 1 .. Len(fs) /\ BodyOf(body, fs, t) \in Seq(Token) /\ Text(BodyOf(body, fs, t), t.text)
  /\ t.pos = 1 /\ t.mode = "initial" /\ t.counted = FALSE /\ t.ifs = n
  /\ Sides(BodyOf(body, fs, t), From(t.text)) \subseteq fs[t.depth].taken

LEMMA FreshOpens ==
  ASSUME NEW fs \in Seq(Frame), NEW ss \in Seq(Scan), ss # <<>>, NEW gone \in BOOLEAN, Stack(body, fs, ss, gone),
         NEW n \in Int, n >= 0, NEW t \in Scan, Fresh(fs, t, n),
         Makes(body, fs, ss[Len(ss)], t, gone), Over(ss[Len(ss)], t)
  PROVE  Stack(body, fs, Append(ss, t), gone) /\ Innermost(body, fs, t, n, gone)
BY StackOpen DEF Fresh

LEMMA OpensDeep ==
  ASSUME IInv, Cuts, frames # <<>>, NEW gs \in Seq(Frame), Keeps(gs), NEW m \in Int,
         NEW s, Moves(s), s.text = Scn.text, s.ifs = Scn.ifs, Goes(body[Fn], Scn, s, ifCounter, m),
         NEW t \in Scan, Fresh(gs, t, m), Waits(body[Fn], s, t.use), Over(s, t)
  PROVE  /\ Append(Closed, s) \in Seq(Scan)
         /\ Stack(body, gs, Append(Append(Closed, s), t), torn) /\ Innermost(body, gs, t, m, torn)
<1>1. /\ scans \in Seq(Scan) /\ scans # <<>> /\ Scn.text \in Seq(Nat) /\ body[Fn] \in Seq(Token) /\ torn \in BOOLEAN
      /\ Scn.ifs \in Int /\ Scn.ifs >= 0
  BY Facts
<1>2. s \in Scan /\ s.use = Scn.use /\ s.depth = Scn.depth /\ s.pos \in 1 .. Len(s.text) + 1
  BY DEF Moves
<1>3. Parse(body[Fn], s)
  BY DEF Goes
<1>4. Owes(body[Fn], s) \in Nat
  BY <1>1, <1>2, <1>3, OwesNat
<1>5. /\ Stack(body, gs, Append(Closed, s), torn) /\ Innermost(body, gs, s, m, torn) /\ BodyOf(body, gs, s) = body[Fn]
  <2>1. Owes(body[Fn], s) \in Int
    BY <1>4
  <2> QED
    BY <1>2, <2>1, Turned
<1>6. Closed \in Seq(Scan)
  BY <1>1, <1>2, WithScanIs
<1> DEFINE ss == Append(Closed, s)
<1>7. ss \in Seq(Scan) /\ ss # <<>> /\ ss[Len(ss)] = s
  BY <1>2, <1>6
<1>8. Paid(m, s.ifs + Owes(body[Fn], s), torn)
  BY <1>5 DEF Innermost
<1>9. m >= 0
  <2>1. PICK o \in Nat, i \in Int : o = Owes(body[Fn], s) /\ i = s.ifs
    BY <1>1, <1>4
  <2>2. m >= i + o /\ i >= 0
    BY <1>1, <1>8, <2>1 DEF Paid
  <2> QED
    BY <2>1, <2>2
<1>10. Makes(body, gs, s, t, torn)
  <2>1. t.ifs = m
    BY DEF Fresh
  <2> QED
    BY <1>5, <1>8, <2>1 DEF Makes
<1> HIDE DEF ss
<1>11. Stack(body, gs, ss, torn)
  BY <1>5 DEF ss
<1>12. Stack(body, gs, Append(ss, t), torn) /\ Innermost(body, gs, t, m, torn)
  BY ONLY <1>1, <1>7, <1>9, <1>10, <1>11, FreshOpens, gs \in Seq(Frame), m \in Int, t \in Scan, Fresh(gs, t, m), Over(s, t)
<1> QED
  BY <1>7, <1>12 DEF ss

LEMMA Opens ==
  ASSUME IInv, Cuts, frames # <<>>, frames' \in Seq(Frame), Keeps(frames'), UNCHANGED <<body, torn>>, ifCounter' \in Int,
         NEW s, Moves(s), s.text = Scn.text, s.ifs = Scn.ifs, Goes(body[Fn], Scn, s, ifCounter, ifCounter'),
         NEW t \in Scan, scans' = Append(WithScan(s), t), Fresh(frames', t, ifCounter'),
         Waits(body[Fn], s, t.use), Over(s, t)
  PROVE  Cuts'
<1>1. scans \in Seq(Scan) /\ scans # <<>>
  BY Facts
<1>2. WithScan(s) = Append(Closed, s)
  BY <1>1, WithScanIs DEF Moves
<1>3. /\ Append(Closed, s) \in Seq(Scan)
      /\ Stack(body, frames', Append(Append(Closed, s), t), torn) /\ Innermost(body, frames', t, ifCounter', torn)
  BY OpensDeep
<1>4. scans' = Append(Append(Closed, s), t)
  BY <1>2
<1>5. t.mode # "if" /\ body \in Bodies /\ torn' = torn /\ body' = body
  BY DEF Fresh, Cuts
<1> QED
  BY <1>3, <1>4, <1>5, CutsAfter

(* The same, of the same function.                                         *)
LEMMA OpensHere ==
  ASSUME IInv, Cuts, frames # <<>>, frames' \in Seq(Frame), Len(frames') = Depth, Keeps(frames'),
         UNCHANGED <<body, torn>>, ifCounter' \in Int,
         NEW s, Moves(s), s.text = Scn.text, s.ifs = Scn.ifs, Goes(body[Fn], Scn, s, ifCounter, ifCounter'),
         NEW use \in Uses, NEW text \in Seq(Nat), scans' = Opened(s, use, text),
         Waits(body[Fn], s, use), Text(body[Fn], text), text # <<>> => Scn.text # <<>> /\ From(text) >= From(Scn.text),
         Sides(body[Fn], From(text)) \subseteq frames'[Depth].taken
  PROVE  Cuts'
<1>1. /\ scans \in Seq(Scan) /\ scans # <<>> /\ Depth \in Nat /\ Depth >= 1 /\ Scn.depth = Depth /\ Depth = Len(frames)
      /\ Scn = scans[Len(scans)] /\ Len(scans) \in 1 .. Len(scans) /\ body[Fn] \in Seq(Token) /\ BodyOf(body, frames, Scn) = body[Fn]
      /\ Scn.text \in Seq(Nat)
  BY Facts
<1> DEFINE t == NewScan(use, Depth, text)
<1>2. /\ t \in Scan /\ t.use = use /\ t.depth = Depth /\ t.text = text /\ t.pos = 1
      /\ t.mode = "initial" /\ t.counted = FALSE /\ t.ifs = ifCounter'
  BY <1>1, NewScanIs
<1>3. scans' = Append(WithScan(s), t)
  BY DEF Opened
<1> HIDE DEF t
<1>4. frames'[Depth].fn = Fn
  <2>1. frames'[Scn.depth].fn = frames[Scn.depth].fn
    BY <1>1 DEF Keeps
  <2> QED
    BY <1>1, <2>1 DEF Fn, Frm
<1>5. BodyOf(body, frames', t) = body[Fn]
  BY <1>2, <1>4 DEF BodyOf
<1>6. t.depth \in 1 .. Len(frames')
  BY <1>1, <1>2
<1>7. Fresh(frames', t, ifCounter')
  BY <1>1, <1>2, <1>5, <1>6 DEF Fresh
<1>8. Over(s, t)
  <2>1. s.depth = Depth
    BY <1>1 DEF Moves
  <2>2. From(text) \in Int /\ From(Scn.text) \in Int
    BY <1>1, FromInt
  <2> QED
    BY <1>1, <1>2, <2>1, <2>2 DEF Over
<1> QED
  BY <1>2, <1>3, <1>7, <1>8, Opens

-----------------------------------------------------------------------------
(* Steps that only read a token.                                           *)

LEMMA AtTheToken ==
  ASSUME IInv, Cuts, NEW modes, NEW tokens \in SUBSET Token, Reads(modes, tokens)
  PROVE  /\ frames # <<>> /\ Going /\ Scn.mode \in modes /\ Tok # "end" /\ Tok \in tokens
         /\ Scn.pos \in 1 .. Len(Scn.text) /\ Here = Scn.text[Scn.pos] /\ Here \in Nat
         /\ Tok = body[Fn][Scn.text[Scn.pos]] /\ Scn.text # <<>>
<1>1. frames # <<>> /\ Going /\ Scn.mode \in modes /\ Tok \in tokens
  BY DEF Reads, Parsing
<1>2. Tok # "end"
  BY <1>1 DEF Token
<1>3. Here # 0 /\ Tok = body[Fn][Here]
  BY <1>2 DEF Tok
<1>4. Scn.pos <= Len(Scn.text) /\ Here = Scn.text[Scn.pos]
  BY <1>3 DEF Here
<1>5. Scn.pos \in 1 .. Len(Scn.text) + 1 /\ Scn.text \in Seq(Nat)
  BY <1>1, Facts
<1>6. Scn.pos \in 1 .. Len(Scn.text)
  BY <1>4, <1>5
<1>7. Here \in Nat /\ Scn.text # <<>>
  BY <1>4, <1>5, <1>6
<1> QED
  BY <1>1, <1>2, <1>3, <1>4, <1>6, <1>7

LEMMA SameFrames ==
  ASSUME IInv, Cuts, frames # <<>>, frames' = frames
  PROVE  frames' \in Seq(Frame) /\ Len(frames') = Depth /\ Keeps(frames')
<1>1. frames \in Seq(Frame) /\ Depth = Len(frames)
  BY Facts
<1>2. Alike(frames, frames)
  BY <1>1 DEF Alike
<1> QED
  BY <1>1, <1>2, KeepsAlike

LEMMA SameGoing ==
  ASSUME UNCHANGED <<frames, stopped>>
  PROVE  Going' = Going
BY DEF Going, Frm, Depth

(* The fields of a parse that goes past a token.                           *)
LEMMA PastIs ==
  ASSUME IInv, Cuts, frames # <<>>, Tok # "end"
  PROVE  LET s == Past(Scn)
         IN /\ Moves(s) /\ s \in Scan /\ s.pos = Scn.pos + 1 /\ s.text = Scn.text /\ s.ifs = Scn.ifs
            /\ s.mode = Scn.mode /\ s.counted = Scn.counted /\ s.cond = Scn.cond /\ s.yes = Scn.yes
            /\ s.no = Scn.no /\ s.else = Scn.else /\ s.at = Scn.at
<1>1. Scn \in Scan
  BY Facts
<1>2. Moves(Past(Scn))
  BY PastMoves
<1> QED
  BY <1>1, <1>2 DEF Past, Scan, Moves

LEMMA StatementCuts ==
  ASSUME IInv, Cuts, Statement
  PROVE  Cuts'
<1>1. PICK tokens \in SUBSET Token : Reads({"initial"}, tokens) /\ "if" \notin tokens /\ "endif" \notin tokens
  BY DEF Statement, Token
<1>2. /\ frames # <<>> /\ Going /\ Scn.mode \in {"initial"} /\ Tok # "end" /\ Tok \in tokens
      /\ Scn.pos \in 1 .. Len(Scn.text) /\ Tok = body[Fn][Scn.text[Scn.pos]]
  BY <1>1, AtTheToken
<1>3. Scn \in Scan /\ Scn.text \in Seq(Nat) /\ body[Fn] \in Seq(Token) /\ Parse(body[Fn], Scn) /\ ifCounter \in Int
  BY <1>2, Facts
<1> DEFINE s == Past(Scn)
<1>4. /\ Moves(s) /\ s \in Scan /\ s.pos = Scn.pos + 1 /\ s.text = Scn.text /\ s.ifs = Scn.ifs
      /\ s.mode = Scn.mode /\ s.counted = Scn.counted /\ s.cond = Scn.cond /\ s.yes = Scn.yes
  BY <1>2, PastIs
<1>5. scans' = WithScan(s) /\ UNCHANGED <<body, torn, frames, ifCounter>>
  BY DEF Statement
<1> HIDE DEF s
<1>6. Goes(body[Fn], Scn, s, ifCounter, ifCounter)
  BY <1>1, <1>2, <1>3, <1>4, PlainRead
<1>7. frames' \in Seq(Frame) /\ Keeps(frames')
  BY <1>2, <1>5, SameFrames
<1>8. s.mode # "if"
  BY <1>2, <1>4
<1> QED
  BY <1>2, <1>3, <1>4, <1>5, <1>6, <1>7, <1>8, MovesOn

LEMMA IfCuts ==
  ASSUME IInv, Cuts, If
  PROVE  Cuts'
<1>1. Reads({"initial"}, {"if"})
  BY DEF If
<1>2. /\ frames # <<>> /\ Going /\ Scn.mode = "initial" /\ Tok # "end" /\ Tok = "if"
      /\ Scn.pos \in 1 .. Len(Scn.text) /\ Tok = body[Fn][Scn.text[Scn.pos]]
  <2>1. {"if"} \in SUBSET Token
    BY DEF Token
  <2> QED
    BY <1>1, <2>1, AtTheToken
<1>3. Scn \in Scan /\ Scn.text \in Seq(Nat) /\ body[Fn] \in Seq(Token) /\ Parse(body[Fn], Scn) /\ ifCounter \in Int
  BY <1>2, Facts
<1> DEFINE p == Past(Scn)
           s == [p EXCEPT !.mode = "if", !.cond = <<>>, !.yes = <<>>, !.no = <<>>, !.else = FALSE, !.counted = FALSE]
<1>4. Moves(p) /\ p \in Scan /\ p.pos = Scn.pos + 1 /\ p.text = Scn.text /\ p.ifs = Scn.ifs
  BY <1>2, PastIs
<1>5. scans' = WithScan(s) /\ UNCHANGED <<body, torn, frames, stopped>> /\ ifCounter' = IF Scn.counted THEN ifCounter ELSE ifCounter + 1
  BY DEF If, OneMore
<1> HIDE DEF p
<1>6. /\ s.pos = Scn.pos + 1 /\ s.text = Scn.text /\ s.ifs = Scn.ifs
      /\ s.mode = "if" /\ s.counted = FALSE /\ s.cond = <<>> /\ s.yes = <<>> /\ s.no = <<>> /\ s.else = FALSE
  BY <1>4 DEF Scan
<1>7. Moves(s)
  <2>1. "if" \in Modes
    BY DEF Modes
  <2> QED
    BY <1>4, <2>1, FieldsMove
<1>8. s \in Scan
  BY <1>7 DEF Moves
<1> HIDE DEF s
<1>9. ifCounter' \in Int /\ Scn.counted \in BOOLEAN
  <2>1. Scn.counted \in BOOLEAN
    BY <1>3 DEF Scan
  <2> QED
    BY <1>3, <1>5, <2>1
<1>10. Goes(body[Fn], Scn, s, ifCounter, ifCounter')
  BY <1>2, <1>3, <1>5, <1>6, <1>8, <1>9, IfRead
<1>11. frames' \in Seq(Frame) /\ Keeps(frames')
  BY <1>2, <1>5, SameFrames
<1>12. Going'
  BY <1>2, <1>5, SameGoing
<1> QED
  BY <1>2, <1>5, <1>6, <1>7, <1>9, <1>10, <1>11, <1>12, MovesOn

LEMMA ConditionIs ==
  ASSUME IInv, Cuts, frames # <<>>, Tok # "end"
  PROVE  LET s == Condition(Scn)
         IN /\ Moves(s) /\ s \in Scan /\ s.pos = Scn.pos + 1 /\ s.text = Scn.text /\ s.ifs = Scn.ifs
            /\ s.mode = Scn.mode /\ s.counted = Scn.counted /\ s.cond = Append(Scn.cond, Here) /\ s.yes = Scn.yes
            /\ s.no = Scn.no /\ s.else = Scn.else /\ s.at = Scn.at
<1>1. Scn \in Scan
  BY Facts
<1>2. Moves(Condition(Scn))
  BY CollectMoves
<1> QED
  BY <1>1, <1>2 DEF Condition, Scan, Moves

LEMMA CollectIs ==
  ASSUME IInv, Cuts, frames # <<>>, Tok # "end"
  PROVE  LET s == Collect(Scn)
         IN /\ Moves(s) /\ s \in Scan /\ s.pos = Scn.pos + 1 /\ s.text = Scn.text /\ s.ifs = Scn.ifs
            /\ s.mode = Scn.mode /\ s.counted = Scn.counted /\ s.cond = Scn.cond
            /\ s.yes = (IF Scn.else THEN Scn.yes ELSE Append(Scn.yes, Here))
            /\ s.no = (IF Scn.else THEN Append(Scn.no, Here) ELSE Scn.no)
            /\ s.else = Scn.else /\ s.at = Scn.at
<1>1. Scn \in Scan
  BY Facts
<1>2. Moves(Collect(Scn))
  BY CollectMoves
<1>3. Moves(Collect(Scn)) /\ Collect(Scn) \in Scan
  BY <1>2 DEF Moves
<1>4. CASE Scn.else
  <2>1. Collect(Scn) = [Scn EXCEPT !.no = Append(Scn.no, Here), !.pos = Scn.pos + 1]
    BY <1>4 DEF Collect
  <2> QED
    BY <1>1, <1>3, <1>4, <2>1 DEF Scan
<1>5. CASE ~Scn.else
  <2>1. Collect(Scn) = [Scn EXCEPT !.yes = Append(Scn.yes, Here), !.pos = Scn.pos + 1]
    BY <1>5 DEF Collect
  <2> QED
    BY <1>1, <1>3, <1>5, <2>1 DEF Scan
<1> QED
  BY <1>4, <1>5

LEMMA ConditionCuts ==
  ASSUME IInv, Cuts, ConditionChar
  PROVE  Cuts'
<1>1. Reads({"if", "while"}, Token \ {"then", "loop"})
  BY DEF ConditionChar
<1>2. /\ frames # <<>> /\ Going /\ Scn.mode \in {"if", "while"} /\ Tok # "end" /\ Tok \notin {"then", "loop"}
      /\ Scn.pos \in 1 .. Len(Scn.text) /\ Tok = body[Fn][Scn.text[Scn.pos]] /\ Here = Scn.text[Scn.pos]
  <2>1. Token \ {"then", "loop"} \in SUBSET Token
    OBVIOUS
  <2> QED
    BY <1>1, <2>1, AtTheToken
<1>3. /\ Scn \in Scan /\ Scn.text \in Seq(Nat) /\ body[Fn] \in Seq(Token) /\ Parse(body[Fn], Scn) /\ ifCounter \in Int
      /\ IfsNest(body[Fn]) /\ LoopsNest(body[Fn])
  BY <1>2, Facts
<1>4. Scn.cond \in Seq(Nat)
  BY <1>3 DEF Scan
<1> DEFINE s == IF Tok = "nl" THEN Past(Scn) ELSE Condition(Scn)
<1>5. /\ Moves(s) /\ s \in Scan /\ s.pos = Scn.pos + 1 /\ s.text = Scn.text /\ s.ifs = Scn.ifs
      /\ s.mode = Scn.mode /\ s.counted = Scn.counted /\ s.yes = Scn.yes /\ s.no = Scn.no /\ s.else = Scn.else
      /\ s.cond = (IF Tok = "nl" THEN Scn.cond ELSE Append(Scn.cond, Here))
  <2>1. CASE Tok = "nl"
    BY <1>2, <2>1, PastIs
  <2>2. CASE Tok # "nl"
    BY <1>2, <2>2, ConditionIs
  <2> QED
    BY <2>1, <2>2
<1>6. scans' = WithScan(s) /\ UNCHANGED <<body, torn, frames, stopped, ifCounter>>
  BY DEF ConditionChar
<1> HIDE DEF s
<1>7. s.cond = (IF body[Fn][Scn.text[Scn.pos]] = "nl" THEN Scn.cond ELSE Append(Scn.cond, Scn.text[Scn.pos]))
  BY <1>2, <1>5
<1>8. Goes(body[Fn], Scn, s, ifCounter, ifCounter)
  <2>1. CASE Scn.mode = "if"
    <3>1. body[Fn][Scn.text[Scn.pos]] # "then"
      BY <1>2
    <3> QED
      BY <1>2, <1>3, <1>4, <1>5, <1>7, <2>1, <3>1, IfCondRead
  <2>2. CASE Scn.mode = "while"
    <3>1. body[Fn][Scn.text[Scn.pos]] # "loop"
      BY <1>2
    <3> QED
      BY <1>2, <1>3, <1>4, <1>5, <1>7, <2>2, <3>1, WhileCondRead
  <2> QED
    BY <1>2, <2>1, <2>2
<1>9. frames' \in Seq(Frame) /\ Keeps(frames') /\ Going'
  BY <1>2, <1>6, SameFrames, SameGoing
<1> QED
  BY <1>2, <1>3, <1>5, <1>6, <1>8, <1>9, MovesOn

LEMMA WhileCuts ==
  ASSUME IInv, Cuts, While
  PROVE  Cuts'
<1>1. Reads({"initial"}, {"while"})
  BY DEF While
<1>2. /\ frames # <<>> /\ Going /\ Scn.mode = "initial" /\ Tok # "end" /\ Tok = "while"
      /\ Scn.pos \in 1 .. Len(Scn.text) /\ Tok = body[Fn][Scn.text[Scn.pos]]
  <2>1. {"while"} \in SUBSET Token
    BY DEF Token
  <2> QED
    BY <1>1, <2>1, AtTheToken
<1>3. Scn \in Scan /\ Scn.text \in Seq(Nat) /\ body[Fn] \in Seq(Token) /\ Parse(body[Fn], Scn) /\ ifCounter \in Int
  BY <1>2, Facts
<1> DEFINE p == Past(Scn)
           s == [p EXCEPT !.mode = "while", !.cond = <<>>, !.yes = <<>>, !.else = FALSE]
<1>4. Moves(p) /\ p \in Scan /\ p.pos = Scn.pos + 1 /\ p.text = Scn.text /\ p.ifs = Scn.ifs /\ p.counted = Scn.counted
  BY <1>2, PastIs
<1>5. scans' = WithScan(s) /\ UNCHANGED <<body, torn, frames, stopped, ifCounter>>
  BY DEF While
<1> HIDE DEF p
<1>6. /\ s.pos = Scn.pos + 1 /\ s.text = Scn.text /\ s.ifs = Scn.ifs
      /\ s.mode = "while" /\ s.counted = Scn.counted /\ s.cond = <<>> /\ s.yes = <<>> /\ s.else = FALSE
  BY <1>4 DEF Scan
<1>7. Moves(s)
  <2>1. "while" \in Modes
    BY DEF Modes
  <2> QED
    BY <1>4, <2>1, FieldsMove
<1>8. s \in Scan
  BY <1>7 DEF Moves
<1> HIDE DEF s
<1>9. Goes(body[Fn], Scn, s, ifCounter, ifCounter)
  BY <1>2, <1>3, <1>6, <1>8, WhileRead
<1>10. frames' \in Seq(Frame) /\ Keeps(frames')
  BY <1>2, <1>5, SameFrames
<1>11. s.mode # "if"
  BY <1>6
<1> QED
  BY <1>2, <1>3, <1>5, <1>6, <1>7, <1>9, <1>10, <1>11, MovesOn

LEMMA LoopLineCuts ==
  ASSUME IInv, Cuts, LoopLine
  PROVE  Cuts'
<1>1. Reads({"loop"}, Token)
  BY DEF LoopLine
<1>2. /\ frames # <<>> /\ Going /\ Scn.mode = "loop" /\ Tok # "end"
      /\ Scn.pos \in 1 .. Len(Scn.text) /\ Tok = body[Fn][Scn.text[Scn.pos]] /\ Here = Scn.text[Scn.pos]
  <2>1. Token \in SUBSET Token
    OBVIOUS
  <2> QED
    BY <1>1, <2>1, AtTheToken
<1>3. /\ Scn \in Scan /\ Scn.text \in Seq(Nat) /\ body[Fn] \in Seq(Token) /\ Parse(body[Fn], Scn) /\ ifCounter \in Int
      /\ IfsNest(body[Fn]) /\ LoopsNest(body[Fn])
  BY <1>2, Facts
<1>4. Scn.yes \in Seq(Nat) /\ ~Scn.else
  <2>1. Scn.yes \in Seq(Nat)
    BY <1>3 DEF Scan
  <2>2. ~Scn.else
    BY <1>2, <1>3 DEF Parse, InLoop
  <2> QED
    BY <2>1, <2>2
<1> DEFINE p == Past(Scn)
           e == [p EXCEPT !.mode = "pending"]
           s == IF Tok = "nl" THEN p ELSE IF Tok = "endloop" THEN e ELSE Collect(Scn)
<1>5. /\ Moves(p) /\ p \in Scan /\ p.pos = Scn.pos + 1 /\ p.text = Scn.text /\ p.ifs = Scn.ifs
      /\ p.mode = Scn.mode /\ p.counted = Scn.counted /\ p.cond = Scn.cond /\ p.yes = Scn.yes /\ p.else = Scn.else
  BY <1>2, PastIs
<1>6. scans' = WithScan(s) /\ UNCHANGED <<body, torn, frames, stopped, ifCounter>>
  BY DEF LoopLine
<1> HIDE DEF p
<1>7. /\ Moves(e) /\ e.pos = Scn.pos + 1 /\ e.text = Scn.text /\ e.ifs = Scn.ifs
      /\ e.mode = "pending" /\ e.counted = Scn.counted /\ e.cond = Scn.cond /\ e.yes = Scn.yes /\ e.else = Scn.else
  <2>1. "pending" \in Modes
    BY DEF Modes
  <2>2. Moves(e)
    BY <1>5, <2>1, FieldsMove
  <2> QED
    BY <1>5, <2>2 DEF Scan
<1> HIDE DEF e
<1>8. /\ Moves(s) /\ s.pos = Scn.pos + 1 /\ s.text = Scn.text /\ s.ifs = Scn.ifs
      /\ s.mode = (IF Tok = "endloop" THEN "pending" ELSE "loop") /\ s.counted = Scn.counted
      /\ s.cond = Scn.cond /\ s.else = Scn.else
      /\ s.yes = (IF Tok \in {"nl", "endloop"} THEN Scn.yes ELSE Append(Scn.yes, Here))
  <2>1. CASE Tok = "nl"
    BY <1>2, <1>5, <2>1
  <2>2. CASE Tok = "endloop"
    BY <1>7, <2>2
  <2>3. CASE Tok \notin {"nl", "endloop"}
    BY <1>2, <1>4, <2>3, CollectIs
  <2> QED
    BY <2>1, <2>2, <2>3
<1>9. s \in Scan
  BY <1>8 DEF Moves
<1> HIDE DEF s
<1>10. /\ s.mode = (IF body[Fn][Scn.text[Scn.pos]] = "endloop" THEN "pending" ELSE "loop")
       /\ s.yes = (IF body[Fn][Scn.text[Scn.pos]] \in {"nl", "endloop"} THEN Scn.yes ELSE Append(Scn.yes, Scn.text[Scn.pos]))
  BY <1>2, <1>8
<1>11. Goes(body[Fn], Scn, s, ifCounter, ifCounter)
  BY <1>2, <1>3, <1>4, <1>8, <1>9, <1>10, LoopLineRead
<1>12. frames' \in Seq(Frame) /\ Keeps(frames')
  BY <1>2, <1>6, SameFrames
<1>13. s.mode # "if"
  BY <1>8
<1> QED
  BY <1>2, <1>3, <1>6, <1>8, <1>11, <1>12, <1>13, MovesOn

(* What is known of a parse that collects branches.                        *)
LEMMA InBranches ==
  ASSUME IInv, Cuts, NEW tokens \in SUBSET Token, Reads({"then"}, tokens)
  PROVE  /\ frames # <<>> /\ Going /\ Scn.mode = "then" /\ Tok # "end" /\ Tok \in tokens
         /\ Scn.pos \in 1 .. Len(Scn.text) /\ Tok = body[Fn][Scn.text[Scn.pos]] /\ Here = Scn.text[Scn.pos]
         /\ Here \in Nat /\ Scn.text # <<>>
         /\ Scn \in Scan /\ Scn.text \in Seq(Nat) /\ body[Fn] \in Seq(Token) /\ IfsNest(body[Fn]) /\ Parse(body[Fn], Scn)
         /\ Scn.yes \in Seq(Nat) /\ Scn.no \in Seq(Nat) /\ Scn.else \in BOOLEAN /\ Scn.at \in Nat
         /\ ifCounter \in Int /\ ifCounter >= Owes(body[Fn], Scn) /\ AtWork(body[Fn], Scn, ifCounter)
<1>1. /\ frames # <<>> /\ Going /\ Scn.mode = "then" /\ Tok # "end" /\ Tok \in tokens
      /\ Scn.pos \in 1 .. Len(Scn.text) /\ Tok = body[Fn][Scn.text[Scn.pos]] /\ Here = Scn.text[Scn.pos]
      /\ Here \in Nat /\ Scn.text # <<>>
  BY AtTheToken
<1>2. /\ Scn \in Scan /\ Scn.text \in Seq(Nat) /\ body[Fn] \in Seq(Token) /\ IfsNest(body[Fn]) /\ Parse(body[Fn], Scn)
      /\ ifCounter \in Int /\ ifCounter >= Owes(body[Fn], Scn) /\ BodyOf(body, frames, Scn) = body[Fn]
      /\ Innermost(body, frames, Scn, ifCounter, torn)
  BY <1>1, Facts
<1>3. AtWork(body[Fn], Scn, ifCounter)
  BY <1>2 DEF Innermost
<1>4. Scn.yes \in Seq(Nat) /\ Scn.no \in Seq(Nat) /\ Scn.else \in BOOLEAN /\ Scn.at \in Nat
  BY <1>2 DEF Scan
<1> QED
  BY <1>1, <1>2, <1>3, <1>4

LEMMA IfLineCuts ==
  ASSUME IInv, Cuts, IfLine
  PROVE  Cuts'
<1>1. Reads({"then"}, Token) /\ ~OwnElse /\ ~OwnEnd
  BY DEF IfLine
<1>2. /\ frames # <<>> /\ Going /\ Scn.mode = "then" /\ Tok # "end"
      /\ Scn.pos \in 1 .. Len(Scn.text) /\ Tok = body[Fn][Scn.text[Scn.pos]] /\ Here = Scn.text[Scn.pos]
      /\ Here \in Nat
      /\ Scn \in Scan /\ Scn.text \in Seq(Nat) /\ body[Fn] \in Seq(Token) /\ Parse(body[Fn], Scn)
      /\ Scn.yes \in Seq(Nat) /\ Scn.no \in Seq(Nat) /\ Scn.else \in BOOLEAN
      /\ ifCounter \in Int /\ ifCounter >= Owes(body[Fn], Scn) /\ AtWork(body[Fn], Scn, ifCounter)
  <2>1. Token \in SUBSET Token
    OBVIOUS
  <2> QED
    BY <1>1, <2>1, InBranches
<1> DEFINE s == Collect(Scn)
<1>3. /\ Moves(s) /\ s \in Scan /\ s.pos = Scn.pos + 1 /\ s.text = Scn.text /\ s.ifs = Scn.ifs
      /\ s.mode = "then" /\ s.counted = Scn.counted /\ s.else = Scn.else /\ s.at = Scn.at
      /\ s.yes = (IF Scn.else THEN Scn.yes ELSE Append(Scn.yes, Here))
      /\ s.no = (IF Scn.else THEN Append(Scn.no, Here) ELSE Scn.no)
  BY <1>2, CollectIs
<1>4. /\ scans' = WithScan(s) /\ UNCHANGED <<body, torn, frames>>
      /\ ifCounter' = IF Tok = "if" THEN ifCounter + 1 ELSE IF Tok = "endif" THEN ifCounter - 1 ELSE ifCounter
  BY DEF IfLine, OneMore, OneLess
<1> HIDE DEF s
<1>5. PICK q \in Nat : q = Here
  BY <1>2
<1>6. /\ q = Scn.text[Scn.pos]
      /\ s.yes = (IF Scn.else THEN Scn.yes ELSE Append(Scn.yes, q))
      /\ s.no = (IF Scn.else THEN Append(Scn.no, q) ELSE Scn.no)
  BY <1>2, <1>3, <1>5
<1>7. body[Fn][q] = Tok
  BY <1>2, <1>6
<1>8. ifCounter' \in Int
  BY <1>2, <1>4
<1>9. /\ body[Fn][q] \in {"else", "endif"} => ifCounter # 1
      /\ ifCounter' = (IF body[Fn][q] = "if" THEN ifCounter + 1 ELSE IF body[Fn][q] = "endif" THEN ifCounter - 1 ELSE ifCounter)
  BY <1>1, <1>4, <1>7 DEF OwnElse, OwnEnd
<1>10. Goes(body[Fn], Scn, s, ifCounter, ifCounter')
  BY ONLY <1>2, <1>3, <1>6, <1>8, <1>9, q \in Nat, IfLineRead
<1>11. frames' \in Seq(Frame) /\ Keeps(frames')
  BY <1>2, <1>4, SameFrames
<1>12. s.mode # "if"
  BY <1>3
<1> QED
  BY <1>2, <1>3, <1>4, <1>8, <1>10, <1>11, <1>12, MovesOn

LEMMA OwesOne ==
  ASSUME NEW b, NEW s, ifCounter \in Int, ifCounter >= Owes(b, s), AtWork(b, s, ifCounter), ifCounter = 1
  PROVE  Owes(b, s) <= 1 /\ AtWork(b, s, 1)
<1>1. AtWork(b, s, 1)
  OBVIOUS
<1> QED
  BY <1>1

LEMMA ElseCuts ==
  ASSUME IInv, Cuts, Else
  PROVE  Cuts'
<1>1. Reads({"then"}, Token) /\ Tok = "else" /\ ifCounter = 1
  BY DEF Else, OwnElse
<1>2. /\ frames # <<>> /\ Going /\ Scn.mode = "then" /\ Tok # "end"
      /\ Scn.pos \in 1 .. Len(Scn.text) /\ Tok = body[Fn][Scn.text[Scn.pos]]
      /\ Scn \in Scan /\ Scn.text \in Seq(Nat) /\ body[Fn] \in Seq(Token) /\ IfsNest(body[Fn]) /\ Parse(body[Fn], Scn)
      /\ Scn.yes \in Seq(Nat) /\ Scn.else \in BOOLEAN
      /\ ifCounter \in Int /\ ifCounter >= Owes(body[Fn], Scn) /\ AtWork(body[Fn], Scn, ifCounter)
  <2>1. Token \in SUBSET Token
    OBVIOUS
  <2> QED
    BY <1>1, <2>1, InBranches
<1>3. Owes(body[Fn], Scn) <= 1 /\ AtWork(body[Fn], Scn, 1)
  BY <1>1, <1>2, OwesOne
<1> DEFINE p == Past(Scn)
           s == [p EXCEPT !.else = TRUE]
<1>4. /\ Moves(p) /\ p \in Scan /\ p.pos = Scn.pos + 1 /\ p.text = Scn.text /\ p.ifs = Scn.ifs
      /\ p.mode = "then" /\ p.counted = Scn.counted /\ p.yes = Scn.yes /\ p.no = Scn.no /\ p.at = Scn.at
  BY <1>2, PastIs
<1>5. scans' = WithScan(s) /\ UNCHANGED <<body, torn, frames, ifCounter>>
  BY DEF Else
<1> HIDE DEF p
<1>6. /\ s.pos = Scn.pos + 1 /\ s.text = Scn.text /\ s.ifs = Scn.ifs
      /\ s.mode = "then" /\ s.counted = Scn.counted /\ s.yes = Scn.yes /\ s.no = Scn.no /\ s.at = Scn.at /\ s.else = TRUE
  BY <1>4 DEF Scan
<1>7. Moves(s)
  <2>1. "then" \in Modes
    BY DEF Modes
  <2> QED
    BY <1>4, <2>1, FieldsMove
<1>8. s \in Scan
  BY <1>7 DEF Moves
<1> HIDE DEF s
<1>9. body[Fn][Scn.text[Scn.pos]] = "else"
  BY <1>1, <1>2
<1>10. Goes(body[Fn], Scn, s, 1, 1)
  BY ONLY <1>2, <1>3, <1>6, <1>8, <1>9, ElseRead
<1>11. frames' \in Seq(Frame) /\ Keeps(frames')
  BY <1>2, <1>5, SameFrames
<1>12. Goes(body[Fn], Scn, s, ifCounter, ifCounter') /\ s.mode # "if"
  BY <1>1, <1>5, <1>6, <1>10
<1> QED
  BY <1>2, <1>5, <1>6, <1>7, <1>11, <1>12, MovesOn

LEMMA NewlineCuts ==
  ASSUME IInv, Cuts, Newline
  PROVE  Cuts'
<1>1. Reads({"initial", "pending"}, {"nl"}) /\ Raise(Frm, Frm.inner + 1)
  BY DEF Newline
<1>2. /\ frames # <<>> /\ Going /\ Scn.mode \in {"initial", "pending"} /\ Tok # "end" /\ Tok = "nl"
      /\ Scn.pos \in 1 .. Len(Scn.text) /\ Tok = body[Fn][Scn.text[Scn.pos]]
  <2>1. {"nl"} \in SUBSET Token
    BY DEF Token
  <2> QED
    BY <1>1, <2>1, AtTheToken
<1>3. /\ Scn \in Scan /\ Scn.text \in Seq(Nat) /\ body[Fn] \in Seq(Token) /\ Parse(body[Fn], Scn) /\ ifCounter \in Int
      /\ frames \in Seq(Frame) /\ Depth = Len(frames) /\ Depth \in Nat /\ Depth >= 1
  BY <1>2, Facts
<1> DEFINE s == Past(Scn)
<1>4. /\ Moves(s) /\ s \in Scan /\ s.pos = Scn.pos + 1 /\ s.text = Scn.text /\ s.ifs = Scn.ifs
      /\ s.mode = Scn.mode /\ s.counted = Scn.counted /\ s.cond = Scn.cond /\ s.yes = Scn.yes
  BY <1>2, PastIs
<1>5. scans' = WithScan(s) /\ UNCHANGED <<body, torn, ifCounter>>
  BY DEF Newline
<1> HIDE DEF s
<1>6. Goes(body[Fn], Scn, s, ifCounter, ifCounter)
  BY <1>2, <1>3, <1>4, PlainRead
<1>7. Frm \in Frame /\ Frm.inner + 1 \in Nat /\ FramesOK
  <2>1. Frm \in Frame
    BY <1>2, Inside
  <2> QED
    BY <2>1 DEF Frame, IInv
<1>8. Alike(WithFrame(Frm), frames')
  BY <1>1, <1>2, <1>7, RaisedAlike
<1>9. Alike(frames, WithFrame(Frm))
  <2>1. /\ WithFrame(Frm) \in Seq(Frame) /\ Len(WithFrame(Frm)) = Depth
        /\ \A i \in 1 .. Depth : WithFrame(Frm)[i] = IF i = Depth THEN Frm ELSE frames[i]
    BY <1>2, <1>3, <1>7, WithFrameIs
  <2>2. \A i \in 1 .. Depth : WithFrame(Frm)[i] = frames[i]
    BY <2>1 DEF Frm
  <2> QED
    BY <1>3, <2>1, <2>2 DEF Alike
<1>10. frames' \in Seq(Frame) /\ Keeps(frames')
  BY <1>2, <1>8, <1>9, AlikeTrans, KeepsAlike
<1>11. s.mode # "if"
  BY <1>2, <1>4
<1> QED
  BY <1>2, <1>3, <1>4, <1>5, <1>6, <1>10, <1>11, MovesOn

-----------------------------------------------------------------------------
(* Steps that begin a parse.                                               *)

LEMMA WithinSides ==
  ASSUME IInv, Cuts, frames # <<>>, NEW y \in Seq(Nat), Within(body[Fn], From(Scn.text), y)
  PROVE  /\ Text(body[Fn], y) /\ (y # <<>> => From(y) >= From(Scn.text))
         /\ Sides(body[Fn], From(y)) \subseteq Frm.taken
<1>1. Fits(body, frames, Scn) /\ BodyOf(body, frames, Scn) = body[Fn] /\ Scn.depth = Depth
  BY Facts
<1>2. Sides(body[Fn], From(Scn.text)) \subseteq Frm.taken
  BY <1>1 DEF Fits, Frm
<1>3. CASE y = <<>>
  BY <1>3, NoSides DEF Within
<1>4. CASE y # <<>>
  BY <1>2, <1>4 DEF Within
<1> QED
  BY <1>3, <1>4

LEMMA ThenCuts ==
  ASSUME IInv, Cuts, Then
  PROVE  Cuts'
<1>1. Reads({"if"}, {"then"})
  BY DEF Then
<1>2. /\ frames # <<>> /\ Going /\ Scn.mode = "if" /\ Tok # "end" /\ Tok = "then" /\ Here \in Nat
      /\ Scn.pos \in 1 .. Len(Scn.text) /\ Tok = body[Fn][Scn.text[Scn.pos]] /\ Here = Scn.text[Scn.pos] /\ Scn.text # <<>>
  <2>1. {"then"} \in SUBSET Token
    BY DEF Token
  <2> QED
    BY <1>1, <2>1, AtTheToken
<1>3. /\ Scn \in Scan /\ Scn.text \in Seq(Nat) /\ body[Fn] \in Seq(Token) /\ Parse(body[Fn], Scn) /\ ifCounter \in Int
      /\ IfsNest(body[Fn])
  BY <1>2, Facts
<1>4. Scn.cond \in Seq(Nat)
  BY <1>3 DEF Scan
<1> DEFINE p == Past(Scn)
           s == [p EXCEPT !.mode = "then", !.at = Here]
<1>5. /\ Moves(p) /\ p \in Scan /\ p.pos = Scn.pos + 1 /\ p.text = Scn.text /\ p.ifs = Scn.ifs
      /\ p.counted = Scn.counted /\ p.yes = Scn.yes /\ p.no = Scn.no /\ p.else = Scn.else
  BY <1>2, PastIs
<1>6. scans' = Opened(s, "condition", Scn.cond) /\ UNCHANGED <<body, torn, frames, ifCounter>>
  BY DEF Then
<1> HIDE DEF p
<1>7. /\ s.pos = Scn.pos + 1 /\ s.text = Scn.text /\ s.ifs = Scn.ifs /\ s.mode = "then" /\ s.at = Here
      /\ s.counted = Scn.counted /\ s.yes = Scn.yes /\ s.no = Scn.no /\ s.else = Scn.else
  BY <1>5 DEF Scan
<1>8. Moves(s)
  <2>1. "then" \in Modes
    BY DEF Modes
  <2> QED
    BY <1>2, <1>5, <2>1, FieldsMove
<1>9. s \in Scan
  BY <1>8 DEF Moves
<1> HIDE DEF s
<1>10. body[Fn][Scn.text[Scn.pos]] = "then" /\ s.at = Scn.text[Scn.pos]
  BY <1>2, <1>7
<1>11. /\ Goes(body[Fn], Scn, s, ifCounter, ifCounter) /\ Within(body[Fn], From(Scn.text), Scn.cond)
       /\ s.at = Read(s.text, s.pos) /\ Branches(body[Fn], s, s.at)
  BY ONLY <1>2, <1>3, <1>4, <1>7, <1>9, <1>10, ThenRead
<1>12. Waits(body[Fn], s, "condition")
  BY <1>7, <1>11 DEF Waits
<1>13. frames' \in Seq(Frame) /\ Len(frames') = Depth /\ Keeps(frames') /\ frames'[Depth] = Frm
  BY <1>2, <1>6, SameFrames DEF Frm
<1>14. /\ Text(body[Fn], Scn.cond) /\ (Scn.cond # <<>> => From(Scn.cond) >= From(Scn.text))
       /\ Sides(body[Fn], From(Scn.cond)) \subseteq frames'[Depth].taken
  BY <1>2, <1>4, <1>11, <1>13, WithinSides
<1>15. "condition" \in Uses
  BY DEF Uses
<1> QED
  BY <1>2, <1>3, <1>4, <1>6, <1>7, <1>8, <1>11, <1>12, <1>13, <1>14, <1>15, OpensHere

LEMMA LoopCuts ==
  ASSUME IInv, Cuts, Loop
  PROVE  Cuts'
<1>1. Reads({"while"}, {"loop"})
  BY DEF Loop
<1>2. /\ frames # <<>> /\ Going /\ Scn.mode = "while" /\ Tok # "end" /\ Tok = "loop"
      /\ Scn.pos \in 1 .. Len(Scn.text) /\ Tok = body[Fn][Scn.text[Scn.pos]] /\ Scn.text # <<>>
  <2>1. {"loop"} \in SUBSET Token
    BY DEF Token
  <2> QED
    BY <1>1, <2>1, AtTheToken
<1>3. /\ Scn \in Scan /\ Scn.text \in Seq(Nat) /\ body[Fn] \in Seq(Token) /\ Parse(body[Fn], Scn) /\ ifCounter \in Int
      /\ LoopsNest(body[Fn])
  BY <1>2, Facts
<1>4. Scn.cond \in Seq(Nat)
  BY <1>3 DEF Scan
<1> DEFINE p == Past(Scn)
           s == [p EXCEPT !.mode = "loop"]
<1>5. /\ Moves(p) /\ p \in Scan /\ p.pos = Scn.pos + 1 /\ p.text = Scn.text /\ p.ifs = Scn.ifs
      /\ p.counted = Scn.counted /\ p.cond = Scn.cond /\ p.yes = Scn.yes /\ p.else = Scn.else
  BY <1>2, PastIs
<1>6. scans' = Opened(s, "condition", Scn.cond) /\ UNCHANGED <<body, torn, frames, ifCounter>>
  BY DEF Loop
<1> HIDE DEF p
<1>7. /\ s.pos = Scn.pos + 1 /\ s.text = Scn.text /\ s.ifs = Scn.ifs /\ s.mode = "loop"
      /\ s.counted = Scn.counted /\ s.cond = Scn.cond /\ s.yes = Scn.yes /\ s.else = Scn.else
  BY <1>5 DEF Scan
<1>8. Moves(s)
  <2>1. "loop" \in Modes
    BY DEF Modes
  <2> QED
    BY <1>5, <2>1, FieldsMove
<1>9. s \in Scan
  BY <1>8 DEF Moves
<1> HIDE DEF s
<1>10. body[Fn][Scn.text[Scn.pos]] = "loop"
  BY <1>2
<1>11. Goes(body[Fn], Scn, s, ifCounter, ifCounter) /\ Within(body[Fn], From(Scn.text), Scn.cond)
  BY ONLY <1>2, <1>3, <1>4, <1>7, <1>9, <1>10, LoopRead
<1>12. Waits(body[Fn], s, "condition")
  BY <1>7 DEF Waits
<1>13. frames' \in Seq(Frame) /\ Len(frames') = Depth /\ Keeps(frames') /\ frames'[Depth] = Frm
  BY <1>2, <1>6, SameFrames DEF Frm
<1>14. /\ Text(body[Fn], Scn.cond) /\ (Scn.cond # <<>> => From(Scn.cond) >= From(Scn.text))
       /\ Sides(body[Fn], From(Scn.cond)) \subseteq frames'[Depth].taken
  BY <1>2, <1>4, <1>11, <1>13, WithinSides
<1>15. "condition" \in Uses
  BY DEF Uses
<1> QED
  BY <1>2, <1>3, <1>4, <1>6, <1>7, <1>8, <1>11, <1>12, <1>13, <1>14, <1>15, OpensHere

LEMMA RunLoopCuts ==
  ASSUME IInv, Cuts, RunLoop
  PROVE  Cuts'
<1>1. frames # <<>> /\ Scn.mode = "pending"
  BY DEF RunLoop, Reads, Parsing
<1>2. /\ Scn \in Scan /\ Scn.text \in Seq(Nat) /\ body[Fn] \in Seq(Token) /\ Parse(body[Fn], Scn) /\ ifCounter \in Int
      /\ Scn.pos \in 1 .. Len(Scn.text) + 1
  BY <1>1, Facts
<1>3. Scn.yes \in Seq(Nat)
  BY <1>2 DEF Scan
<1>4. PICK c \in BOOLEAN : c = (Tok = "if")
  OBVIOUS
<1> DEFINE s == [Scn EXCEPT !.mode = "initial", !.counted = c]
<1>5. /\ ifCounter' = (IF c THEN ifCounter + 1 ELSE ifCounter)
      /\ scans' = (IF condition THEN Opened(s, "loop", Scn.yes) ELSE WithScan(s))
      /\ UNCHANGED <<body, torn, frames>>
  BY <1>4 DEF RunLoop, OneMore
<1>6. /\ s.pos = Scn.pos /\ s.text = Scn.text /\ s.ifs = Scn.ifs /\ s.mode = "initial"
      /\ s.counted = c /\ s.cond = Scn.cond /\ s.yes = Scn.yes
  BY <1>2 DEF Scan
<1>7. Moves(s)
  <2>1. "initial" \in Modes
    BY DEF Modes
  <2>2. Moves(Scn)
    BY <1>2 DEF Moves
  <2> QED
    BY <2>1, <2>2, FieldsMove
<1>8. s \in Scan
  BY <1>7 DEF Moves
<1> HIDE DEF s
<1>9. ifCounter' \in Int
  BY <1>2, <1>5
<1>10. s.counted => Scn.pos <= Len(Scn.text) /\ body[Fn][Scn.text[Scn.pos]] = "if"
  BY <1>4, <1>6 DEF Tok, Here
<1>11. /\ Goes(body[Fn], Scn, s, ifCounter, ifCounter') /\ Scn.text # <<>>
       /\ Within(body[Fn], From(Scn.text), Scn.cond) /\ Within(body[Fn], From(Scn.text), Scn.yes)
  <2>1. ifCounter' = IF s.counted THEN ifCounter + 1 ELSE ifCounter
    BY <1>5, <1>6
  <2>2. s.counted \in BOOLEAN
    BY <1>6
  <2> QED
    BY ONLY <1>1, <1>2, <1>6, <1>8, <1>9, <1>10, <2>1, <2>2, RunLoopRead
<1>12. frames' \in Seq(Frame) /\ Len(frames') = Depth /\ Keeps(frames') /\ frames'[Depth] = Frm
  BY <1>1, <1>5, SameFrames DEF Frm
<1>13. CASE ~condition
  <2>1. scans' = WithScan(s) /\ s.mode # "if"
    BY <1>5, <1>6, <1>13
  <2> QED
    BY <1>1, <1>5, <1>6, <1>7, <1>9, <1>11, <1>12, <2>1, MovesOn
<1>14. CASE condition
  <2>1. scans' = Opened(s, "loop", Scn.yes)
    BY <1>5, <1>14
  <2>2. Waits(body[Fn], s, "loop")
    BY <1>6, <1>11 DEF Waits
  <2>3. /\ Text(body[Fn], Scn.yes) /\ (Scn.yes # <<>> => From(Scn.yes) >= From(Scn.text))
        /\ Sides(body[Fn], From(Scn.yes)) \subseteq frames'[Depth].taken
    BY <1>1, <1>3, <1>11, <1>12, WithinSides
  <2>4. "loop" \in Uses
    BY DEF Uses
  <2> QED
    BY <1>1, <1>3, <1>5, <1>6, <1>7, <1>9, <1>11, <1>12, <2>1, <2>2, <2>3, <2>4, OpensHere
<1> QED
  BY <1>13, <1>14

-----------------------------------------------------------------------------
(* The end of an if: a side is chosen.                                     *)

LEMMA ChosenFrame ==
  ASSUME NEW f \in Frame, Scn \in Scan, NEW side \in Side
  PROVE  LET g == [f EXCEPT !.taken = {t \in f.taken : t[1] # Scn.at} \cup {<<Scn.at, side>>}]
         IN g \in Frame /\ g.fn = f.fn /\ g.inner = f.inner
            /\ g.taken = {t \in f.taken : t[1] # Scn.at} \cup {<<Scn.at, side>>}
<1>1. {t \in f.taken : t[1] # Scn.at} \cup {<<Scn.at, side>>} \in SUBSET (Nat \X Side)
  BY DEF Frame, Scan
<1> QED
  BY <1>1 DEF Frame

LEMMA TakingSet ==
  ASSUME IInv, frames # <<>>, NEW side \in Side
  PROVE  /\ Taking(side) \in Frame /\ Taking(side).fn = Fn
         /\ Taking(side).taken = {t \in Frm.taken : t[1] # Scn.at} \cup {<<Scn.at, side>>}
<1>1. Frm \in Frame /\ Scn \in Scan
  BY Inside
<1> QED
  BY <1>1, ChosenFrame DEF Taking, Fn

LEMMA AtEndIf ==
  ASSUME IInv, Cuts, EndIf
  PROVE  /\ frames # <<>> /\ Scn.text # <<>> /\ Scn.at \in Nat /\ Scn.at > From(Scn.text)
         /\ Scn.yes \in Seq(Nat) /\ Scn.no \in Seq(Nat) /\ ifCounter' \in Int
         /\ Stands(body[Fn], From(Scn.text), Scn.yes, <<Scn.at, "yes">>)
         /\ Scn.else => Stands(body[Fn], From(Scn.text), Scn.no, <<Scn.at, "no">>)
         /\ Moves(AfterIf) /\ AfterIf.text = Scn.text /\ AfterIf.ifs = Scn.ifs /\ AfterIf.mode = "initial"
         /\ Goes(body[Fn], Scn, AfterIf, ifCounter, ifCounter')
<1>1. Reads({"then"}, Token) /\ Tok = "endif" /\ ifCounter = 1 /\ ifCounter' = 0
  BY DEF EndIf, OwnEnd, OneLess
<1>2. /\ frames # <<>> /\ Going /\ Scn.mode = "then" /\ Tok # "end" /\ Scn.text # <<>>
      /\ Scn.pos \in 1 .. Len(Scn.text) /\ Tok = body[Fn][Scn.text[Scn.pos]]
      /\ Scn \in Scan /\ Scn.text \in Seq(Nat) /\ body[Fn] \in Seq(Token) /\ IfsNest(body[Fn]) /\ Parse(body[Fn], Scn)
      /\ Scn.yes \in Seq(Nat) /\ Scn.no \in Seq(Nat) /\ Scn.at \in Nat
      /\ ifCounter \in Int /\ ifCounter >= Owes(body[Fn], Scn) /\ AtWork(body[Fn], Scn, ifCounter)
  <2>1. Token \in SUBSET Token
    OBVIOUS
  <2> QED
    BY <1>1, <2>1, InBranches
<1>3. Owes(body[Fn], Scn) <= 1 /\ AtWork(body[Fn], Scn, 1)
  BY <1>1, <1>2, OwesOne
<1>4. body[Fn][Scn.text[Scn.pos]] = "endif"
  BY <1>1, <1>2
<1>5. /\ Scn.at > From(Scn.text)
      /\ Stands(body[Fn], From(Scn.text), Scn.yes, <<Scn.at, "yes">>)
      /\ Scn.else => Stands(body[Fn], From(Scn.text), Scn.no, <<Scn.at, "no">>)
  BY ONLY <1>2, <1>3, <1>4, BranchTexts
<1> DEFINE p == Past(Scn)
           s == AfterIf
<1>6. Moves(p) /\ p \in Scan /\ p.pos = Scn.pos + 1 /\ p.text = Scn.text /\ p.ifs = Scn.ifs /\ p.counted = Scn.counted
  BY <1>2, PastIs
<1>7. s = [p EXCEPT !.mode = "initial", !.line = Frm.inner, !.backup = condition]
  BY DEF AfterIf
<1> HIDE DEF p, s
<1>8. s.pos = Scn.pos + 1 /\ s.text = Scn.text /\ s.ifs = Scn.ifs /\ s.mode = "initial" /\ s.counted = Scn.counted
  BY <1>6, <1>7 DEF Scan
<1>9. Moves(s)
  <2>1. Frm.inner \in Nat
    BY <1>2, Inside DEF Frame
  <2>2. condition \in BOOLEAN /\ "initial" \in Modes
    BY DEF IInv, RestOK, Modes
  <2> QED
    BY <1>6, <1>7, <2>1, <2>2, FieldsMove
<1>10. s \in Scan
  BY <1>9 DEF Moves
<1>11. Goes(body[Fn], Scn, s, 1, 0)
  BY ONLY <1>2, <1>3, <1>4, <1>8, <1>10, EndIfRead
<1>12. Goes(body[Fn], Scn, s, ifCounter, ifCounter') /\ ifCounter' \in Int
  BY <1>1, <1>11
<1> QED
  BY <1>2, <1>5, <1>8, <1>9, <1>12 DEF s

LEMMA KeepsChosen ==
  ASSUME IInv, Cuts, EndIf, NEW side \in Side, NEW f \in Frame, f.fn = Fn,
         f.taken = {t \in Frm.taken : t[1] # Scn.at} \cup {<<Scn.at, side>>}, NEW gs, Alike(WithFrame(f), gs)
  PROVE  /\ gs \in Seq(Frame) /\ Len(gs) = Depth /\ Keeps(gs)
         /\ \A y \in Seq(Nat) : Stands(body[Fn], From(Scn.text), y, <<Scn.at, side>>) => Sides(body[Fn], From(y)) \subseteq gs[Depth].taken
<1>1. frames # <<>> /\ Scn.text # <<>> /\ Scn.at \in Nat /\ Scn.at > From(Scn.text)
  BY AtEndIf
<1>2. /\ frames \in Seq(Frame) /\ Depth \in Nat /\ Depth >= 1 /\ Depth = Len(frames) /\ Scn.depth = Depth
      /\ Scn = scans[Len(scans)] /\ Len(scans) \in Nat /\ Len(scans) >= 1 /\ BodyOf(body, frames, Scn) = body[Fn]
  BY <1>1, Facts
<1>3. /\ Len(WithFrame(f)) = Depth
      /\ \A i \in 1 .. Depth : WithFrame(f)[i] = IF i = Depth THEN f ELSE frames[i]
  BY <1>1, <1>2, WithFrameIs
<1>4. gs \in Seq(Frame) /\ Len(gs) = Depth
  BY <1>3 DEF Alike
<1>5. \A i \in 1 .. Depth : gs[i].fn = WithFrame(f)[i].fn /\ gs[i].taken = WithFrame(f)[i].taken
  BY <1>3 DEF Alike
<1>6. \A i \in 1 .. Depth : gs[i].fn = frames[i].fn
  BY <1>3, <1>5 DEF Fn, Frm
<1>7. \A i \in 1 .. Depth - 1 : gs[i].taken = frames[i].taken
  <2> SUFFICES ASSUME NEW i \in 1 .. Depth - 1 PROVE gs[i].taken = frames[i].taken
    OBVIOUS
  <2>1. i \in 1 .. Depth /\ i # Depth
    BY <1>2
  <2> QED
    BY <1>3, <1>5, <2>1
<1>8. gs[Depth].taken = {t \in Frm.taken : t[1] # Scn.at} \cup {<<Scn.at, side>>}
  <2>1. Depth \in 1 .. Depth
    BY <1>2
  <2> QED
    BY <1>3, <1>5, <2>1
<1>9. Keeps(gs)
  BY <1>1, <1>4, <1>6, <1>7, <1>8, KeepsTaking
<1>10. Sides(body[Fn], From(Scn.text)) \subseteq gs[Depth].taken
  BY <1>2, <1>9 DEF Keeps
<1>11. <<Scn.at, side>> \in gs[Depth].taken
  BY <1>8
<1> QED
  BY <1>4, <1>9, <1>10, <1>11 DEF Stands

LEMMA RunBlockCuts ==
  ASSUME IInv, Cuts, EndIf, UNCHANGED <<body, torn>>, NEW side \in Side, NEW f \in Frame, f.fn = Fn,
         f.taken = {t \in Frm.taken : t[1] # Scn.at} \cup {<<Scn.at, side>>}, frames' = WithFrame(f),
         NEW y \in Seq(Nat), Stands(body[Fn], From(Scn.text), y, <<Scn.at, side>>),
         scans' = Opened(AfterIf, "branch", y)
  PROVE  Cuts'
<1>1. /\ frames # <<>> /\ Scn.text # <<>> /\ ifCounter' \in Int
      /\ Moves(AfterIf) /\ AfterIf.text = Scn.text /\ AfterIf.ifs = Scn.ifs /\ AfterIf.mode = "initial"
      /\ Goes(body[Fn], Scn, AfterIf, ifCounter, ifCounter')
  BY AtEndIf
<1>2. Alike(WithFrame(f), frames')
  <2>1. frames \in Seq(Frame)
    BY <1>1, Facts
  <2> QED
    BY <1>1, <2>1, WithFrameIs DEF Alike
<1>3. /\ frames' \in Seq(Frame) /\ Len(frames') = Depth /\ Keeps(frames')
      /\ Sides(body[Fn], From(y)) \subseteq frames'[Depth].taken
  BY <1>2, KeepsChosen
<1>4. Text(body[Fn], y) /\ (y # <<>> => From(y) >= From(Scn.text))
  BY DEF Stands
<1>5. Waits(body[Fn], AfterIf, "branch") /\ "branch" \in Uses
  BY <1>1 DEF Waits, Uses
<1> QED
  BY <1>1, <1>3, <1>4, <1>5, OpensHere

LEMMA BlockCuts ==
  ASSUME IInv, Cuts, RunTrueBlock \/ SkipTrueBlock \/ RunFalseBlock
  PROVE  Cuts'
<1>1. EndIf /\ UNCHANGED <<body, torn>>
  BY DEF RunTrueBlock, SkipTrueBlock, RunFalseBlock
<1>2. /\ frames # <<>> /\ Scn.yes \in Seq(Nat) /\ Scn.no \in Seq(Nat) /\ ifCounter' \in Int
      /\ Stands(body[Fn], From(Scn.text), Scn.yes, <<Scn.at, "yes">>)
      /\ Scn.else => Stands(body[Fn], From(Scn.text), Scn.no, <<Scn.at, "no">>)
      /\ Moves(AfterIf) /\ AfterIf.text = Scn.text /\ AfterIf.ifs = Scn.ifs /\ AfterIf.mode = "initial"
      /\ Goes(body[Fn], Scn, AfterIf, ifCounter, ifCounter')
  BY <1>1, AtEndIf
<1>3. "yes" \in Side /\ "no" \in Side
  BY DEF Side
<1>4. ASSUME NEW side \in Side
      PROVE  /\ Taking(side) \in Frame /\ Taking(side).fn = Fn
             /\ Taking(side).taken = {t \in Frm.taken : t[1] # Scn.at} \cup {<<Scn.at, side>>}
  BY <1>2, TakingSet
<1>5. Frm.inner + Newlines(Scn.yes) \in Nat
  <2>1. Frm.inner \in Nat
    BY <1>2, Inside DEF Frame
  <2> QED
    BY <1>2, <2>1, NewlinesNat
<1>6. CASE RunTrueBlock
  <2>1. scans' = Opened(AfterIf, "branch", Scn.yes) /\ frames' = WithFrame(Taking("yes"))
    BY <1>6 DEF RunTrueBlock
  <2> QED
    BY <1>1, <1>2, <1>3, <1>4, <2>1, RunBlockCuts
<1>7. CASE SkipTrueBlock
  <2>1. scans' = WithScan(AfterIf) /\ Raise(Taking("no"), Frm.inner + Newlines(Scn.yes))
    BY <1>7 DEF SkipTrueBlock
  <2>2. Alike(WithFrame(Taking("no")), frames')
    BY <1>2, <1>3, <1>4, <1>5, <2>1, RaisedAlike DEF IInv
  <2>3. frames' \in Seq(Frame) /\ Keeps(frames')
    BY <1>1, <1>3, <1>4, <2>2, KeepsChosen
  <2> QED
    BY <1>1, <1>2, <2>1, <2>3, MovesOn
<1>8. CASE RunFalseBlock
  <2> DEFINE f == [Taking("no") EXCEPT !.inner = Frm.inner + Newlines(Scn.yes)]
  <2>1. scans' = Opened(AfterIf, "branch", Scn.no) /\ frames' = WithFrame(f) /\ Scn.else
    BY <1>8 DEF RunFalseBlock
  <2>2. f \in Frame /\ f.fn = Fn /\ f.taken = {t \in Frm.taken : t[1] # Scn.at} \cup {<<Scn.at, "no">>}
    <3>1. PICK g \in Frame : /\ g = Taking("no") /\ g.fn = Fn
                             /\ g.taken = {t \in Frm.taken : t[1] # Scn.at} \cup {<<Scn.at, "no">>}
      BY <1>3, <1>4
    <3>2. [g EXCEPT !.inner = Frm.inner + Newlines(Scn.yes)] \in Frame
      BY <1>5 DEF Frame
    <3>3. LET h == [g EXCEPT !.inner = Frm.inner + Newlines(Scn.yes)] IN h.fn = g.fn /\ h.taken = g.taken
      BY DEF Frame
    <3> QED
      BY <3>1, <3>2, <3>3
  <2> HIDE DEF f
  <2> QED
    BY <1>1, <1>2, <1>3, <2>1, <2>2, RunBlockCuts
<1> QED
  BY <1>6, <1>7, <1>8

-----------------------------------------------------------------------------
(* A function begins.                                                      *)

LEMMA StackEmpty ==
  ASSUME NEW bd, NEW fs, NEW gone
  PROVE  Stack(bd, fs, <<>>, gone)
<1>1. Len(<<>>) = 0
  OBVIOUS
<1> QED
  BY <1>1 DEF Stack

LEMMA WholeFresh ==
  ASSUME IInv, Cuts, NEW f \in Functions, NEW fs \in Seq(Frame), NEW d \in 1 .. Len(fs), fs[d].fn = f,
         ifCounter' \in Int
  PROVE  LET t == NewScan("body", d, Whole(f))
         IN t \in Scan /\ t.use = "body" /\ t.depth = d /\ Fresh(fs, t, ifCounter')
<1> DEFINE t == NewScan("body", d, Whole(f))
           y == Whole(f)
           b == body[f]
<1>1. body \in Bodies /\ b \in Seq(Token) /\ IfsNest(b)
  BY BodiesAssumption, NestingAssumption DEF Cuts
<1>2. y \in Seq(Nat) /\ y = [k \in 1 .. Len(b) |-> k]
  <2>1. body \in [Functions -> Seq(Token)]
    BY DEF IInv, RestOK
  <2> QED
    BY <2>1, WholeText DEF Whole
<1> HIDE DEF y
<1>3. "body" \in Uses /\ d \in Nat
  BY DEF Uses
<1>4. t \in Scan /\ t.use = "body" /\ t.depth = d /\ t.text = y /\ t.pos = 1
      /\ t.mode = "initial" /\ t.counted = FALSE /\ t.ifs = ifCounter'
  <2>1. Whole(f) \in Seq(Nat)
    BY <1>2 DEF y
  <2>2. /\ t \in Scan /\ t.use = "body" /\ t.depth = d /\ t.text = Whole(f) /\ t.pos = 1
        /\ t.mode = "initial" /\ t.counted = FALSE /\ t.ifs = ifCounter'
    BY <1>3, <2>1, NewScanSet DEF NewScan
  <2> QED
    BY <2>2 DEF y
<1> HIDE DEF t
<1>5. BodyOf(body, fs, t) = b
  BY <1>4 DEF BodyOf
<1> HIDE DEF b
<1>6. Text(b, y) /\ Sides(b, From(y)) = {}
  BY <1>1, <1>2, WholeIsText
<1>7. Fresh(fs, t, ifCounter')
  BY <1>1, <1>4, <1>5, <1>6 DEF Fresh
<1> QED
  BY <1>4, <1>7 DEF t, y

LEMMA StartCuts ==
  ASSUME IInv, Cuts, NEW f \in Functions, Start(f)
  PROVE  Cuts'
<1>1. /\ frames = <<>> /\ frames' = <<NewFrame(f)>> /\ scans' = <<NewScan("body", 1, Whole(f))>>
      /\ UNCHANGED <<body, ifCounter, torn>>
  BY DEF Start
<1>2. scans = <<>> /\ ifCounter \in Int /\ torn \in BOOLEAN
  BY <1>1 DEF IInv, RestOK
<1>3. ifCounter >= 0 /\ (~torn => ifCounter = 0) /\ body \in Bodies
  BY <1>2 DEF Cuts, Paid
<1>4. NewFrame(f) \in Frame /\ NewFrame(f).fn = f
  BY NewFrameSet
<1>5. frames' \in Seq(Frame) /\ 1 \in 1 .. Len(frames') /\ frames'[1].fn = f
  BY <1>1, <1>4
<1> DEFINE t == NewScan("body", 1, Whole(f))
<1>6. t \in Scan /\ Fresh(frames', t, ifCounter')
  BY <1>1, <1>2, <1>5, WholeFresh
<1>7. scans' = <<t>>
  BY <1>1
<1> HIDE DEF t
<1>8. scans' = Append(<<>>, t) /\ <<>> \in Seq(Scan)
  BY <1>7
<1>9. Fresh(frames', t, ifCounter)
  BY <1>1, <1>6
<1>10. t.ifs = ifCounter /\ t.mode # "if"
  BY <1>9 DEF Fresh
<1>11. Stack(body, frames', Append(<<>>, t), torn) /\ Innermost(body, frames', t, t.ifs, torn)
  <2>1. Stack(body, frames', <<>>, torn)
    BY StackEmpty
  <2>2. /\ t.depth \in 1 .. Len(frames') /\ BodyOf(body, frames', t) \in Seq(Token) /\ Text(BodyOf(body, frames', t), t.text)
        /\ t.pos = 1 /\ t.mode = "initial" /\ t.counted = FALSE /\ t.ifs >= 0 /\ (~torn => t.ifs = 0)
        /\ Sides(BodyOf(body, frames', t), From(t.text)) \subseteq frames'[t.depth].taken
    BY <1>3, <1>9 DEF Fresh
  <2> QED
    BY ONLY <1>2, <1>5, <1>6, <1>8, <2>1, <2>2, StackOpen
<1> QED
  BY <1>1, <1>3, <1>6, <1>8, <1>10, <1>11, CutsAfter

LEMMA CallCuts ==
  ASSUME IInv, Cuts, Call
  PROVE  Cuts'
<1>1. /\ Reads({"initial"}, {"call"}) /\ Fn < N /\ frames' = Append(frames, NewFrame(Fn + 1))
      /\ scans' = Append(WithScan(Past(Scn)), NewScan("body", Depth + 1, Whole(Fn + 1)))
      /\ UNCHANGED <<body, ifCounter, torn>>
  BY DEF Call
<1>2. /\ frames # <<>> /\ Going /\ Scn.mode = "initial" /\ Tok # "end" /\ Tok = "call"
      /\ Scn.pos \in 1 .. Len(Scn.text) /\ Tok = body[Fn][Scn.text[Scn.pos]]
  <2>1. {"call"} \in SUBSET Token
    BY DEF Token
  <2> QED
    BY <1>1, <2>1, AtTheToken
<1>3. /\ Scn \in Scan /\ Scn.text \in Seq(Nat) /\ body[Fn] \in Seq(Token) /\ Parse(body[Fn], Scn) /\ ifCounter \in Int
      /\ frames \in Seq(Frame) /\ Depth = Len(frames) /\ Depth \in Nat /\ Depth >= 1 /\ Scn.depth = Depth
  BY <1>2, Facts
<1> DEFINE s == Past(Scn)
           t == NewScan("body", Depth + 1, Whole(Fn + 1))
<1>4. /\ Moves(s) /\ s \in Scan /\ s.pos = Scn.pos + 1 /\ s.text = Scn.text /\ s.ifs = Scn.ifs
      /\ s.mode = Scn.mode /\ s.counted = Scn.counted /\ s.cond = Scn.cond /\ s.yes = Scn.yes
  BY <1>2, PastIs
<1>5. scans' = Append(WithScan(s), t)
  BY <1>1
<1>6. Fn + 1 \in Functions
  BY <1>1, <1>2, Inside, BodiesAssumption DEF Functions
<1>7. NewFrame(Fn + 1) \in Frame /\ NewFrame(Fn + 1).fn = Fn + 1
  BY <1>6, NewFrameSet
<1>8. /\ frames' \in Seq(Frame) /\ Len(frames') = Depth + 1 /\ frames'[Depth + 1].fn = Fn + 1
      /\ \A i \in 1 .. Depth : frames'[i] = frames[i]
  BY <1>1, <1>3, <1>7
<1>9. t \in Scan /\ t.use = "body" /\ t.depth = Depth + 1 /\ Fresh(frames', t, ifCounter')
  <2>1. Depth + 1 \in 1 .. Len(frames')
    BY <1>3, <1>8
  <2> QED
    BY <1>1, <1>3, <1>6, <1>8, <2>1, WholeFresh
<1> HIDE DEF s, t
<1>10. Goes(body[Fn], Scn, s, ifCounter, ifCounter)
  BY <1>2, <1>3, <1>4, PlainRead
<1>11. Keeps(frames')
  <2>1. Len(frames') >= Depth
    BY <1>3, <1>8
  <2> QED
    BY <1>2, <1>8, <2>1, KeepsAll
<1>12. Waits(body[Fn], s, t.use)
  BY <1>2, <1>4, <1>9 DEF Waits
<1>13. Over(s, t)
  <2>1. s.depth = Depth
    BY <1>3, <1>4 DEF Moves
  <2> QED
    BY <1>3, <1>9, <2>1 DEF Over
<1>14. Goes(body[Fn], Scn, s, ifCounter, ifCounter') /\ ifCounter' \in Int
  BY <1>1, <1>3, <1>10
<1> QED
  BY <1>1, <1>2, <1>4, <1>5, <1>8, <1>9, <1>11, <1>12, <1>13, <1>14, Opens

-----------------------------------------------------------------------------
(* Steps that leave the parses alone.                                      *)

LEMMA Stays ==
  ASSUME IInv, Cuts, UNCHANGED <<body, scans, ifCounter, torn>>, frames # <<>>, frames' \in Seq(Frame), Keeps(frames'),
         Scn.mode = "if" => Going'
  PROVE  Cuts'
<1>1. /\ scans \in Seq(Scan) /\ scans # <<>> /\ frames \in Seq(Frame) /\ torn \in BOOLEAN
      /\ Scn = scans[Len(scans)] /\ Len(scans) \in Nat /\ Len(scans) >= 1
      /\ Stack(body, frames, scans, torn) /\ Innermost(body, frames, Scn, ifCounter, torn)
  BY Facts
<1>2. Stack(body, frames', scans, torn)
  BY SMTT(30), <1>1, StackKept DEF Keeps
<1>3. BodyOf(body, frames', Scn) = BodyOf(body, frames, Scn)
  BY <1>1 DEF Keeps, BodyOf
<1>4. Innermost(body, frames', Scn, ifCounter, torn)
  BY <1>1, <1>3 DEF Innermost
<1>5. Scn' = Scn
  BY DEF Scn
<1> QED
  BY <1>1, <1>2, <1>4, <1>5 DEF Cuts

LEMMA ReturnCuts ==
  ASSUME IInv, Cuts, BadStatement \/ Return
  PROVE  Cuts'
<1>1. frames # <<>> /\ Scn.mode = "initial" /\ UNCHANGED <<body, scans, ifCounter, torn>>
  BY DEF BadStatement, Return, Reads, Parsing
<1>2. frames' \in Seq(Frame) /\ Keeps(frames')
  <2>1. CASE BadStatement
    BY <1>1, <2>1, SameFrames DEF BadStatement
  <2>2. CASE Return
    <3> DEFINE f == [Frm EXCEPT !.returned = TRUE]
    <3>1. frames' = WithFrame(f)
      BY <2>2 DEF Return
    <3>2. f \in Frame /\ f.fn = Frm.fn /\ f.taken = Frm.taken
      BY <1>1, Inside DEF Frame
    <3> HIDE DEF f
    <3>3. frames \in Seq(Frame) /\ Depth \in Nat
      BY <1>1, Facts
    <3>4. /\ frames' \in Seq(Frame) /\ Len(frames') = Depth
          /\ \A i \in 1 .. Depth : frames'[i] = IF i = Depth THEN f ELSE frames[i]
      BY <1>1, <3>1, <3>2, <3>3, WithFrameIs
    <3>5. \A i \in 1 .. Depth : frames'[i].fn = frames[i].fn /\ frames[i].taken \subseteq frames'[i].taken
      BY <3>2, <3>4 DEF Frm
    <3> QED
      BY <1>1, <3>3, <3>4, <3>5, KeepsAll
  <2> QED
    BY <2>1, <2>2
<1> QED
  BY <1>1, <1>2, Stays

LEMMA ResumeCuts ==
  ASSUME IInv, Cuts, NEW st \in Steps, Resume(st)
  PROVE  Cuts'
<1>1. halted /\ frames' = Settled(frames, st) /\ UNCHANGED <<body, scans, ifCounter, stopped, torn>>
  BY DEF Resume
<1>2. frames # <<>>
  BY <1>1 DEF IInv, FramesOK, Command
<1>3. frames \in Seq(Frame) /\ Depth = Len(frames) /\ Depth \in Nat /\ Depth >= 1
  BY <1>2, Facts
<1>4. Alike(frames, frames')
  BY <1>1, <1>2, <1>3, SettledAlike
<1>5. frames' \in Seq(Frame) /\ Keeps(frames')
  BY <1>2, <1>4, KeepsAlike
<1>6. Frm'.returned = Frm.returned
  <2>1. Depth' = Depth /\ Depth \in 1 .. Len(frames)
    BY <1>3, <1>4 DEF Alike, Depth
  <2>2. frames'[Depth].returned = frames[Depth].returned
    BY <1>4, <2>1 DEF Alike
  <2> QED
    BY <2>1, <2>2 DEF Frm
<1>7. Scn.mode = "if" => Going'
  <2>1. Scn.mode = "if" => Going
    BY <1>2, Facts DEF Cuts
  <2> QED
    BY <1>1, <1>6, <2>1 DEF Going
<1> QED
  BY <1>1, <1>2, <1>5, <1>7, Stays

LEMMA QuietCuts ==
  ASSUME IInv, Cuts, ClearAllBreakpoints \/ NewSession \/ UNCHANGED vars
  PROVE  Cuts'
<1>1. CASE NewSession
  <2>1. scans' = <<>> /\ ifCounter' = 0 /\ torn' = FALSE /\ body' = body
    BY <1>1 DEF NewSession, IInv
  <2>2. Stack(body', frames', <<>>, torn') /\ Paid(0, 0, FALSE)
    BY StackEmpty DEF Paid
  <2>3. body' \in Bodies
    BY <2>1 DEF Cuts
  <2> QED
    BY <2>1, <2>2, <2>3 DEF Cuts
<1>2. CASE ~NewSession
  <2>1. UNCHANGED <<body, frames, scans, ifCounter, stopped, torn>>
    BY <1>2 DEF ClearAllBreakpoints, vars
  <2>2. Scn' = Scn /\ Going' = Going
    BY <2>1, SameGoing DEF Scn
  <2> QED
    BY <2>1, <2>2 DEF Cuts
<1> QED
  BY <1>1, <1>2

LEMMA InitiallyCuts == Init => Cuts
<1> SUFFICES ASSUME Init PROVE Cuts
  OBVIOUS
<1>1. body \in Bodies /\ scans = <<>> /\ ifCounter = 0
  BY DEF Init
<1>2. Stack(body, frames, scans, torn) /\ Paid(ifCounter, 0, torn)
  BY <1>1, StackEmpty DEF Paid
<1> QED
  BY <1>1, <1>2 DEF Cuts

-----------------------------------------------------------------------------
(* The end of a parse.                                                     *)

Ending ==
  /\ frames # <<>> /\ (Going => Tok = "end" /\ Scn.mode # "pending")
  /\ UNCHANGED <<body, ifCounter>>
  /\ torn' = (torn \/ (~Going /\ (Scn.mode = "then" \/ Scn.counted)))

(* The end of the text, and of nothing that could be taken for it.         *)
LEMMA TextEnds ==
  ASSUME IInv, Cuts, frames # <<>>, Here = 0 \/ Tok = "end"
  PROVE  Scn.pos = Len(Scn.text) + 1
<1>1. /\ Scn.pos \in 1 .. Len(Scn.text) + 1 /\ Scn.text \in Seq(Nat) /\ body[Fn] \in Seq(Token) /\ Parse(body[Fn], Scn)
  BY Facts
<1>2. Piece(body[Fn], From(Scn.text), Scn.text, To(Scn.text))
  BY <1>1 DEF Parse, Text
<1> SUFFICES ASSUME Scn.pos \in 1 .. Len(Scn.text) PROVE FALSE
  BY <1>1
<1>3. Len(Scn.text) \in Nat /\ Scn.pos <= Len(Scn.text)
  BY <1>1
<1>4. Here = Scn.text[Scn.pos]
  BY <1>3 DEF Here
<1>5. PICK a \in Int, z \in Int : a = From(Scn.text) /\ z = To(Scn.text)
  <2>1. From(Scn.text) \in Int /\ To(Scn.text) \in Int
    <3>1. Scn.text # <<>> => Len(Scn.text) \in 1 .. Len(Scn.text) /\ Scn.text[Len(Scn.text)] \in Nat
      BY <1>1
    <3> QED
      BY <1>1, <3>1, FromInt DEF To
  <2> QED
    BY <2>1
<1>6. 0 <= a /\ z <= Len(body[Fn]) /\ Here \in a + 1 .. z
  BY <1>2, <1>4, <1>5 DEF Piece
<1>7. Here \in 1 .. Len(body[Fn]) /\ Here # 0
  BY <1>1, <1>5, <1>6
<1>8. body[Fn][Here] \in Token
  BY <1>1, <1>7
<1>9. Tok # "end"
  BY <1>7, <1>8 DEF Tok, Token
<1> QED
  BY <1>7, <1>9

LEMMA PaidOn ==
  ASSUME NEW n \in Int, NEW m \in Int, NEW d \in Int, NEW gone \in BOOLEAN, NEW lost \in BOOLEAN, gone => lost,
         Paid(n, m, lost), Paid(m, d, gone)
  PROVE  Paid(n, d, lost)
BY DEF Paid

LEMMA EndPaid ==
  ASSUME IInv, Cuts, Ending
  PROVE  torn' \in BOOLEAN /\ (torn => torn') /\ Paid(ifCounter, Scn.ifs, torn')
<1>1. /\ frames # <<>> /\ (Going => Tok = "end") /\ torn' = (torn \/ (~Going /\ (Scn.mode = "then" \/ Scn.counted)))
  BY DEF Ending
<1>2. /\ Scn.pos \in 1 .. Len(Scn.text) + 1 /\ Scn.text \in Seq(Nat) /\ body[Fn] \in Seq(Token) /\ Parse(body[Fn], Scn)
      /\ Owes(body[Fn], Scn) \in Nat /\ ifCounter \in Int /\ Scn.ifs \in Int /\ Scn \in Scan /\ torn \in BOOLEAN
      /\ BodyOf(body, frames, Scn) = body[Fn] /\ Innermost(body, frames, Scn, ifCounter, torn)
  BY <1>1, Facts
<1>3. Scn.mode = "if" => Going
  BY <1>1, Facts DEF Cuts
<1>4. ASSUME ~torn'
      PROVE  Owes(body[Fn], Scn) = 0
  <2>1. CASE Going
    <3>1. Scn.pos = Len(Scn.text) + 1
      BY <1>1, <2>1, TextEnds
    <3>2. /\ Level(body[Fn], Read(Scn.text, Scn.pos)) = Level(body[Fn], From(Scn.text))
          /\ Level(body[Fn], From(Scn.text)) \in Int
      <4>1. Text(body[Fn], Scn.text)
        BY <1>2 DEF Parse
      <4> QED
        BY <1>2, <3>1, <4>1, LevelEnd
    <3>3. Level(body[Fn], Read(Scn.text, Scn.pos)) - Level(body[Fn], From(Scn.text)) = 0
      BY <3>2
    <3>4. ~Scn.counted
      <4>1. ~(Scn.pos <= Len(Scn.text))
        BY <1>2, <3>1
      <4> QED
        BY <1>2, <4>1 DEF Parse
    <3> QED
      BY <3>3, <3>4 DEF Owes
  <2>2. CASE ~Going
    <3>1. Scn.mode \notin {"if", "then"} /\ ~Scn.counted
      BY <1>1, <1>3, <1>4, <2>2
    <3> QED
      BY <3>1 DEF Owes
  <2> QED
    BY <2>1, <2>2
<1>5. torn' \in BOOLEAN /\ (torn => torn')
  BY <1>1, <1>2
<1>6. PICK o \in Nat, i \in Int : o = Owes(body[Fn], Scn) /\ i = Scn.ifs
  BY <1>2
<1>7. ifCounter >= i + o /\ (~torn => ifCounter = i + o)
  BY <1>2, <1>6 DEF Innermost, Paid
<1>8. ifCounter >= i /\ (~torn' => ifCounter = i)
  <2>1. ~torn' => o = 0
    BY <1>4, <1>6
  <2>2. ~torn' => ~torn
    BY <1>5
  <2>3. ifCounter >= i
    BY <1>2, <1>6, <1>7
  <2>4. ASSUME ~torn' PROVE ifCounter = i
    BY <1>2, <1>6, <1>7, <2>1, <2>2, <2>4
  <2> QED
    BY <2>3, <2>4
<1> QED
  BY <1>5, <1>6, <1>8 DEF Paid

LEMMA OneLower ==
  ASSUME NEW n \in Nat, n >= 1, n # 1
  PROVE  n - 1 \in 1 .. n - 1 /\ n - 1 \in 1 .. n /\ n \in 1 .. n /\ (n - 1) + 1 = n /\ n - 1 < n
OBVIOUS

(* The parse that made this one goes on.                                   *)
LEMMA Beneath ==
  ASSUME IInv, Cuts, Ending, Len(scans) # 1
  PROVE  LET s == scans[Len(scans) - 1]
             b == BodyOf(body, frames, s)
         IN /\ Below = s /\ s \in Scan /\ Len(scans) - 1 \in 1 .. Len(scans) - 1
            /\ Closed \in Seq(Scan) /\ Closed # <<>> /\ Closed[Len(Closed)] = s
            /\ Waits(b, s, Scn.use) /\ Paid(ifCounter, s.ifs + Owes(b, s), torn') /\ AtWork(b, s, ifCounter)
            /\ Fits(body, frames, s) /\ Over(s, Scn) /\ s.mode # "if"
<1> DEFINE n == Len(scans)
           s == scans[Len(scans) - 1]
           b == BodyOf(body, frames, s)
<1>1. frames # <<>>
  BY DEF Ending
<1>2. /\ scans \in Seq(Scan) /\ scans # <<>> /\ Scn = scans[n] /\ n \in Nat /\ n >= 1 /\ ifCounter \in Int /\ torn \in BOOLEAN
      /\ Scn.ifs \in Int /\ Stack(body, frames, scans, torn)
  BY <1>1, Facts
<1>3. n - 1 \in 1 .. n - 1 /\ n - 1 \in 1 .. n /\ n \in 1 .. n /\ (n - 1) + 1 = n /\ n - 1 < n
  BY <1>2, OneLower
<1>4. Fits(body, frames, s) /\ Makes(body, frames, s, Scn, torn) /\ Over(s, Scn)
  BY <1>2, <1>3 DEF Stack
<1>5. s \in Scan /\ s.pos \in 1 .. Len(s.text) + 1
  BY <1>2, <1>3 DEF IInv, ScansOK
<1>6. b \in Seq(Token) /\ Parse(b, s)
  <2>1. s.depth \in 1 .. Len(frames) /\ Parse(b, s)
    BY <1>4 DEF Fits
  <2>2. frames[s.depth].fn \in Functions
    <3>1. PICK d : d = s.depth /\ d \in 1 .. Len(frames)
      BY <2>1
    <3>2. frames \in Seq(Frame)
      BY DEF IInv, FramesOK
    <3>3. frames[d] \in Frame
      BY <3>1, <3>2
    <3> QED
      BY <3>1, <3>3 DEF Frame
  <2> QED
    BY <2>1, <2>2, BodiesAssumption DEF BodyOf, Cuts
<1>7. /\ Closed \in Seq(Scan) /\ Len(Closed) = n - 1 /\ \A i \in 1 .. n - 1 : Closed[i] = scans[i]
  BY <1>2, CutSeq DEF Closed
<1>8. Closed # <<>> /\ Closed[Len(Closed)] = s
  <2>1. Len(Closed) # 0
    BY <1>3, <1>7
  <2> QED
    BY <1>3, <1>7, <2>1
<1> HIDE DEF n
<1>9. Below = s
  BY DEF Below
<1>10. s.text \in Seq(Nat) /\ s.ifs \in Int
  BY <1>5 DEF Scan
<1> HIDE DEF s, b
<1>11. Waits(b, s, Scn.use) /\ Paid(Scn.ifs, s.ifs + Owes(b, s), torn)
  BY <1>4 DEF Makes, b
<1>12. Owes(b, s) \in Nat
  BY <1>5, <1>6, <1>10, OwesNat
<1>13. Paid(ifCounter, s.ifs + Owes(b, s), torn')
  <2>1. s.ifs + Owes(b, s) \in Int
    BY <1>10, <1>12
  <2>2. torn' \in BOOLEAN /\ (torn => torn') /\ Paid(ifCounter, Scn.ifs, torn')
    BY EndPaid
  <2> QED
    BY <1>2, <1>11, <2>1, <2>2, PaidOn
<1>14. AtWork(b, s, ifCounter) /\ s.mode # "if"
  BY <1>11 DEF Waits, AtWork
<1> QED
  BY <1>3, <1>4, <1>5, <1>7, <1>8, <1>9, <1>11, <1>13, <1>14 DEF n, s, b

(* The frames gs leave what the parses under the innermost one rest on.    *)
KeepsBelow(gs) ==
  \A i \in 1 .. Len(scans) - 1 :
    /\ scans[i].depth \in 1 .. Len(gs) /\ gs[scans[i].depth].fn = frames[scans[i].depth].fn
    /\ Sides(BodyOf(body, frames, scans[i]), From(scans[i].text)) \subseteq gs[scans[i].depth].taken

LEMMA ClosedStack ==
  ASSUME IInv, Cuts, Ending, NEW gs \in Seq(Frame), KeepsBelow(gs)
  PROVE  Stack(body, gs, Closed, torn')
<1>1. frames # <<>>
  BY DEF Ending
<1>2. /\ scans \in Seq(Scan) /\ scans # <<>> /\ frames \in Seq(Frame) /\ torn \in BOOLEAN
      /\ Stack(body, frames, scans, torn)
  BY <1>1, Facts
<1>3. /\ Closed \in Seq(Scan) /\ Len(Closed) = Len(scans) - 1 /\ \A i \in 1 .. Len(scans) - 1 : Closed[i] = scans[i]
  BY <1>2, CutSeq DEF Closed
<1>4. Stack(body, frames, Closed, torn)
  BY <1>2, StackCut DEF Closed
<1>5. torn' \in BOOLEAN /\ (torn => torn')
  BY EndPaid
<1>6. \A i \in 1 .. Len(Closed) :
        /\ Closed[i].depth \in 1 .. Len(gs) /\ gs[Closed[i].depth].fn = frames[Closed[i].depth].fn
        /\ Sides(BodyOf(body, frames, Closed[i]), From(Closed[i].text)) \subseteq gs[Closed[i].depth].taken
  BY <1>3 DEF KeepsBelow
<1> QED
  BY SMTT(30), <1>2, <1>3, <1>4, <1>5, <1>6, StackKept

LEMMA Closes ==
  ASSUME IInv, Cuts, Ending, scans' = Closed, frames' \in Seq(Frame), KeepsBelow(frames')
  PROVE  Cuts'
<1>1. Stack(body, frames', Closed, torn')
  BY ClosedStack
<1>2. frames # <<>> /\ body' = body /\ ifCounter' = ifCounter
  BY DEF Ending
<1>3. body \in Bodies
  BY DEF Cuts
<1>4. CASE Len(scans) = 1
  <2>1. scans \in Seq(Scan) /\ scans # <<>> /\ Scn = scans[1] /\ Stack(body, frames, scans, torn) /\ Scn.ifs \in Int /\ Scn.ifs >= 0
        /\ ifCounter \in Int /\ torn \in BOOLEAN
    BY <1>2, <1>4, Facts
  <2>2. Closed = <<>>
    <3>1. Closed \in Seq(Scan) /\ Len(Closed) = Len(scans) - 1
      BY <2>1, CutSeq DEF Closed
    <3>2. Len(Closed) = 0
      BY <1>4, <3>1
    <3> QED
      BY <3>1, <3>2
  <2>3. Paid(Scn.ifs, 0, torn)
    BY <2>1 DEF Stack, Paid
  <2>4. Paid(ifCounter, 0, torn')
    <3>1. torn' \in BOOLEAN /\ (torn => torn') /\ Paid(ifCounter, Scn.ifs, torn')
      BY EndPaid
    <3> QED
      BY <2>1, <2>3, <3>1, PaidOn
  <2> QED
    BY <1>1, <1>2, <1>3, <2>2, <2>4 DEF Cuts
<1>5. CASE Len(scans) # 1
  <2> DEFINE s == scans[Len(scans) - 1]
             b == BodyOf(body, frames, s)
  <2>1. /\ s \in Scan /\ Closed \in Seq(Scan) /\ Closed # <<>> /\ Closed[Len(Closed)] = s /\ Len(scans) - 1 \in 1 .. Len(scans) - 1
        /\ Paid(ifCounter, s.ifs + Owes(b, s), torn') /\ AtWork(b, s, ifCounter) /\ s.mode # "if"
    BY <1>5, Beneath
  <2>2. BodyOf(body, frames', s) = b
    BY <2>1 DEF KeepsBelow, BodyOf
  <2> HIDE DEF s, b
  <2>3. Innermost(body, frames', s, ifCounter, torn')
    BY <2>1, <2>2 DEF Innermost
  <2>4. Scn' = s /\ scans' # <<>>
    BY <2>1 DEF Scn
  <2> QED
    BY <1>1, <1>2, <1>3, <2>1, <2>3, <2>4 DEF Cuts
<1> QED
  BY <1>4, <1>5

(* All parses but that of a body are made by one of the same function.     *)
LEMMA MadeHere ==
  ASSUME IInv, Cuts, Ending, Scn.use # "body"
  PROVE  Len(scans) # 1 /\ scans[Len(scans) - 1].depth = Depth
<1>1. frames # <<>>
  BY DEF Ending
<1>2. scans \in Seq(Scan) /\ scans # <<>> /\ Scn = scans[Len(scans)] /\ Len(scans) \in Nat /\ Len(scans) >= 1 /\ Scn.depth = Depth
  BY <1>1, Facts
<1>3. PICK n \in Nat : n = Len(scans) /\ n >= 1
  BY <1>2
<1>4. Layer(n)
  <2>1. n \in 1 .. Len(scans)
    BY <1>3
  <2> QED
    BY <2>1 DEF IInv, ScansOK, Layers
<1>5. n # 1
  BY <1>2, <1>3, <1>4 DEF Layer
<1>6. n > 1
  BY <1>3, <1>5
<1>7. scans[n - 1].depth = Depth
  BY <1>2, <1>3, <1>4, <1>6 DEF Layer
<1> QED
  BY <1>3, <1>5, <1>7

LEMMA KeptBelow ==
  ASSUME IInv, Cuts, frames # <<>>, NEW gs, Keeps(gs)
  PROVE  KeepsBelow(gs)
<1>1. Len(scans) \in Nat
  BY Facts
<1>2. \A i \in 1 .. Len(scans) - 1 : i \in 1 .. Len(scans)
  BY <1>1
<1> QED
  BY <1>2 DEF Keeps, KeepsBelow

(* A loop's condition or body is parsed again.                             *)
LEMMA Repeats ==
  ASSUME IInv, Cuts, Ending, frames' = frames, Scn.use \in {"loop", "again"},
         NEW use \in {"loop", "again"}, NEW text, text \in {Below.cond, Below.yes}, scans' = InsteadOf(use, text)
  PROVE  Cuts'
<1>1. frames # <<>> /\ body' = body /\ ifCounter' = ifCounter
  BY DEF Ending
<1>2. /\ frames \in Seq(Frame) /\ Depth = Len(frames) /\ Depth \in Nat /\ Depth >= 1 /\ ifCounter \in Int /\ body[Fn] \in Seq(Token)
      /\ ifCounter >= Owes(body[Fn], Scn) /\ Owes(body[Fn], Scn) \in Nat
  BY <1>1, Facts
<1> DEFINE s == scans[Len(scans) - 1]
<1>3. Len(scans) # 1 /\ s.depth = Depth
  BY MadeHere
<1>4. BodyOf(body, frames, s) = body[Fn]
  BY <1>3 DEF BodyOf, Fn, Frm
<1>5. /\ Below = s /\ s \in Scan /\ Closed \in Seq(Scan) /\ Closed # <<>> /\ Closed[Len(Closed)] = s
      /\ Waits(body[Fn], s, Scn.use) /\ Paid(ifCounter, s.ifs + Owes(body[Fn], s), torn') /\ Fits(body, frames, s)
  BY <1>3, <1>4, Beneath
<1> HIDE DEF s
<1>6. text \in Seq(Nat) /\ s.text \in Seq(Nat)
  BY <1>5 DEF Scan
<1>7. /\ s.text # <<>> /\ Within(body[Fn], From(s.text), s.cond) /\ Within(body[Fn], From(s.text), s.yes)
      /\ Waits(body[Fn], s, use)
  BY <1>5 DEF Waits
<1>8. Within(body[Fn], From(s.text), text)
  BY <1>5, <1>7
<1>9. Sides(body[Fn], From(s.text)) \subseteq frames[Depth].taken
  BY <1>3, <1>4, <1>5 DEF Fits
<1>10. Sides(body[Fn], From(text)) \subseteq frames[Depth].taken
  <2>1. CASE text = <<>>
    BY <2>1, NoSides
  <2>2. CASE text # <<>>
    BY <1>8, <1>9, <2>2 DEF Within
  <2> QED
    BY <2>1, <2>2
<1> DEFINE t == NewScan(use, Depth, text)
<1>11. /\ t \in Scan /\ t.use = use /\ t.depth = Depth /\ t.text = text /\ t.pos = 1
       /\ t.mode = "initial" /\ t.counted = FALSE /\ t.ifs = ifCounter
  <2>1. use \in Uses /\ ifCounter' \in Int
    BY <1>1, <1>2 DEF Uses
  <2> QED
    BY <1>1, <1>2, <1>6, <2>1, NewScanSet DEF NewScan
<1>12. scans' = Append(Closed, t)
  BY DEF InsteadOf
<1> HIDE DEF t
<1>13. BodyOf(body, frames, t) = body[Fn] /\ t.depth \in 1 .. Len(frames)
  BY <1>2, <1>11 DEF BodyOf, Fn, Frm
<1>14. Fresh(frames, t, ifCounter)
  BY <1>2, <1>8, <1>10, <1>11, <1>13 DEF Fresh, Within
<1>15. Makes(body, frames, s, t, torn')
  BY <1>4, <1>5, <1>7, <1>11 DEF Makes
<1>16. Over(s, t)
  <2>1. From(s.text) \in Int /\ From(text) \in Int
    BY <1>6, FromInt
  <2> QED
    BY <1>2, <1>3, <1>7, <1>8, <1>11, <2>1 DEF Over, Within, s
<1>17. Stack(body, frames, Closed, torn')
  BY <1>1, <1>2, SameFrames, KeptBelow, ClosedStack
<1>18. Stack(body, frames, Append(Closed, t), torn') /\ Innermost(body, frames, t, ifCounter, torn')
  <2>1. ifCounter >= 0 /\ torn' \in BOOLEAN
    BY <1>2, EndPaid
  <2> QED
    BY ONLY <1>2, <1>5, <1>11, <1>14, <1>15, <1>16, <1>17, <2>1, FreshOpens
<1>19. t.mode # "if" /\ body \in Bodies
  BY <1>11 DEF Cuts
<1> QED
  BY <1>1, <1>5, <1>11, <1>12, <1>18, <1>19, CutsAfter

LEMMA EndBodyCuts ==
  ASSUME IInv, Cuts, Ending, Scn.use = "body", EndBody, scans' = Closed
  PROVE  Cuts'
<1>1. frames # <<>> /\ frames' = SubSeq(frames, 1, Depth - 1)
  BY DEF Ending, EndBody
<1>2. /\ frames \in Seq(Frame) /\ Depth = Len(frames) /\ Depth \in Nat /\ Depth >= 1
      /\ scans \in Seq(Scan) /\ Scn = scans[Len(scans)] /\ Len(scans) \in Nat /\ Len(scans) >= 1 /\ Scn.depth = Depth
      /\ Stack(body, frames, scans, torn)
  BY <1>1, Facts
<1>3. /\ frames' \in Seq(Frame) /\ Len(frames') = Depth - 1
      /\ \A i \in 1 .. Depth - 1 : frames'[i] = frames[i]
  <2>1. \A i \in 1 .. Depth - 1 : frames[i] \in Frame
    BY <1>2
  <2>2. 1 \in Int /\ Depth - 1 \in Int
    BY <1>2
  <2>3. /\ SubSeq(frames, 1, Depth - 1) \in Seq(Frame)
        /\ Len(SubSeq(frames, 1, Depth - 1)) = IF 1 <= Depth - 1 THEN Depth - 1 - 1 + 1 ELSE 0
        /\ \A i \in 1 .. Depth - 1 - 1 + 1 : SubSeq(frames, 1, Depth - 1)[i] = frames[1 + i - 1]
    BY <2>1, <2>2, SubSeqProperties
  <2>4. \A i \in 1 .. Depth - 1 : 1 + i - 1 = i
    OBVIOUS
  <2> QED
    BY <1>1, <1>2, <2>3, <2>4
<1>4. KeepsBelow(frames')
  <2> SUFFICES ASSUME NEW i \in 1 .. Len(scans) - 1
               PROVE  /\ scans[i].depth \in 1 .. Len(frames') /\ frames'[scans[i].depth].fn = frames[scans[i].depth].fn
                      /\ Sides(BodyOf(body, frames, scans[i]), From(scans[i].text)) \subseteq frames'[scans[i].depth].taken
    BY DEF KeepsBelow
  <2>1. PICK n \in Nat : n = Len(scans) /\ n > 1 /\ i \in 1 .. n - 1
    BY <1>2
  <2>2. scans[n - 1].depth = Depth - 1
    <3>1. Layer(n)
      <4>1. n \in 1 .. Len(scans)
        BY <2>1
      <4> QED
        BY <4>1 DEF IInv, ScansOK, Layers
    <3>2. Scn = scans[n] /\ n > 1
      BY <1>2, <2>1
    <3>3. scans[n].depth = scans[n - 1].depth + 1
      BY <3>1, <3>2 DEF Layer
    <3>4. scans[n - 1] \in Scan
      <4>1. n - 1 \in 1 .. Len(scans)
        BY <2>1
      <4> QED
        BY <1>2, <4>1
    <3>5. PICK d \in Nat : d = scans[n - 1].depth
      BY <3>4 DEF Scan
    <3>6. PICK m \in Nat : m = Depth
      BY <1>2
    <3>7. m = d + 1
      <4>1. Scn.depth = d + 1
        BY <3>2, <3>3, <3>5
      <4> QED
        BY ONLY <1>2, <3>6, <4>1
    <3> QED
      BY ONLY <3>5, <3>6, <3>7, d \in Nat, m \in Nat
  <2>3. scans[i].depth <= Depth - 1
    <3>1. CASE i = n - 1
      BY <1>2, <2>2, <3>1
    <3>2. CASE i # n - 1
      <4>1. i \in 1 .. Len(scans) /\ n - 1 \in 1 .. Len(scans) /\ i < n - 1
        BY <2>1, <3>2
      <4>2. Over(scans[i], scans[n - 1])
        BY <1>2, <4>1 DEF Stack
      <4> QED
        BY <2>2, <4>2 DEF Over
    <3> QED
      BY <3>1, <3>2
  <2>4. /\ scans[i].depth \in 1 .. Len(frames)
        /\ Sides(BodyOf(body, frames, scans[i]), From(scans[i].text)) \subseteq frames[scans[i].depth].taken
    <3>1. i \in 1 .. Len(scans)
      BY <2>1
    <3>2. Fits(body, frames, scans[i])
      BY <1>2, <3>1 DEF Stack
    <3> QED
      BY <3>2 DEF Fits
  <2>5. PICK d \in 1 .. Len(frames) : d = scans[i].depth
    BY <2>4
  <2>6. d \in 1 .. Depth - 1
    BY <1>2, <2>3, <2>5
  <2>7. d \in 1 .. Len(frames') /\ frames'[d] = frames[d]
    BY <1>3, <2>6
  <2> QED
    BY <2>4, <2>5, <2>7
<1> QED
  BY <1>3, <1>4, Closes

LEMMA SameFrame ==
  ASSUME IInv, Cuts, frames # <<>>
  PROVE  Alike(frames, WithFrame(Frm))
<1>1. Frm \in Frame /\ frames \in Seq(Frame) /\ Depth = Len(frames)
  BY Inside, Facts
<1>2. /\ WithFrame(Frm) \in Seq(Frame) /\ Len(WithFrame(Frm)) = Depth
      /\ \A i \in 1 .. Depth : WithFrame(Frm)[i] = IF i = Depth THEN Frm ELSE frames[i]
  BY <1>1, WithFrameIs
<1>3. \A i \in 1 .. Depth : WithFrame(Frm)[i] = frames[i]
  BY <1>2 DEF Frm
<1> QED
  BY <1>1, <1>2, <1>3 DEF Alike

LEMMA EndBranchCuts ==
  ASSUME IInv, Cuts, Ending, Scn.use = "branch", EndBranch, scans' = Closed
  PROVE  Cuts'
<1>1. frames # <<>>
  BY DEF Ending
<1>2. frames' \in Seq(Frame) /\ Keeps(frames')
  <2>1. CASE Below.else /\ Below.backup
    <3>1. Raise(Frm, LineAfter)
      BY <2>1 DEF EndBranch
    <3>2. Below \in Scan
      BY MadeHere, Beneath
    <3>3. LineAfter \in Nat
      <4>1. Below.line \in Nat /\ Below.yes \in Seq(Nat) /\ Below.no \in Seq(Nat)
        BY <3>2 DEF Scan
      <4>2. Newlines(Below.yes) \in Nat /\ Newlines(Below.no) \in Nat
        BY <4>1, NewlinesNat
      <4> QED
        BY <4>1, <4>2 DEF LineAfter
    <3>4. Frm \in Frame /\ FramesOK
      BY <1>1, Inside DEF IInv
    <3>5. Alike(WithFrame(Frm), frames')
      BY <1>1, <3>1, <3>3, <3>4, RaisedAlike
    <3>6. Alike(frames, frames')
      BY <1>1, <3>4, <3>5, SameFrame, AlikeTrans
    <3> QED
      BY <1>1, <3>6, KeepsAlike
  <2>2. CASE ~(Below.else /\ Below.backup)
    <3>1. frames' = frames
      BY <2>2 DEF EndBranch
    <3> QED
      BY <1>1, <3>1, SameFrames
  <2> QED
    BY <2>1, <2>2
<1> QED
  BY <1>1, <1>2, KeptBelow, Closes

LEMMA EndScanCuts ==
  ASSUME IInv, Cuts, EndScan
  PROVE  Cuts'
<1>1. Ending /\ frames # <<>>
  BY DEF EndScan, Ending, Parsing
<1>2. ASSUME frames' = frames, scans' = Closed
      PROVE  Cuts'
  BY <1>1, <1>2, SameFrames, KeptBelow, Closes
<1>3. ASSUME frames' = frames, Scn.use \in {"loop", "again"}, NEW use \in {"loop", "again"}, NEW text,
             text \in {Below.cond, Below.yes}, scans' = InsteadOf(use, text)
      PROVE  Cuts'
  BY <1>1, <1>3, Repeats
<1>4. CASE Scn.use = "body" /\ EndBody /\ scans' = Closed
  BY <1>1, <1>4, EndBodyCuts
<1>5. CASE Scn.use = "branch" /\ EndBranch /\ scans' = Closed
  BY <1>1, <1>5, EndBranchCuts
<1>6. CASE Scn.use = "condition" /\ Evaluated /\ scans' = Closed /\ UNCHANGED <<frames, stopped, debugger>>
  BY <1>2, <1>6
<1>7. CASE /\ Scn.use = "loop" /\ Frm.returned
           /\ scans' = Closed
           /\ UNCHANGED <<frames, condition, stopped, debugger>>
  BY <1>2, <1>7
<1>8. CASE /\ Scn.use = "loop" /\ ~Frm.returned
           /\ scans' = InsteadOf("again", Below.cond) /\ stopped' = FALSE
           /\ UNCHANGED <<frames, condition, debugger>>
  <2>1. "again" \in {"loop", "again"} /\ Below.cond \in {Below.cond, Below.yes} /\ Scn.use \in {"loop", "again"}
    BY <1>8
  <2> QED
    BY <1>3, <1>8, <2>1
<1>9. CASE /\ Scn.use = "again" /\ Evaluated
           /\ IF condition' THEN scans' = InsteadOf("loop", Below.yes) /\ stopped' = FALSE
                            ELSE scans' = Closed /\ UNCHANGED stopped
           /\ UNCHANGED <<frames, debugger>>
  <2>1. "loop" \in {"loop", "again"} /\ Below.yes \in {Below.cond, Below.yes} /\ Scn.use \in {"loop", "again"} /\ frames' = frames
    BY <1>9
  <2>2. CASE condition'
    <3>1. scans' = InsteadOf("loop", Below.yes)
      BY <1>9, <2>2
    <3> QED
      BY <1>3, <2>1, <3>1
  <2>3. CASE ~condition'
    <3>1. scans' = Closed
      BY <1>9, <2>3
    <3> QED
      BY <1>2, <2>1, <3>1
  <2> QED
    BY <2>2, <2>3
<1> QED
  BY <1>4, <1>5, <1>6, <1>7, <1>8, <1>9 DEF EndScan

LEMMA StepCuts ==
  ASSUME IInv, Cuts, [Next]_vars
  PROVE  Cuts'
<1>1. CASE \E f \in Functions : Start(f)
  BY <1>1, StartCuts
<1>2. CASE \E st \in Steps : Resume(st)
  BY <1>2, ResumeCuts
<1>3. CASE RunTrueBlock \/ SkipTrueBlock \/ RunFalseBlock
  BY <1>3, BlockCuts
<1>4. CASE BadStatement \/ Return
  BY <1>4, ReturnCuts
<1>5. CASE ClearAllBreakpoints \/ NewSession \/ UNCHANGED vars
  BY <1>5, QuietCuts
<1>6. CASE Call \/ Newline \/ Statement \/ If \/ ConditionChar
  BY <1>6, CallCuts, NewlineCuts, StatementCuts, IfCuts, ConditionCuts
<1>7. CASE Then \/ IfLine \/ Else \/ While \/ Loop
  BY <1>7, ThenCuts, IfLineCuts, ElseCuts, WhileCuts, LoopCuts
<1>8. CASE LoopLine \/ RunLoop \/ EndScan
  BY <1>8, LoopLineCuts, RunLoopCuts, EndScanCuts
<1> QED
  BY <1>1, <1>2, <1>3, <1>4, <1>5, <1>6, <1>7, <1>8 DEF Next

LEMMA AlwaysCuts == Spec => [](IInv /\ Cuts)
<1>1. IInv /\ Cuts /\ [Next]_vars => (IInv /\ Cuts)'
  <2> SUFFICES ASSUME IInv, Cuts, [Next]_vars PROVE (IInv /\ Cuts)'
    OBVIOUS
  <2>1. IInv'
    BY StepKept
  <2>2. Cuts'
    BY StepCuts
  <2> QED
    BY <2>1, <2>2
<1>2. Init => IInv /\ Cuts
  BY Initially, InitiallyCuts
<1> QED
  BY <1>1, <1>2, PTL DEF Spec

LEMMA Matched == IInv /\ Cuts => IfsMatched
<1> SUFFICES ASSUME IInv, Cuts PROVE IfsMatched
  OBVIOUS
<1>1. ifCounter \in Int /\ torn \in BOOLEAN /\ (scans = <<>> <=> frames = <<>>)
  BY DEF IInv, RestOK
<1>2. ASSUME frames = <<>>
      PROVE  ifCounter >= 0 /\ (~torn => ifCounter = 0)
  BY <1>1, <1>2 DEF Cuts, Paid
<1>3. ASSUME frames # <<>>
      PROVE  ifCounter >= 0
  <2>1. PICK o \in Nat : o = Owes(body[Fn], Scn) /\ ifCounter >= o
    BY <1>3, Facts
  <2> QED
    BY <1>1, <2>1
<1>4. ASSUME frames # <<>>, Here = 0, Scn.mode = "then"
      PROVE  Scn.ifs # 0 \/ torn
  <2>1. /\ Scn.pos \in 1 .. Len(Scn.text) + 1 /\ Scn.text \in Seq(Nat) /\ body[Fn] \in Seq(Token) /\ Parse(body[Fn], Scn)
        /\ Scn \in Scan /\ BodyOf(body, frames, Scn) = body[Fn] /\ Innermost(body, frames, Scn, ifCounter, torn)
        /\ Scn.ifs \in Int
    BY <1>4, Facts
  <2>2. Scn.pos = Len(Scn.text) + 1 /\ Text(body[Fn], Scn.text)
    BY <1>4, <2>1, TextEnds DEF Parse
  <2>3. PICK l \in Int : l = Level(body[Fn], From(Scn.text)) /\ l = Level(body[Fn], Read(Scn.text, Scn.pos))
    BY <2>1, <2>2, LevelEnd
  <2>4. Owes(body[Fn], Scn) = 0
    BY <1>4, <2>3 DEF Owes
  <2>5. ~Branches(body[Fn], Scn, Read(Scn.text, Scn.pos))
    <3>1. Scn.at \in From(Scn.text) + 1 .. Read(Scn.text, Scn.pos) /\ Level(body[Fn], Scn.at) = l + 1
      BY <1>4, <2>1, <2>3 DEF Parse, InThen
    <3>2. Read(Scn.text, Scn.pos) \in Int
      <4>1. Scn.pos # 1 => Scn.pos - 1 \in 1 .. Len(Scn.text)
        BY <2>1
      <4>2. Scn.pos # 1 => Scn.text[Scn.pos - 1] \in Nat
        BY <2>1, <4>1
      <4> QED
        BY <2>1, <4>2, FromInt DEF Read
    <3>3. Read(Scn.text, Scn.pos) \in Scn.at .. Read(Scn.text, Scn.pos)
      BY <3>1, <3>2
    <3>4. ~(Level(body[Fn], Read(Scn.text, Scn.pos)) >= Level(body[Fn], Scn.at))
      BY <2>3, <3>1
    <3> QED
      BY <3>3, <3>4 DEF Branches
  <2>6. ifCounter > 0
    <3>1. AtWork(body[Fn], Scn, ifCounter)
      BY <2>1 DEF Innermost
    <3>2. ifCounter > Level(body[Fn], Read(Scn.text, Scn.pos)) - Level(body[Fn], From(Scn.text))
      BY <1>4, <2>5, <3>1 DEF AtWork
    <3> QED
      BY <1>1, <2>3, <3>2
  <2>7. ~torn => ifCounter = Scn.ifs
    <3>1. ~torn => ifCounter = Scn.ifs + Owes(body[Fn], Scn)
      BY <2>1 DEF Innermost, Paid
    <3> QED
      BY <2>1, <2>4, <3>1
  <2> QED
    BY <2>6, <2>7
<1> QED
  BY <1>2, <1>3, <1>4 DEF IfsMatched

-----------------------------------------------------------------------------
(* The third invariant: the line of a function.  In a plain body nothing is*)
(* left out of a text, and a parse of one is for the body, for a branch or *)
(* for a condition without newlines.                                       *)

(* y lists all positions behind a up to z.                                 *)
Full(y, a, z) == a <= z /\ Len(y) = z - a /\ \A k \in 1 .. Len(y) : y[k] = a + k

(* The branches, up to position r.                                         *)
Gathered(b, s, r) ==
  IF s.else
  THEN LET e == s.at + Len(s.yes) + 1
       IN e <= r /\ b[e] = "else" /\ Full(s.yes, s.at, e - 1) /\ Full(s.no, e, r)
  ELSE Full(s.yes, s.at, r) /\ s.no = <<>>

Straight(b, s) ==
  /\ s.use \in {"body", "branch", "condition"} /\ s.mode \in {"initial", "if", "then"}
  /\ s.use = "condition" =>
       s.mode = "initial" /\ \A k \in 1 .. Len(s.text) : b[s.text[k]] \notin Structure \cup {"nl"}
  /\ s.use # "condition" => Full(s.text, From(s.text), To(s.text))
  /\ s.mode = "then" => Gathered(b, s, Read(s.text, s.pos))

(* What the debugger knows of frame f at position p is right.              *)
Told(b, f, p) == f.inner = TrueLine(b, p) /\ (f.announced = f.inner \/ OnLineOfElse(b, p))

Place(s) == IF s.mode = "then" THEN s.at ELSE Read(s.text, s.pos)

Count(b, y) == Cardinality({k \in 1 .. Len(y) : b[y[k]] \in {"nl", "comment"}})

(* s has made a parse of y, a branch: it has kept what the line will be, or*)
(* the end of the branch is on it.                                         *)
Awaits(b, f, s, y) ==
  LET r == Read(s.text, s.pos)
  IN /\ s.mode = "initial"
     /\ IF s.else /\ s.backup THEN s.line + Count(b, s.yes) + Count(b, s.no) = TrueLine(b, r)
        ELSE IF y = <<>> THEN Told(b, f, r)
        ELSE To(y) <= r /\ TrueLine(b, To(y)) = TrueLine(b, r)

(* Otherwise the line is that of its place; the text of a condition and an *)
(* empty branch may lie elsewhere.                                         *)
Knows(b, f, s) == s.use = "body" \/ s.text # <<>> => Told(b, f, Place(s))

(* Parse i may go on: only a loop goes on after an error, st is stopped.   *)
Live(fs, ss, st, i) ==
  ~fs[ss[i].depth].returned /\ (st => \E j \in i + 1 .. Len(ss) : ss[j].use \in {"loop", "again"})

Row(bd, fs, ss, st, gone, i) ==
  LET s == ss[i]
      b == BodyOf(bd, fs, s)
      f == fs[s.depth]
  IN /\ s.use = "branch" => s.ifs = 0
     /\ i < Len(ss) => s.text # <<>>
     /\ Plain(b) =>
          /\ Straight(b, s)
          /\ i < Len(ss) /\ s.use = "condition" => ss[i + 1].use = "body"
          /\ ~gone /\ Live(fs, ss, st, i) /\ s.use # "condition" =>
               IF i < Len(ss) /\ ss[i + 1].use = "branch" THEN Awaits(b, f, s, ss[i + 1].text) ELSE Knows(b, f, s)

Rows(bd, fs, ss, st, gone) == \A i \in 1 .. Len(ss) : Row(bd, fs, ss, st, gone, i)

LinesKept == Rows(body, frames, scans, stopped, torn)

-----------------------------------------------------------------------------
(* Lines of a body, and texts without gaps.                                *)

LEMMA LineNext ==
  ASSUME NEW b \in Seq(Token), NEW p \in 1 .. Len(b)
  PROVE  /\ TrueLine(b, p) \in Nat /\ TrueLine(b, p - 1) \in Nat
         /\ TrueLine(b, p) = TrueLine(b, p - 1) + (IF b[p] = "nl" THEN 1 ELSE 0)
BY CountNext DEF TrueLine

LEMMA LineStart ==
  ASSUME NEW b \in Seq(Token)
  PROVE  TrueLine(b, 0) = 0
<1>1. {k \in 1 .. 0 : b[k] = "nl"} = {}
  OBVIOUS
<1> QED
  BY <1>1, FS_EmptySet DEF TrueLine

LEMMA LineType ==
  ASSUME NEW b \in Seq(Token), NEW p \in 0 .. Len(b)
  PROVE  TrueLine(b, p) \in Nat
<1>1. CASE p = 0
  BY <1>1, LineStart
<1>2. CASE p # 0
  BY <1>2, LineNext
<1> QED
  BY <1>1, <1>2

LEMMA ToldOn ==
  ASSUME NEW b \in Seq(Token), NEW f, NEW p \in 0 .. Len(b), NEW q \in p .. Len(b),
         Told(b, f, p), TrueLine(b, q) = TrueLine(b, p)
  PROVE  Told(b, f, q)
<1>1. OnLineOfElse(b, p) => OnLineOfElse(b, q)
  <2> SUFFICES ASSUME NEW k \in 1 .. p, b[k] = "else", TrueLine(b, k) = TrueLine(b, p)
               PROVE  OnLineOfElse(b, q)
    BY DEF OnLineOfElse
  <2>1. k \in 1 .. q
    OBVIOUS
  <2> QED
    BY <2>1 DEF OnLineOfElse
<1> QED
  BY <1>1 DEF Told

LEMMA ToldNext ==
  ASSUME NEW b \in Seq(Token), NEW f, NEW r \in Nat, r + 1 <= Len(b), Told(b, f, r), b[r + 1] # "nl"
  PROVE  Told(b, f, r + 1)
<1>1. r \in 0 .. Len(b) /\ r + 1 \in r .. Len(b) /\ r + 1 \in 1 .. Len(b) /\ (r + 1) - 1 = r
  OBVIOUS
<1>2. TrueLine(b, r + 1) = TrueLine(b, r)
  BY <1>1, LineNext
<1> QED
  BY <1>1, <1>2, ToldOn

LEMMA FullEmpty ==
  ASSUME NEW a \in Nat
  PROVE  Full(<<>>, a, a)
BY DEF Full

LEMMA FullGrows ==
  ASSUME NEW y \in Seq(Nat), NEW a \in Nat, NEW r \in Nat, Full(y, a, r)
  PROVE  Full(Append(y, r + 1), a, r + 1)
<1>1. PICK n \in Nat : n = Len(y) /\ n = r - a /\ a <= r /\ \A k \in 1 .. n : y[k] = a + k
  BY DEF Full
<1>2. Len(Append(y, r + 1)) = n + 1 /\ Append(y, r + 1)[n + 1] = r + 1
      /\ \A k \in 1 .. n : Append(y, r + 1)[k] = y[k]
  <2>1. r + 1 \in Nat /\ Len(y) = n
    BY <1>1
  <2> QED
    BY <2>1, AppendProperties
<1>3. \A k \in 1 .. n + 1 : Append(y, r + 1)[k] = a + k
  <2> SUFFICES ASSUME NEW k \in 1 .. n + 1 PROVE Append(y, r + 1)[k] = a + k
    OBVIOUS
  <2>1. CASE k = n + 1
    BY <1>1, <1>2, <2>1
  <2>2. CASE k # n + 1
    <3>1. k \in 1 .. n
      BY <2>2
    <3>2. Append(y, r + 1)[k] = y[k]
      BY <1>2, <3>1
    <3>3. y[k] = a + k
      BY <1>1, <3>1
    <3> QED
      BY <3>2, <3>3
  <2> QED
    BY <2>1, <2>2
<1> QED
  BY <1>1, <1>2, <1>3 DEF Full

LEMMA FullEnds ==
  ASSUME NEW y \in Seq(Nat), NEW a \in Nat, NEW z \in Nat, Full(y, a, z)
  PROVE  /\ y = <<>> <=> z = a
         /\ y # <<>> => From(y) = a /\ To(y) = z
         /\ Full(y, From(y), To(y))
<1>1. PICK n \in Nat : n = Len(y) /\ n = z - a /\ a <= z /\ \A k \in 1 .. n : y[k] = a + k
  BY DEF Full
<1>2. y = <<>> <=> n = 0
  <2>1. y = <<>> <=> Len(y) = 0
    BY EmptySeq
  <2> QED
    BY <1>1, <2>1
<1>3. ASSUME n # 0 PROVE From(y) = a /\ To(y) = z
  <2>1. 1 \in 1 .. n /\ n \in 1 .. n
    BY <1>3
  <2>2. y[1] = a + 1 /\ y[Len(y)] = a + n
    BY <1>1, <2>1
  <2> QED
    BY <1>1, <1>2, <1>3, <2>2 DEF From, To
<1>4. CASE n = 0
  <2>1. y = <<>> /\ From(y) = 0 /\ To(y) = 0
    BY <1>2, <1>4 DEF From, To
  <2> QED
    BY <1>1, <1>4, <2>1, FullEmpty
<1>5. CASE n # 0
  BY <1>1, <1>2, <1>3, <1>5
<1> QED
  BY <1>4, <1>5

(* The next token of a text without gaps.                                  *)
LEMMA FullNext ==
  ASSUME NEW y \in Seq(Nat), NEW pos \in 1 .. Len(y), From(y) \in Nat, Full(y, From(y), To(y))
  PROVE  y[pos] = Read(y, pos) + 1 /\ Read(y, pos) \in Nat /\ Read(y, pos + 1) = y[pos] /\ Read(y, pos + 1) = Read(y, pos) + 1
<1>1. y # <<>> /\ 1 \in 1 .. Len(y) /\ y[1] \in Nat /\ y[pos] \in Nat /\ From(y) = y[1] - 1
  BY DEF From
<1>2. \A k \in 1 .. Len(y) : y[k] = From(y) + k
  BY DEF Full
<1>3. From(y) \in Int
  BY <1>1
<1>4. CASE pos = 1
  <2>1. Read(y, pos) = y[1] - 1 /\ Read(y, pos + 1) = y[(pos + 1) - 1]
    BY <1>1, <1>4 DEF Read
  <2>2. (pos + 1) - 1 = 1 /\ y[1] \in Nat /\ y[1] = From(y) + 1 /\ From(y) \in Nat
    BY <1>1, <1>4
  <2> QED
    BY <1>1, <1>4, <2>1, <2>2
<1>5. CASE pos # 1
  <2>1. pos - 1 \in 1 .. Len(y)
    BY <1>5
  <2>2. y[pos - 1] = From(y) + (pos - 1) /\ y[pos] = From(y) + pos /\ y[pos - 1] \in Nat
    BY <1>2, <2>1
  <2>3. Read(y, pos) = y[pos - 1] /\ Read(y, pos + 1) = y[pos]
    BY <1>5 DEF Read
  <2> QED
    BY <1>3, <2>2, <2>3
<1> QED
  BY <1>4, <1>5

(* The newlines of a text without gaps.                                    *)
LEMMA CountFull ==
  ASSUME NEW b \in Seq(Token), Plain(b), NEW y \in Seq(Nat), NEW a \in Nat, NEW z \in Nat, z <= Len(b), Full(y, a, z)
  PROVE  Count(b, y) \in Nat /\ TrueLine(b, z) = TrueLine(b, a) + Count(b, y)
<1> DEFINE C(m) == {k \in 1 .. m : b[a + k] = "nl"}
<1>1. PICK n \in Nat : n = Len(y) /\ z = a + n /\ \A k \in 1 .. n : y[k] = a + k
  BY DEF Full
<1>2. TrueLine(b, a) \in Nat
  <2>1. a \in 0 .. Len(b)
    BY <1>1
  <2> QED
    BY <2>1, LineType
<1>3. Count(b, y) = Cardinality(C(n))
  <2>1. \A k \in 1 .. n : b[y[k]] \in {"nl", "comment"} <=> b[a + k] = "nl"
    <3> SUFFICES ASSUME NEW k \in 1 .. n PROVE b[y[k]] \in {"nl", "comment"} <=> b[a + k] = "nl"
      OBVIOUS
    <3>1. y[k] = a + k /\ a + k \in 1 .. Len(b)
      BY <1>1
    <3>2. b[a + k] # "comment"
      BY <3>1 DEF Plain
    <3> QED
      BY <3>1, <3>2
  <2>2. {k \in 1 .. n : b[y[k]] \in {"nl", "comment"}} = {k \in 1 .. n : b[a + k] = "nl"}
    BY <2>1
  <2> QED
    BY <1>1, <2>2 DEF Count
<1>4. ASSUME NEW m \in Nat
      PROVE  /\ IsFiniteSet(C(m)) /\ m + 1 \notin C(m)
             /\ C(m + 1) = IF b[a + (m + 1)] = "nl" THEN C(m) \cup {m + 1} ELSE C(m)
  <2>1. C(m) \subseteq 1 .. m
    OBVIOUS
  <2>2. IsFiniteSet(1 .. m)
    BY FS_Interval
  <2>3. IsFiniteSet(C(m))
    BY <2>1, <2>2, FS_Subset
  <2>4. \A k : k \in 1 .. m + 1 <=> k \in 1 .. m \/ k = m + 1
    OBVIOUS
  <2>5. m + 1 \notin 1 .. m
    OBVIOUS
  <2> QED
    BY <2>3, <2>4, <2>5
<1>5. C(0) = {}
  OBVIOUS
<1> HIDE DEF C
<1> DEFINE S == {m \in Nat : m <= n => Cardinality(C(m)) \in Nat /\ TrueLine(b, a + m) = TrueLine(b, a) + Cardinality(C(m))}
<1>6. 0 \in S
  <2>1. Cardinality(C(0)) = 0
    <3>1. Cardinality({}) = 0
      BY FS_EmptySet
    <3> QED
      BY ONLY <1>5, <3>1
  <2>2. a + 0 = a
    OBVIOUS
  <2> QED
    BY <1>2, <2>1, <2>2
<1>7. \A m \in S \cap Nat : m + 1 \in S
  <2> SUFFICES ASSUME NEW m \in Nat, m \in S, m + 1 <= n
               PROVE  /\ Cardinality(C(m + 1)) \in Nat
                      /\ TrueLine(b, a + (m + 1)) = TrueLine(b, a) + Cardinality(C(m + 1))
    OBVIOUS
  <2>1. PICK c \in Nat : c = Cardinality(C(m)) /\ TrueLine(b, a + m) = TrueLine(b, a) + c
    <3>1. m <= n
      OBVIOUS
    <3> QED
      BY <3>1
  <2> HIDE DEF S
  <2>2. TrueLine(b, a + (m + 1)) = TrueLine(b, a + m) + (IF b[a + (m + 1)] = "nl" THEN 1 ELSE 0)
    <3>1. a + (m + 1) \in 1 .. Len(b) /\ (a + (m + 1)) - 1 = a + m
      BY <1>1
    <3> QED
      BY <3>1, LineNext
  <2>3. Cardinality(C(m + 1)) = c + (IF b[a + (m + 1)] = "nl" THEN 1 ELSE 0)
    <3>1. IsFiniteSet(C(m)) /\ m + 1 \notin C(m)
      BY <1>4
    <3>2. CASE b[a + (m + 1)] = "nl"
      <4>1. C(m + 1) = C(m) \cup {m + 1}
        BY ONLY <1>4, <3>2, m \in Nat
      <4>2. Cardinality(C(m) \cup {m + 1}) = Cardinality(C(m)) + 1
        BY <3>1, FS_AddElement
      <4> QED
        BY ONLY <2>1, <3>2, <4>1, <4>2
    <3>3. CASE b[a + (m + 1)] # "nl"
      <4>1. C(m + 1) = C(m)
        BY ONLY <1>4, <3>3, m \in Nat
      <4> QED
        BY ONLY <2>1, <3>3, <4>1, c \in Nat
    <3> QED
      BY ONLY <3>2, <3>3
  <2>4. PICK l \in Nat : l = TrueLine(b, a)
    BY <1>2
  <2>5. PICK d \in {0, 1} : d = IF b[a + (m + 1)] = "nl" THEN 1 ELSE 0
    OBVIOUS
  <2>6. TrueLine(b, a + (m + 1)) = (l + c) + d /\ Cardinality(C(m + 1)) = c + d
    BY ONLY <2>1, <2>2, <2>3, <2>4, <2>5
  <2> QED
    BY ONLY <2>4, <2>6, c \in Nat, l \in Nat, d \in {0, 1}
<1>8. n \in S
  <2> HIDE DEF S
  <2> QED
    BY <1>6, <1>7, NatInd
<1> QED
  BY <1>1, <1>3, <1>8

-----------------------------------------------------------------------------
(* The line at the next token.                                             *)

LEMMA StraightNext ==
  ASSUME NEW b \in Seq(Token), NEW s \in Scan, s.text \in Seq(Nat), s.pos \in 1 .. Len(s.text), Parse(b, s),
         Straight(b, s), s.use # "condition"
  PROVE  /\ Read(s.text, s.pos) \in Nat /\ s.text[s.pos] = Read(s.text, s.pos) + 1 /\ s.text[s.pos] \in 1 .. Len(b)
         /\ Read(s.text, s.pos) \in 0 .. Len(b) /\ Read(s.text, s.pos + 1) = s.text[s.pos]
<1>1. Text(b, s.text)
  BY DEF Parse
<1>2. /\ From(s.text) \in Nat /\ To(s.text) \in Nat /\ To(s.text) <= Len(b)
      /\ s.text[s.pos] \in Read(s.text, s.pos) + 1 .. To(s.text)
  BY <1>1, TextNext
<1>3. Full(s.text, From(s.text), To(s.text))
  BY DEF Straight
<1>4. /\ Read(s.text, s.pos) \in Nat /\ s.text[s.pos] = Read(s.text, s.pos) + 1 /\ Read(s.text, s.pos + 1) = s.text[s.pos]
  BY <1>2, <1>3, FullNext
<1>5. PICK r \in Nat, z \in Nat : r = Read(s.text, s.pos) /\ z = To(s.text)
  BY <1>2, <1>4
<1>6. r + 1 \in r + 1 .. z /\ z <= Len(b) /\ s.text[s.pos] = r + 1
  BY <1>2, <1>4, <1>5
<1>7. r + 1 \in 1 .. Len(b) /\ r \in 0 .. Len(b)
  BY <1>6
<1> QED
  BY <1>4, <1>5, <1>6, <1>7

LEMMA ToldPast ==
  ASSUME NEW b \in Seq(Token), NEW s \in Scan, s.text \in Seq(Nat), s.pos \in 1 .. Len(s.text), Parse(b, s),
         Straight(b, s), s.use # "condition", NEW f, Told(b, f, Read(s.text, s.pos)), b[s.text[s.pos]] # "nl"
  PROVE  Told(b, f, Read(s.text, s.pos + 1))
<1>1. PICK r \in Nat : r = Read(s.text, s.pos) /\ s.text[s.pos] = r + 1 /\ r + 1 <= Len(b) /\ Read(s.text, s.pos + 1) = r + 1
  BY StraightNext
<1>2. Told(b, f, r) /\ b[r + 1] # "nl"
  BY <1>1
<1> QED
  BY <1>1, <1>2, ToldNext

LEMMA NextLine ==
  ASSUME NEW b \in Seq(Token), NEW s \in Scan, s.text \in Seq(Nat), s.pos \in 1 .. Len(s.text), Parse(b, s),
         Straight(b, s), s.use # "condition", NEW f, Told(b, f, Read(s.text, s.pos)), b[s.text[s.pos]] = "nl",
         NEW g, g.inner = f.inner + 1, g.announced = f.inner + 1
  PROVE  Told(b, g, Read(s.text, s.pos + 1))
<1>1. PICK r \in Nat : r = Read(s.text, s.pos) /\ s.text[s.pos] = r + 1 /\ r + 1 \in 1 .. Len(b) /\ Read(s.text, s.pos + 1) = r + 1
  BY StraightNext
<1>2. (r + 1) - 1 = r /\ b[r + 1] = "nl"
  BY <1>1
<1>3. TrueLine(b, r + 1) = TrueLine(b, r) + 1
  BY <1>1, <1>2, LineNext
<1>4. f.inner = TrueLine(b, r)
  BY <1>1 DEF Told
<1> QED
  BY <1>1, <1>3, <1>4 DEF Told

(* No newline is behind an if that has no then yet.                        *)
LEMMA NoNewline ==
  ASSUME NEW b \in Seq(Token), Plain(b), NEW k \in Nat, NEW r \in Nat, NEW q \in Nat, k >= 1, k < q, q <= Len(b), q <= r + 1,
         b[k] = "if", Quiet(b, k, r)
  PROVE  b[q] # "nl"
<1> SUFFICES ASSUME b[q] = "nl" PROVE FALSE
  OBVIOUS
<1>1. q \in 1 .. Len(b) /\ k \in 1 .. q - 1
  OBVIOUS
<1>2. PICK j \in k .. q - 1 : b[j] = "then"
  BY <1>1 DEF Plain
<1>3. j \in k + 1 .. r
  <2>1. j # k
    BY <1>2
  <2> QED
    BY <2>1
<1> QED
  BY <1>2, <1>3 DEF Quiet, Structure

LEMMA IfHere ==
  ASSUME NEW b, NEW s, NEW a \in Nat, NEW r \in Nat, InIf(b, s, a, r)
  PROVE  \E k \in a + 1 .. r : b[k] = "if" /\ Level(b, k) = Level(b, a) + 1 /\ Quiet(b, k, r) /\ Piece(b, k, s.cond, r)
BY DEF InIf, Between

(* Behind an if the line stays, and its condition is without newlines.     *)
LEMMA IfPast ==
  ASSUME NEW b \in Seq(Token), Plain(b), NEW s \in Scan, s.text \in Seq(Nat), s.pos \in 1 .. Len(s.text), Parse(b, s),
         s.mode = "if", s.use # "condition", Straight(b, s)
  PROVE  /\ b[s.text[s.pos]] # "nl"
         /\ s.cond \in Seq(Nat) => \A k \in 1 .. Len(s.cond) : b[s.cond[k]] \notin Structure \cup {"nl"}
<1>1. PICK r \in Nat : r = Read(s.text, s.pos) /\ s.text[s.pos] = r + 1 /\ r + 1 <= Len(b)
  BY StraightNext
<1>2. PICK a \in Nat : a = From(s.text)
  BY TextNext DEF Parse
<1>3. PICK k \in a + 1 .. r : b[k] = "if" /\ Quiet(b, k, r) /\ Piece(b, k, s.cond, r)
  <2>1. InIf(b, s, a, r)
    BY <1>1, <1>2 DEF Parse
  <2> QED
    BY <2>1, IfHere
<1>4. k \in Nat /\ k >= 1 /\ k < r + 1 /\ r + 1 \in Nat /\ r + 1 <= r + 1
  OBVIOUS
<1>5. b[r + 1] # "nl"
  BY <1>1, <1>3, <1>4, NoNewline
<1>6. ASSUME s.cond \in Seq(Nat), NEW j \in 1 .. Len(s.cond)
      PROVE  b[s.cond[j]] \notin Structure \cup {"nl"}
  <2>1. PICK q \in Nat : q = s.cond[j] /\ q \in k + 1 .. r
    BY <1>3, <1>6 DEF Piece
  <2>2. k < q /\ q <= Len(b) /\ q <= r + 1
    BY SMTT(30), <1>1, <2>1
  <2>3. b[q] # "nl"
    BY <1>3, <1>4, <2>2, NoNewline
  <2>4. b[q] \notin Structure
    BY <1>3, <2>1 DEF Quiet
  <2> QED
    BY <2>1, <2>3, <2>4
<1> QED
  BY <1>1, <1>5, <1>6

-----------------------------------------------------------------------------
(* The branches of an if, and the lines in them.                           *)

LEMMA GatheredStart ==
  ASSUME NEW b, NEW s, s.at \in Nat, ~s.else, s.yes = <<>>, s.no = <<>>
  PROVE  Gathered(b, s, s.at)
BY FullEmpty DEF Gathered

LEMMA GatheredLine ==
  ASSUME NEW b, NEW r \in Nat, NEW s, s.at \in Nat, s.yes \in Seq(Nat), s.no \in Seq(Nat), Gathered(b, s, r),
         NEW t, t.at = s.at, t.else = s.else,
         t.yes = (IF s.else THEN s.yes ELSE Append(s.yes, r + 1)), t.no = (IF s.else THEN Append(s.no, r + 1) ELSE s.no)
  PROVE  Gathered(b, t, r + 1)
<1>1. CASE s.else
  <2>1. PICK e \in Nat : e = s.at + Len(s.yes) + 1 /\ e <= r /\ b[e] = "else" /\ Full(s.yes, s.at, e - 1) /\ Full(s.no, e, r)
    <3>1. s.at + Len(s.yes) + 1 \in Nat
      OBVIOUS
    <3> QED
      BY <1>1, <3>1 DEF Gathered
  <2>2. Full(Append(s.no, r + 1), e, r + 1)
    BY <2>1, FullGrows
  <2>3. t.at = s.at /\ t.else /\ t.yes = s.yes /\ t.no = Append(s.no, r + 1) /\ e <= r + 1
    BY <1>1, <2>1
  <2> QED
    BY <2>1, <2>2, <2>3 DEF Gathered
<1>2. CASE ~s.else
  <2>1. Full(s.yes, s.at, r) /\ s.no = <<>>
    BY <1>2 DEF Gathered
  <2>2. Full(Append(s.yes, r + 1), s.at, r + 1)
    BY <2>1, FullGrows
  <2>3. t.at = s.at /\ ~t.else /\ t.yes = Append(s.yes, r + 1) /\ t.no = <<>>
    BY <1>2, <2>1
  <2> QED
    BY <2>2, <2>3 DEF Gathered
<1> QED
  BY <1>1, <1>2

LEMMA GatheredElse ==
  ASSUME NEW b, NEW r \in Nat, b[r + 1] = "else", NEW s, s.at \in Nat, s.yes \in Seq(Nat), ~s.else, Gathered(b, s, r),
         NEW t, t.at = s.at, t.else, t.yes = s.yes, t.no = s.no
  PROVE  Gathered(b, t, r + 1)
<1>1. Full(s.yes, s.at, r) /\ s.no = <<>>
  BY DEF Gathered
<1>2. PICK h \in Nat, n \in Nat : h = s.at /\ n = Len(s.yes) /\ n = r - h /\ h <= r
  BY <1>1 DEF Full
<1>3. t.at + Len(t.yes) + 1 = r + 1 /\ (r + 1) - 1 = r
  BY <1>2
<1>4. Full(t.yes, t.at, r) /\ Full(t.no, r + 1, r + 1)
  BY <1>1, FullEmpty
<1> QED
  BY <1>3, <1>4 DEF Gathered

(* The lines of the branches, at the end if.                               *)
LEMMA LinesNoElse ==
  ASSUME NEW b \in Seq(Token), Plain(b), NEW r \in Nat, r + 1 <= Len(b), b[r + 1] # "nl",
         NEW s, s.at \in Nat, s.yes \in Seq(Nat), ~s.else, Gathered(b, s, r)
  PROVE  /\ Count(b, s.yes) \in Nat /\ TrueLine(b, r + 1) = TrueLine(b, s.at) + Count(b, s.yes)
         /\ s.at <= r
         /\ s.yes = <<>> => TrueLine(b, r + 1) = TrueLine(b, s.at)
         /\ s.yes # <<>> => From(s.yes) = s.at /\ To(s.yes) = r
         /\ TrueLine(b, r + 1) = TrueLine(b, r)
         /\ Full(s.yes, From(s.yes), To(s.yes))
<1>1. PICK h \in Nat : h = s.at /\ Full(s.yes, h, r) /\ h <= r
  BY DEF Gathered, Full
<1>2. TrueLine(b, r) = TrueLine(b, h) + Count(b, s.yes) /\ Count(b, s.yes) \in Nat
  BY <1>1, CountFull
<1>3. TrueLine(b, r + 1) = TrueLine(b, r)
  <2>1. r + 1 \in 1 .. Len(b) /\ (r + 1) - 1 = r
    OBVIOUS
  <2>2. TrueLine(b, r + 1) = TrueLine(b, (r + 1) - 1) + 0 /\ TrueLine(b, r) \in Nat
    BY <2>1, LineNext
  <2> QED
    BY <2>1, <2>2
<1>4. /\ s.yes = <<>> <=> r = h
      /\ s.yes # <<>> => From(s.yes) = h /\ To(s.yes) = r
      /\ Full(s.yes, From(s.yes), To(s.yes))
  BY <1>1, FullEnds
<1> QED
  BY <1>1, <1>2, <1>3, <1>4

LEMMA LinesElse ==
  ASSUME NEW b \in Seq(Token), Plain(b), NEW r \in Nat, r + 1 <= Len(b), b[r + 1] # "nl",
         NEW s, s.at \in Nat, s.yes \in Seq(Nat), s.no \in Seq(Nat), s.else, Gathered(b, s, r)
  PROVE  \E e \in s.at + 1 .. r :
           /\ b[e] = "else" /\ OnLineOfElse(b, e)
           /\ Count(b, s.yes) \in Nat /\ Count(b, s.no) \in Nat
           /\ TrueLine(b, e) = TrueLine(b, s.at) + Count(b, s.yes)
           /\ TrueLine(b, r + 1) = TrueLine(b, s.at) + Count(b, s.yes) + Count(b, s.no)
           /\ TrueLine(b, r + 1) = TrueLine(b, r)
           /\ s.yes = <<>> => TrueLine(b, e) = TrueLine(b, s.at)
           /\ s.yes # <<>> => From(s.yes) = s.at /\ To(s.yes) <= r
           /\ s.no = <<>> => TrueLine(b, r + 1) = TrueLine(b, e) /\ OnLineOfElse(b, r + 1)
           /\ s.no # <<>> => From(s.no) = e /\ To(s.no) = r
           /\ Full(s.yes, From(s.yes), To(s.yes)) /\ Full(s.no, From(s.no), To(s.no))
<1>1. PICK e \in Nat, h \in Nat : h = s.at /\ e <= r /\ b[e] = "else" /\ Full(s.yes, h, e - 1) /\ Full(s.no, e, r) /\ h < e
  <2>1. s.at + Len(s.yes) + 1 \in Nat /\ s.at < s.at + Len(s.yes) + 1
    OBVIOUS
  <2> QED
    BY <2>1 DEF Gathered
<1>2. PICK d \in Nat : e = d + 1 /\ e - 1 = d
  BY <1>1
<1>3. /\ d <= Len(b) /\ r <= Len(b) /\ Full(s.yes, h, d)
      /\ e \in 1 .. Len(b) /\ r + 1 \in 1 .. Len(b) /\ (r + 1) - 1 = r /\ e \in 1 .. r + 1 /\ e \in 1 .. e
  BY <1>1, <1>2
<1>4. TrueLine(b, d) = TrueLine(b, h) + Count(b, s.yes) /\ Count(b, s.yes) \in Nat
  BY <1>3, CountFull
<1>5. TrueLine(b, r) = TrueLine(b, e) + Count(b, s.no) /\ Count(b, s.no) \in Nat
  BY <1>1, <1>3, CountFull
<1>6. TrueLine(b, e) = TrueLine(b, d) /\ TrueLine(b, r + 1) = TrueLine(b, r)
  <2>1. /\ TrueLine(b, e) = TrueLine(b, e - 1) + 0 /\ TrueLine(b, e - 1) \in Nat
        /\ TrueLine(b, r + 1) = TrueLine(b, (r + 1) - 1) + 0 /\ TrueLine(b, (r + 1) - 1) \in Nat
    BY <1>1, <1>3, LineNext
  <2> QED
    BY <1>2, <1>3, <2>1
<1>7. PICK l \in Nat : l = TrueLine(b, h)
  <2>1. h \in 0 .. Len(b)
    BY <1>1, <1>3
  <2> QED
    BY <2>1, LineType
<1>8. /\ s.yes = <<>> <=> d = h
      /\ s.yes # <<>> => From(s.yes) = h /\ To(s.yes) = d
      /\ Full(s.yes, From(s.yes), To(s.yes))
  BY <1>3, FullEnds
<1>9. /\ s.no = <<>> <=> r = e
      /\ s.no # <<>> => From(s.no) = e /\ To(s.no) = r
      /\ Full(s.no, From(s.no), To(s.no))
  BY <1>1, FullEnds
<1>10. OnLineOfElse(b, e)
  BY <1>1, <1>3 DEF OnLineOfElse
<1>11. s.no = <<>> => TrueLine(b, r + 1) = TrueLine(b, e) /\ OnLineOfElse(b, r + 1)
  BY <1>1, <1>3, <1>6, <1>9 DEF OnLineOfElse
<1>12. TrueLine(b, r + 1) = l + Count(b, s.yes) + Count(b, s.no)
  BY <1>4, <1>5, <1>6, <1>7
<1>13. e \in s.at + 1 .. r /\ (s.yes # <<>> => To(s.yes) <= r)
  BY <1>1, <1>2, <1>8
<1> QED
  BY <1>1, <1>4, <1>5, <1>6, <1>7, <1>8, <1>9, <1>10, <1>11, <1>12, <1>13

-----------------------------------------------------------------------------
(* What is known of a parse under way.                                     *)

LEMMA RowOf ==
  ASSUME IInv, Cuts, LinesKept, frames # <<>>, NEW i \in 1 .. Len(scans)
  PROVE  /\ Row(body, frames, scans, stopped, torn, i)
         /\ scans[i] \in Scan /\ scans[i].depth \in 1 .. Depth /\ Fits(body, frames, scans[i])
         /\ scans[i].use \in Uses /\ scans[i].text \in Seq(Nat)
         /\ \A j \in i + 1 .. Len(scans) : scans[i].depth <= scans[j].depth
<1>1. scans \in Seq(Scan) /\ Stack(body, frames, scans, torn) /\ Depth = Len(frames)
  BY Facts
<1>2. Row(body, frames, scans, stopped, torn, i)
  BY DEF LinesKept, Rows
<1>3. scans[i] \in Scan /\ Fits(body, frames, scans[i])
  BY <1>1 DEF Stack
<1>4. scans[i].use \in Uses /\ scans[i].text \in Seq(Nat) /\ scans[i].depth \in 1 .. Depth
  BY <1>1, <1>3 DEF Scan, Fits
<1>5. \A j \in i + 1 .. Len(scans) : scans[i].depth <= scans[j].depth
  <2> SUFFICES ASSUME NEW j \in i + 1 .. Len(scans) PROVE scans[i].depth <= scans[j].depth
    OBVIOUS
  <2>1. j \in 1 .. Len(scans) /\ i < j
    BY <1>1
  <2> QED
    BY <1>1, <2>1 DEF Stack, Over
<1> QED
  BY <1>2, <1>3, <1>4, <1>5

(* In a plain body, a parse that is not the innermost one of its function  *)
(* has made one of a branch.                                               *)
LEMMA NextIsBranch ==
  ASSUME IInv, Cuts, LinesKept, frames # <<>>, NEW i \in 1 .. Len(scans) - 1, scans[i].depth = Depth,
         Plain(body[Fn]), Scn.use # "condition", Scn.text # <<>> \/ i < Len(scans) - 1
  PROVE  scans[i + 1].use = "branch" /\ scans[i + 1].text # <<>>
<1>1. PICK n \in Nat : n = Len(scans) /\ n >= 1 /\ i + 1 \in 1 .. n /\ i \in 1 .. n /\ i + 1 \in i + 1 .. n
                       /\ n \in 1 .. n /\ scans[n] = Scn /\ Scn.depth = Depth
  BY Facts
<1>2. Depth \in Nat
  BY Facts
<1>3. scans[i + 1].depth = Depth
  <2>1. scans[i].depth <= scans[i + 1].depth /\ scans[i + 1].depth \in 1 .. Depth
    BY <1>1, RowOf
  <2> QED
    BY <1>2, <2>1
<1>4. Row(body, frames, scans, stopped, torn, i + 1) /\ BodyOf(body, frames, scans[i + 1]) = body[Fn]
  <2>1. i + 1 \in 1 .. Len(scans)
    BY <1>1
  <2>2. Row(body, frames, scans, stopped, torn, i + 1)
    BY <2>1, RowOf
  <2> QED
    BY <1>3, <2>2 DEF BodyOf, Fn, Frm
<1>5. scans[i + 1].use \in {"body", "branch", "condition"}
  BY <1>4 DEF Row, Straight
<1>6. \A j \in 1 .. n : Layer(j)
  BY <1>1 DEF IInv, ScansOK, Layers
<1>7. scans[i + 1].use # "body"
  <2>1. i + 1 > 1 /\ (i + 1) - 1 = i
    OBVIOUS
  <2>2. scans[i + 1].use = "body" => scans[i + 1].depth = scans[i].depth + 1
    BY <1>1, <1>6, <2>1 DEF Layer
  <2> QED
    BY <1>2, <1>3, <2>2
<1>8. scans[i + 1].use # "condition"
  <2> SUFFICES ASSUME scans[i + 1].use = "condition" PROVE FALSE
    OBVIOUS
  <2>1. i + 1 # n
    BY <1>1
  <2>2. i + 1 < n /\ (i + 1) + 1 \in 1 .. n /\ (i + 1) + 1 > 1 /\ ((i + 1) + 1) - 1 = i + 1
    BY <1>1, <2>1
  <2>3. scans[(i + 1) + 1].use = "body"
    BY <1>1, <1>4, <2>2 DEF Row
  <2>4. scans[(i + 1) + 1].depth = scans[i + 1].depth + 1
    BY <1>6, <2>2, <2>3 DEF Layer
  <2>5. scans[(i + 1) + 1].depth \in 1 .. Depth
    BY <1>1, <2>2, RowOf
  <2> QED
    BY <1>2, <1>3, <2>4, <2>5
<1>9. scans[i + 1].text # <<>>
  <2>1. CASE i + 1 = n
    BY <1>1, <2>1
  <2>2. CASE i + 1 # n
    BY <1>1, <1>4, <2>2 DEF Row
  <2> QED
    BY <2>1, <2>2
<1> QED
  BY <1>5, <1>7, <1>8, <1>9

-----------------------------------------------------------------------------
(* What the steps do to the parses under the innermost one.                *)

FrameSame(f, g) == g.fn = f.fn /\ g.inner = f.inner /\ g.announced = f.announced /\ g.returned = f.returned

FramesBelow(gs) == \A d \in 1 .. Depth - 1 : FrameSame(frames[d], gs[d])

(* The function that runs may come to another line, and may return.        *)
TopFrame(g, m) ==
  /\ g.fn = Fn /\ (Frm.returned => g.returned)
  /\ \/ g.inner = Frm.inner /\ g.announced = Frm.announced
     \/ Scn.use # "condition" /\ (Scn.text # <<>> \/ m < Len(scans) - 1)
     \/ ~Plain(body[Fn])

(* Only a loop goes on after an error.                                     *)
Stop(ts, sp) == ~stopped \/ Scn.use \in {"loop", "again"} \/ (ts = Closed /\ sp = stopped)

LEMMA LiveBack ==
  ASSUME IInv, Cuts, frames # <<>>, NEW i \in 1 .. Len(scans) - 1, NEW gs, NEW ts, NEW sp, Stop(ts, sp), ts[i] = scans[i],
         frames[scans[i].depth].returned => gs[scans[i].depth].returned,
         Live(gs, ts, sp, i)
  PROVE  Live(frames, scans, stopped, i)
<1>1. ~gs[scans[i].depth].returned /\ ~frames[scans[i].depth].returned
  BY DEF Live
<1>2. PICK n \in Nat : n = Len(scans) /\ n >= 1 /\ n \in i + 1 .. n /\ scans[n] = Scn /\ scans \in Seq(Scan) /\ scans # <<>>
  BY Facts
<1>3. CASE ~stopped
  BY <1>1, <1>3 DEF Live
<1>4. CASE Scn.use \in {"loop", "again"}
  BY <1>1, <1>2, <1>4 DEF Live
<1>5. CASE ts = Closed /\ sp = stopped /\ stopped
  <2>1. PICK j \in i + 1 .. Len(Closed) : Closed[j].use \in {"loop", "again"}
    BY <1>5 DEF Live
  <2>2. Len(Closed) = n - 1 /\ \A k \in 1 .. n - 1 : Closed[k] = scans[k]
    BY <1>2, CutSeq DEF Closed
  <2>3. j \in i + 1 .. n /\ j \in 1 .. n - 1
    BY <1>2, <2>2
  <2>4. scans[j].use \in {"loop", "again"}
    BY <2>1, <2>2, <2>3
  <2> QED
    BY <1>1, <1>2, <2>3, <2>4 DEF Live
<1> QED
  BY <1>3, <1>4, <1>5 DEF Stop

LEMMA ToldSame ==
  ASSUME NEW b, NEW f, NEW g, g.inner = f.inner, g.announced = f.announced
  PROVE  /\ \A p : Told(b, g, p) <=> Told(b, f, p)
         /\ \A s : Knows(b, g, s) <=> Knows(b, f, s)
         /\ \A s, y : Awaits(b, g, s, y) <=> Awaits(b, f, s, y)
<1>1. \A p : Told(b, g, p) <=> Told(b, f, p)
  BY DEF Told
<1>2. \A s : Knows(b, g, s) <=> Knows(b, f, s)
  BY <1>1 DEF Knows
<1>3. \A s, y : Awaits(b, g, s, y) <=> Awaits(b, f, s, y)
  BY <1>1 DEF Awaits
<1> QED
  BY <1>1, <1>2, <1>3

LEMMA LowerRow ==
  ASSUME IInv, Cuts, LinesKept, frames # <<>>, NEW gs, NEW ts, NEW sp, NEW lost, torn => lost, Stop(ts, sp),
         NEW m \in Nat, m <= Len(scans) - 1, NEW i \in 1 .. m, Len(ts) \in Nat, m < Len(ts),
         ts[i] = scans[i], ts[i + 1].use = scans[i + 1].use, ts[i + 1].text = scans[i + 1].text,
         FramesBelow(gs), scans[i].depth = Depth => TopFrame(gs[Depth], m)
  PROVE  Row(body, gs, ts, sp, lost, i)
<1> DEFINE d == scans[i].depth
           s == scans[i]
           b == BodyOf(body, frames, s)
<1>1. PICK n \in Nat : n = Len(scans) /\ i \in 1 .. n /\ i < n /\ i \in 1 .. n - 1 /\ i < Len(ts)
  <2>1. Len(scans) \in Nat /\ Len(scans) >= 1
    BY Facts
  <2>2. PICK n \in Nat, l \in Nat : n = Len(scans) /\ l = Len(ts) /\ m <= n - 1 /\ m < l
    BY <2>1
  <2> QED
    BY <2>2
<1>2. Depth \in Nat /\ d \in 1 .. Depth
  BY <1>1, Facts, RowOf
<1>3. Row(body, frames, scans, stopped, torn, i)
  BY <1>1, RowOf
<1>4. gs[d].fn = frames[d].fn /\ (frames[d].returned => gs[d].returned)
  <2>1. CASE d = Depth
    <3>1. TopFrame(gs[Depth], m)
      BY <2>1
    <3> QED
      BY <2>1, <3>1 DEF TopFrame, Fn, Frm
  <2>2. CASE d # Depth
    <3>1. d \in 1 .. Depth - 1
      BY <1>2, <2>2
    <3> QED
      BY <3>1 DEF FramesBelow, FrameSame
  <2> QED
    BY <2>1, <2>2
<1>5. BodyOf(body, gs, s) = b
  BY <1>4 DEF BodyOf
<1>6. Live(gs, ts, sp, i) => Live(frames, scans, stopped, i)
  BY <1>1, <1>4, LiveBack
<1>7. ASSUME Plain(b)
      PROVE  \/ gs[d].inner = frames[d].inner /\ gs[d].announced = frames[d].announced
             \/ scans[i + 1].use = "branch" /\ scans[i + 1].text # <<>>
  <2>1. CASE d # Depth
    <3>1. d \in 1 .. Depth - 1
      BY <1>2, <2>1
    <3> QED
      BY <3>1 DEF FramesBelow, FrameSame
  <2>2. CASE d = Depth
    <3>1. TopFrame(gs[Depth], m)
      BY <2>2
    <3>2. CASE gs[Depth].inner = Frm.inner /\ gs[Depth].announced = Frm.announced
      BY <2>2, <3>2 DEF Frm
    <3>3. CASE Scn.use # "condition" /\ (Scn.text # <<>> \/ m < Len(scans) - 1)
      <4>1. Plain(body[Fn])
        <5>1. b = body[frames[d].fn]
          BY DEF BodyOf
        <5> QED
          BY <1>7, <2>2, <5>1 DEF Fn, Frm
      <4>2. i \in 1 .. Len(scans) - 1 /\ (Scn.text # <<>> \/ i < Len(scans) - 1)
        BY <1>1, <3>3
      <4> QED
        BY <2>2, <3>3, <4>1, <4>2, NextIsBranch
    <3>4. CASE ~Plain(body[Fn])
      <4>1. b = body[frames[d].fn]
        BY DEF BodyOf
      <4> QED
        BY <1>7, <2>2, <3>4, <4>1 DEF Fn, Frm
    <3> QED
      BY <3>1, <3>2, <3>3, <3>4 DEF TopFrame
  <2> QED
    BY <2>1, <2>2
<1>8. ASSUME Plain(b), scans[i + 1].use = "branch"
      PROVE  Awaits(b, frames[d], s, scans[i + 1].text) => Awaits(b, gs[d], s, scans[i + 1].text)
  <2>1. CASE gs[d].inner = frames[d].inner /\ gs[d].announced = frames[d].announced
    BY <2>1, ToldSame
  <2>2. CASE scans[i + 1].text # <<>>
    BY <2>2 DEF Awaits
  <2> QED
    BY <1>7, <1>8, <2>1, <2>2
<1>9. ASSUME Plain(b), scans[i + 1].use # "branch"
      PROVE  Knows(b, frames[d], s) => Knows(b, gs[d], s)
  <2>1. gs[d].inner = frames[d].inner /\ gs[d].announced = frames[d].announced
    BY <1>7, <1>9
  <2> QED
    BY <2>1, ToldSame
<1>10. /\ s.use = "branch" => s.ifs = 0
       /\ s.text # <<>>
       /\ Plain(b) =>
            /\ Straight(b, s)
            /\ s.use = "condition" => scans[i + 1].use = "body"
            /\ ~torn /\ Live(frames, scans, stopped, i) /\ s.use # "condition" =>
                 IF scans[i + 1].use = "branch" THEN Awaits(b, frames[d], s, scans[i + 1].text) ELSE Knows(b, frames[d], s)
  BY <1>1, <1>3 DEF Row
<1>11. Plain(b) /\ ~lost /\ Live(gs, ts, sp, i) /\ s.use # "condition" =>
         IF scans[i + 1].use = "branch" THEN Awaits(b, gs[d], s, scans[i + 1].text) ELSE Knows(b, gs[d], s)
  BY <1>6, <1>8, <1>9, <1>10
<1> HIDE DEF b
<1> QED
  BY <1>1, <1>5, <1>10, <1>11 DEF Row

LEMMA LowerRows ==
  ASSUME IInv, Cuts, LinesKept, frames # <<>>, NEW gs, NEW ts, NEW sp, NEW lost, torn => lost, Stop(ts, sp),
         NEW m \in Nat, m <= Len(scans) - 1, Len(ts) \in Nat, m < Len(ts),
         \A i \in 1 .. m : ts[i] = scans[i] /\ (scans[i].depth = Depth => TopFrame(gs[Depth], m)),
         m >= 1 => ts[m + 1].use = scans[m + 1].use /\ ts[m + 1].text = scans[m + 1].text,
         FramesBelow(gs)
  PROVE  \A i \in 1 .. m : Row(body, gs, ts, sp, lost, i)
<1> SUFFICES ASSUME NEW i \in 1 .. m PROVE Row(body, gs, ts, sp, lost, i)
  OBVIOUS
<1>1. ts[i + 1].use = scans[i + 1].use /\ ts[i + 1].text = scans[i + 1].text
  <2>1. CASE i = m
    BY <2>1
  <2>2. CASE i # m
    <3>1. i + 1 \in 1 .. m
      BY <2>2
    <3>2. ts[i + 1] = scans[i + 1]
      BY <3>1
    <3> QED
      BY <3>2
  <2> QED
    BY <2>1, <2>2
<1>2. ts[i] = scans[i] /\ (scans[i].depth = Depth => TopFrame(gs[Depth], m))
  OBVIOUS
<1> QED
  BY <1>1, <1>2, LowerRow

-----------------------------------------------------------------------------
(* The innermost parse, and the one that has made it.                      *)

TopRow(b, f, s, lost) ==
  /\ s.use = "branch" => s.ifs = 0
  /\ Plain(b) => Straight(b, s) /\ (~lost /\ ~f.returned /\ s.use # "condition" => Knows(b, f, s))

MakingRow(b, f, s, t, lost) ==
  /\ s.use = "branch" => s.ifs = 0
  /\ s.text # <<>>
  /\ Plain(b) =>
       /\ Straight(b, s)
       /\ s.use = "condition" => t.use = "body"
       /\ ~lost /\ ~f.returned /\ s.use # "condition" =>
            IF t.use = "branch" THEN Awaits(b, f, s, t.text) ELSE Knows(b, f, s)

LEMMA TopIs ==
  ASSUME NEW bd, NEW fs, NEW ss \in Seq(Scan), NEW s \in Scan, NEW st, NEW lost,
         TopRow(BodyOf(bd, fs, s), fs[s.depth], s, lost)
  PROVE  Row(bd, fs, Append(ss, s), st, lost, Len(Append(ss, s)))
<1>1. PICK n \in Nat : n = Len(Append(ss, s)) /\ Append(ss, s)[n] = s
  <2>1. Len(Append(ss, s)) = Len(ss) + 1 /\ Append(ss, s)[Len(ss) + 1] = s /\ Len(ss) + 1 \in Nat
    BY AppendProperties
  <2> QED
    BY <2>1
<1>2. ~(n < n)
  OBVIOUS
<1>3. Live(fs, Append(ss, s), st, n) => ~fs[s.depth].returned
  BY <1>1 DEF Live
<1> QED
  BY <1>1, <1>2, <1>3 DEF Row, TopRow

LEMMA MakingIs ==
  ASSUME NEW bd, NEW fs, NEW ss \in Seq(Scan), NEW s \in Scan, NEW t \in Scan, NEW st, NEW lost,
         MakingRow(BodyOf(bd, fs, s), fs[s.depth], s, t, lost)
  PROVE  Row(bd, fs, Append(Append(ss, s), t), st, lost, Len(ss) + 1)
<1> DEFINE ts == Append(Append(ss, s), t)
<1>1. PICK n \in Nat : n = Len(ss) + 1 /\ ts[n] = s /\ ts[n + 1] = t /\ Len(ts) = n + 1
  <2>1. Append(ss, s) \in Seq(Scan) /\ Len(Append(ss, s)) = Len(ss) + 1 /\ Append(ss, s)[Len(ss) + 1] = s /\ Len(ss) + 1 \in Nat
    BY AppendProperties
  <2>2. /\ Len(ts) = (Len(ss) + 1) + 1 /\ ts[(Len(ss) + 1) + 1] = t
        /\ \A i \in 1 .. Len(ss) + 1 : ts[i] = Append(ss, s)[i]
    BY <2>1, AppendProperties
  <2>3. Len(ss) + 1 \in 1 .. Len(ss) + 1
    BY <2>1
  <2> QED
    BY <2>1, <2>2, <2>3
<1> HIDE DEF ts
<1>2. n < n + 1
  OBVIOUS
<1>3. Live(fs, ts, st, n) => ~fs[s.depth].returned
  BY <1>1 DEF Live
<1>4. Row(bd, fs, ts, st, lost, n)
  BY <1>1, <1>2, <1>3 DEF Row, MakingRow
<1> QED
  BY <1>1, <1>4 DEF ts

LEMMA TopRowOf ==
  ASSUME IInv, Cuts, LinesKept, frames # <<>>, Going
  PROVE  TopRow(body[Fn], Frm, Scn, torn)
<1>1. PICK n \in Nat : n = Len(scans) /\ n >= 1 /\ n \in 1 .. n /\ scans[n] = Scn /\ Scn.depth = Depth /\ BodyOf(body, frames, Scn) = body[Fn]
  BY Facts
<1>2. Row(body, frames, scans, stopped, torn, n)
  BY <1>1, RowOf
<1>3. Live(frames, scans, stopped, n)
  <2>1. frames[Depth].returned = Frm.returned
    BY DEF Frm
  <2> QED
    BY <1>1, <2>1 DEF Live, Going
<1>4. ~(n < n)
  OBVIOUS
<1> QED
  BY <1>1, <1>2, <1>3, <1>4 DEF Row, TopRow, Frm

-----------------------------------------------------------------------------
(* The steps in common.                                                    *)

(* The frames after a step of the function that runs.                      *)
FramesAfter(gs, m) == FramesBelow(gs) /\ TopFrame(gs[Depth], m)

(* The innermost parse moves on.                                           *)
LEMMA RowsTurn ==
  ASSUME IInv, Cuts, LinesKept, frames # <<>>, ~stopped, NEW m \in Nat, m = Len(scans) - 1, FramesAfter(frames', m),
         UNCHANGED <<body, torn>>,
         NEW s, Moves(s), s.text = Scn.text, scans' = WithScan(s), TopRow(body[Fn], frames'[Depth], s, torn)
  PROVE  LinesKept'
<1>1. /\ scans \in Seq(Scan) /\ scans # <<>> /\ s \in Scan /\ s.depth = Depth /\ s.use = Scn.use
      /\ Len(scans) \in Nat /\ Len(scans) >= 1 /\ Scn = scans[Len(scans)]
  BY Facts DEF Moves
<1>2. Closed \in Seq(Scan) /\ scans' = Append(Closed, s)
  BY <1>1, WithScanIs
<1>3. Len(Closed) = m /\ \A i \in 1 .. m : Closed[i] = scans[i]
  BY <1>1, CutSeq DEF Closed
<1>4. scans' \in Seq(Scan) /\ Len(scans') = m + 1 /\ scans'[m + 1] = s /\ \A i \in 1 .. m : scans'[i] = scans[i]
  BY <1>1, <1>2, <1>3, AppendProperties
<1>5. BodyOf(body, frames', s) = body[Fn]
  BY <1>1 DEF BodyOf, FramesAfter, TopFrame
<1>6. Row(body, frames', scans', stopped', torn, m + 1)
  BY <1>1, <1>2, <1>4, <1>5, TopIs
<1>7. m + 1 = Len(scans) /\ m < m + 1 /\ m <= Len(scans) - 1
  BY <1>1
<1>8. \A i \in 1 .. m : Row(body, frames', scans', stopped', torn, i)
  BY <1>1, <1>4, <1>7, LowerRows DEF FramesAfter, Stop
<1>9. \A i \in 1 .. m + 1 : i \in 1 .. m \/ i = m + 1
  OBVIOUS
<1> QED
  BY <1>4, <1>6, <1>8, <1>9 DEF LinesKept, Rows

(* The innermost parse makes another one.                                  *)
LEMMA RowsOpen ==
  ASSUME IInv, Cuts, LinesKept, frames # <<>>, ~stopped, NEW m \in Nat, m = Len(scans) - 1, FramesAfter(frames', m),
         UNCHANGED <<body, torn>>,
         NEW s, Moves(s), s.text = Scn.text, NEW t \in Scan, scans' = Append(WithScan(s), t),
         MakingRow(body[Fn], frames'[Depth], s, t, torn),
         TopRow(BodyOf(body, frames', t), frames'[t.depth], t, torn)
  PROVE  LinesKept'
<1>1. /\ scans \in Seq(Scan) /\ scans # <<>> /\ s \in Scan /\ s.depth = Depth /\ s.use = Scn.use
      /\ Len(scans) \in Nat /\ Len(scans) >= 1 /\ Scn = scans[Len(scans)]
  BY Facts DEF Moves
<1>2. Closed \in Seq(Scan) /\ scans' = Append(Append(Closed, s), t)
  BY <1>1, WithScanIs
<1>3. Len(Closed) = m /\ \A i \in 1 .. m : Closed[i] = scans[i]
  BY <1>1, CutSeq DEF Closed
<1>4. Append(Closed, s) \in Seq(Scan) /\ Len(Append(Closed, s)) = m + 1 /\ Append(Closed, s)[m + 1] = s
      /\ \A i \in 1 .. m : Append(Closed, s)[i] = scans[i]
  BY <1>1, <1>2, <1>3, AppendProperties
<1>5. /\ scans' \in Seq(Scan) /\ Len(scans') = (m + 1) + 1
      /\ \A i \in 1 .. m + 1 : scans'[i] = Append(Closed, s)[i]
  BY <1>2, <1>4, AppendProperties
<1>6. /\ \A i \in 1 .. m : scans'[i] = scans[i]
      /\ scans'[m + 1] = s
  <2>1. m + 1 \in 1 .. m + 1 /\ \A i \in 1 .. m : i \in 1 .. m + 1
    OBVIOUS
  <2> QED
    BY <1>4, <1>5, <2>1
<1>7. BodyOf(body, frames', s) = body[Fn]
  BY <1>1 DEF BodyOf, FramesAfter, TopFrame
<1>8. Row(body, frames', scans', stopped', torn, m + 1)
  BY <1>1, <1>2, <1>3, <1>7, MakingIs
<1>9. Row(body, frames', scans', stopped', torn, (m + 1) + 1)
  BY <1>2, <1>4, <1>5, TopIs
<1>10. m + 1 = Len(scans) /\ m < (m + 1) + 1 /\ m <= Len(scans) - 1 /\ (m + 1) + 1 \in Nat
  BY <1>1
<1>11. \A i \in 1 .. m : Row(body, frames', scans', stopped', torn, i)
  BY <1>1, <1>5, <1>6, <1>10, LowerRows DEF FramesAfter, Stop
<1>12. \A i \in 1 .. (m + 1) + 1 : i \in 1 .. m \/ i = m + 1 \/ i = (m + 1) + 1
  OBVIOUS
<1> QED
  BY <1>5, <1>8, <1>9, <1>11, <1>12 DEF LinesKept, Rows

(* Steps that leave the parses and the lines alone.                        *)
LEMMA RowsStay ==
  ASSUME IInv, Cuts, LinesKept, frames # <<>>, UNCHANGED <<body, scans, torn>>, stopped => stopped',
         \A d \in 1 .. Depth :
           /\ frames'[d].fn = frames[d].fn /\ (frames[d].returned => frames'[d].returned)
           /\ frames'[d].inner = frames[d].inner /\ frames'[d].announced = frames[d].announced
  PROVE  LinesKept'
<1> SUFFICES ASSUME NEW i \in 1 .. Len(scans) PROVE Row(body, frames', scans, stopped', torn, i)
  BY DEF LinesKept, Rows
<1> DEFINE s == scans[i]
           d == s.depth
           b == BodyOf(body, frames, s)
<1>1. Row(body, frames, scans, stopped, torn, i) /\ d \in 1 .. Depth
  BY RowOf
<1>2. /\ frames'[d].fn = frames[d].fn /\ (frames[d].returned => frames'[d].returned)
      /\ frames'[d].inner = frames[d].inner /\ frames'[d].announced = frames[d].announced
  BY <1>1
<1>3. BodyOf(body, frames', s) = b
  BY <1>2 DEF BodyOf
<1>4. Live(frames', scans, stopped', i) => Live(frames, scans, stopped, i)
  BY <1>2 DEF Live
<1>5. /\ \A x : Knows(b, frames'[d], x) <=> Knows(b, frames[d], x)
      /\ \A x, y : Awaits(b, frames'[d], x, y) <=> Awaits(b, frames[d], x, y)
  <2> DEFINE f == frames[d]
             g == frames'[d]
  <2>1. g.inner = f.inner /\ g.announced = f.announced
    BY <1>2
  <2> HIDE DEF b, f, g
  <2>2. /\ \A x : Knows(b, g, x) <=> Knows(b, f, x)
        /\ \A x, y : Awaits(b, g, x, y) <=> Awaits(b, f, x, y)
    BY ONLY <2>1, ToldSame
  <2> QED
    BY <2>2 DEF f, g
<1> HIDE DEF b
<1> QED
  BY <1>1, <1>3, <1>4, <1>5 DEF Row, b

-----------------------------------------------------------------------------
(* What a step does to the lines of the frames.                            *)

SameLines(fs, gs) == Len(gs) = Len(fs) /\ \A i \in 1 .. Len(fs) : FrameSame(fs[i], gs[i])

LEMMA AllStepsLines ==
  ASSUME NEW fs \in Seq(Frame), NEW st \in {"continue", "over"}
  PROVE  SameLines(fs, AllSteps(fs, st))
<1>1. \A i \in 1 .. Len(fs) : AllSteps(fs, st)[i] = [fs[i] EXCEPT !.step = st]
  BY DEF AllSteps
<1>2. ASSUME NEW i \in 1 .. Len(fs)
      PROVE  FrameSame(fs[i], [fs[i] EXCEPT !.step = st])
  <2>1. fs[i] \in Frame
    OBVIOUS
  <2> QED
    BY <2>1 DEF Frame, FrameSame
<1>3. Len(AllSteps(fs, st)) = Len(fs)
  BY AllStepsSet
<1> QED
  BY <1>1, <1>2, <1>3 DEF SameLines

LEMMA SettledLines ==
  ASSUME NEW fs \in Seq(Frame), fs # <<>>, NEW st \in Steps
  PROVE  SameLines(fs, Settled(fs, st))
<1>1. Len(fs) \in Nat /\ Len(fs) >= 1 /\ fs[Len(fs)] \in Frame
  OBVIOUS
<1>2. CASE st = "continue"
  <2>1. Settled(fs, st) = AllSteps(fs, "continue")
    BY <1>2 DEF Settled
  <2> QED
    BY <2>1, AllStepsLines
<1>3. CASE st = "out"
  <2> DEFINE f == [fs[Len(fs)] EXCEPT !.step = "continue"]
  <2>1. FrameSame(fs[Len(fs)], f)
    BY <1>1 DEF Frame, FrameSame
  <2>2. Settled(fs, st) = [fs EXCEPT ![Len(fs)] = f]
    BY <1>3 DEF Settled
  <2> HIDE DEF f
  <2>3. \A i \in 1 .. Len(fs) : Settled(fs, st)[i] = IF i = Len(fs) THEN f ELSE fs[i]
    BY <1>1, <2>2
  <2>4. Len(Settled(fs, st)) = Len(fs)
    BY SettledSet
  <2>5. \A i \in 1 .. Len(fs) : FrameSame(fs[i], fs[i])
    BY DEF FrameSame
  <2> QED
    BY <2>1, <2>3, <2>4, <2>5 DEF SameLines
<1>4. CASE st \notin {"continue", "out"}
  <2>1. Settled(fs, st) = fs
    BY <1>4 DEF Settled
  <2> QED
    BY <2>1 DEF SameLines, FrameSame
<1> QED
  BY <1>2, <1>3, <1>4

(* Only the function that runs comes to another line.                      *)
LEMMA RaisedLines ==
  ASSUME FramesOK, frames # <<>>, NEW f \in Frame, NEW line \in Nat, Raise(f, line)
  PROVE  /\ FramesBelow(frames')
         /\ frames'[Depth].fn = f.fn /\ frames'[Depth].returned = f.returned
         /\ frames'[Depth].inner = line /\ frames'[Depth].announced = line
<1> DEFINE g  == [f EXCEPT !.inner = line, !.announced = line]
           fs == WithFrame(g)
<1>1. frames \in Seq(Frame) /\ step \in Steps /\ Depth \in Nat /\ Depth >= 1
  BY DEF FramesOK, Depth
<1>2. g \in Frame /\ g.fn = f.fn /\ g.returned = f.returned /\ g.inner = line /\ g.announced = line
  BY DEF Frame
<1>3. \/ frames' = AllSteps(fs, "over")
      \/ frames' = IF g.step = "over" THEN fs ELSE Settled(fs, step)
  BY DEF Raise
<1> HIDE DEF g
<1>4. /\ fs \in Seq(Frame) /\ Len(fs) = Depth
      /\ \A i \in 1 .. Depth : fs[i] = IF i = Depth THEN g ELSE frames[i]
  BY <1>1, <1>2, WithFrameIs
<1> HIDE DEF fs
<1>5. fs # <<>>
  <2>1. Len(fs) # 0
    BY <1>1, <1>4
  <2> QED
    BY <2>1
<1>6. SameLines(fs, frames')
  <2>1. SameLines(fs, AllSteps(fs, "over"))
    BY <1>4, AllStepsLines
  <2>2. SameLines(fs, Settled(fs, step))
    BY <1>1, <1>4, <1>5, SettledLines
  <2>3. SameLines(fs, fs)
    BY DEF SameLines, FrameSame
  <2> QED
    BY <1>3, <2>1, <2>2, <2>3
<1>7. \A i \in 1 .. Depth : FrameSame(fs[i], frames'[i])
  BY <1>4, <1>6 DEF SameLines
<1>8. FramesBelow(frames')
  <2> SUFFICES ASSUME NEW d \in 1 .. Depth - 1 PROVE FrameSame(frames[d], frames'[d])
    BY DEF FramesBelow
  <2>1. d \in 1 .. Depth /\ d # Depth
    BY <1>1
  <2>2. fs[d] = frames[d]
    BY <1>4, <2>1
  <2> QED
    BY <1>7, <2>1, <2>2
<1>9. Depth \in 1 .. Depth
  BY <1>1
<1>10. fs[Depth] = g /\ FrameSame(fs[Depth], frames'[Depth])
  BY <1>4, <1>7, <1>9
<1> QED
  BY <1>2, <1>8, <1>10 DEF FrameSame

LEMMA ResumedLines ==
  ASSUME IInv, frames # <<>>, NEW st \in Steps, frames' = Settled(frames, st)
  PROVE  \A d \in 1 .. Depth : FrameSame(frames[d], frames'[d])
<1>1. frames \in Seq(Frame)
  BY DEF IInv, FramesOK
<1> QED
  BY <1>1, SettledLines DEF SameLines, Depth

LEMMA LinesLeft ==
  ASSUME frames' = frames, NEW m
  PROVE  FramesAfter(frames', m) /\ frames'[Depth] = Frm
BY DEF FramesAfter, FramesBelow, FrameSame, TopFrame, Frm, Fn

(* The function that runs chooses a side, or returns.                      *)
LEMMA LinesWith ==
  ASSUME IInv, frames # <<>>, NEW f \in Frame, f.fn = Fn, Frm.returned => f.returned, NEW m,
         \/ f.inner = Frm.inner /\ f.announced = Frm.announced
         \/ Scn.use # "condition" /\ Scn.text # <<>>
         \/ ~Plain(body[Fn]),
         frames' = WithFrame(f)
  PROVE  FramesAfter(frames', m) /\ frames'[Depth] = f
<1>1. frames \in Seq(Frame) /\ Depth \in Nat /\ Depth >= 1
  BY DEF IInv, FramesOK, Depth
<1>2. \A i \in 1 .. Depth : frames'[i] = IF i = Depth THEN f ELSE frames[i]
  BY <1>1, WithFrameIs
<1>3. frames'[Depth] = f
  <2>1. Depth \in 1 .. Depth
    BY <1>1
  <2> QED
    BY <1>2, <2>1
<1>4. FramesBelow(frames')
  <2> SUFFICES ASSUME NEW d \in 1 .. Depth - 1 PROVE FrameSame(frames[d], frames'[d])
    BY DEF FramesBelow
  <2>1. d \in 1 .. Depth /\ d # Depth
    BY <1>1
  <2>2. frames'[d] = frames[d]
    BY <1>2, <2>1
  <2> QED
    BY <2>2 DEF FrameSame
<1>5. TopFrame(f, m)
  BY DEF TopFrame
<1> QED
  BY <1>3, <1>4, <1>5 DEF FramesAfter

LEMMA LinesRaised ==
  ASSUME IInv, frames # <<>>, NEW f \in Frame, f.fn = Fn, Frm.returned => f.returned, NEW line \in Nat, Raise(f, line), NEW m,
         (Scn.use # "condition" /\ (Scn.text # <<>> \/ m < Len(scans) - 1)) \/ ~Plain(body[Fn])
  PROVE  /\ FramesAfter(frames', m) /\ frames'[Depth].returned = f.returned
         /\ frames'[Depth].inner = line /\ frames'[Depth].announced = line
<1>1. FramesOK
  BY DEF IInv
<1>2. /\ FramesBelow(frames')
      /\ frames'[Depth].fn = f.fn /\ frames'[Depth].returned = f.returned
      /\ frames'[Depth].inner = line /\ frames'[Depth].announced = line
  BY <1>1, RaisedLines
<1>3. TopFrame(frames'[Depth], m)
  BY <1>2 DEF TopFrame
<1> QED
  BY <1>2, <1>3 DEF FramesAfter

-----------------------------------------------------------------------------
(* Steps that only read a token.                                           *)

LEMMA AtLine ==
  ASSUME IInv, Cuts, LinesKept, NEW modes, NEW tokens \in SUBSET Token, Reads(modes, tokens)
  PROVE  /\ frames # <<>> /\ Going /\ ~stopped /\ ~Frm.returned /\ Scn.mode \in modes /\ Tok # "end" /\ Tok \in tokens
         /\ Scn.pos \in 1 .. Len(Scn.text) /\ Here = Scn.text[Scn.pos] /\ Tok = body[Fn][Scn.text[Scn.pos]] /\ Scn.text # <<>>
         /\ Scn \in Scan /\ Scn.text \in Seq(Nat) /\ body[Fn] \in Seq(Token) /\ Parse(body[Fn], Scn)
         /\ TopRow(body[Fn], Frm, Scn, torn) /\ Len(scans) - 1 \in Nat
<1>1. /\ frames # <<>> /\ Going /\ Scn.mode \in modes /\ Tok # "end" /\ Tok \in tokens
      /\ Scn.pos \in 1 .. Len(Scn.text) /\ Here = Scn.text[Scn.pos] /\ Tok = body[Fn][Scn.text[Scn.pos]] /\ Scn.text # <<>>
  BY AtTheToken
<1>2. Scn \in Scan /\ Scn.text \in Seq(Nat) /\ body[Fn] \in Seq(Token) /\ Parse(body[Fn], Scn)
      /\ Len(scans) \in Nat /\ Len(scans) >= 1
  BY <1>1, Facts
<1>3. TopRow(body[Fn], Frm, Scn, torn)
  BY <1>1, TopRowOf
<1>4. ~stopped /\ ~Frm.returned /\ Len(scans) - 1 \in Nat
  BY <1>1, <1>2 DEF Going
<1> QED
  BY <1>1, <1>2, <1>3, <1>4

(* Past a token that is no newline.                                        *)
LEMMA PassRow ==
  ASSUME NEW b \in Seq(Token), NEW s \in Scan, s.text \in Seq(Nat), s.pos \in 1 .. Len(s.text), Parse(b, s),
         NEW f, NEW lost, TopRow(b, f, s, lost), s.mode # "then", Plain(b) => b[s.text[s.pos]] # "nl",
         NEW t, t.use = s.use, t.ifs = s.ifs, t.text = s.text, t.pos = s.pos + 1,
         t.mode \in {"initial", "if"}, t.mode = "if" => s.mode = "if" \/ b[s.text[s.pos]] = "if"
  PROVE  TopRow(b, f, t, lost)
<1>1. t.use = "branch" => t.ifs = 0
  BY DEF TopRow
<1>2. ASSUME Plain(b)
      PROVE  Straight(b, t)
  <2>1. Straight(b, s)
    BY <1>2 DEF TopRow
  <2>2. s.use = "condition" => t.mode = "initial"
    <3> SUFFICES ASSUME s.use = "condition", b[s.text[s.pos]] = "if" PROVE FALSE
      BY <2>1 DEF Straight
    <3> QED
      BY <2>1 DEF Straight, Structure
  <2> QED
    BY <2>1, <2>2 DEF Straight
<1>3. ASSUME Plain(b), ~lost, ~f.returned, t.use # "condition"
      PROVE  Knows(b, f, t)
  <2>1. Straight(b, s) /\ Knows(b, f, s) /\ b[s.text[s.pos]] # "nl"
    BY <1>3 DEF TopRow
  <2>2. s.text # <<>>
    OBVIOUS
  <2>3. Told(b, f, Read(s.text, s.pos))
    BY <2>1, <2>2 DEF Knows, Place
  <2>4. Told(b, f, Read(s.text, s.pos + 1))
    BY <1>3, <2>1, <2>3, ToldPast
  <2>5. Place(t) = Read(s.text, s.pos + 1)
    BY DEF Place
  <2> QED
    BY <2>4, <2>5 DEF Knows
<1> QED
  BY <1>1, <1>2, <1>3 DEF TopRow

LEMMA PastUse ==
  ASSUME IInv, Cuts, frames # <<>>, Tok # "end"
  PROVE  Past(Scn).use = Scn.use /\ Past(Scn).line = Scn.line /\ Past(Scn).backup = Scn.backup
<1>1. Scn \in Scan
  BY Facts
<1> QED
  BY <1>1 DEF Past, Scan

LEMMA TheOthers ==
  ASSUME IInv, Cuts, frames # <<>>
  PROVE  \E m \in Nat : m = Len(scans) - 1
<1>1. Len(scans) \in Nat /\ Len(scans) >= 1
  BY Facts
<1> QED
  BY <1>1

LEMMA TurnSame ==
  ASSUME IInv, Cuts, LinesKept, frames # <<>>, ~stopped, UNCHANGED <<body, frames, torn>>,
         NEW s, Moves(s), s.text = Scn.text, scans' = WithScan(s), TopRow(body[Fn], Frm, s, torn)
  PROVE  LinesKept'
<1>1. PICK m \in Nat : m = Len(scans) - 1
  BY TheOthers
<1>2. FramesAfter(frames', m) /\ frames'[Depth] = Frm
  BY LinesLeft
<1> QED
  BY <1>1, <1>2, RowsTurn

LEMMA StatementLines ==
  ASSUME IInv, Cuts, LinesKept, Statement
  PROVE  LinesKept'
<1>1. PICK tokens \in SUBSET Token : Reads({"initial"}, tokens) /\ "nl" \notin tokens
  BY DEF Statement, Token
<1>2. /\ frames # <<>> /\ ~stopped /\ Scn.mode \in {"initial"} /\ Tok # "end" /\ Tok \in tokens
      /\ Scn.pos \in 1 .. Len(Scn.text) /\ Tok = body[Fn][Scn.text[Scn.pos]]
      /\ Scn \in Scan /\ Scn.text \in Seq(Nat) /\ body[Fn] \in Seq(Token) /\ Parse(body[Fn], Scn)
      /\ TopRow(body[Fn], Frm, Scn, torn)
  BY <1>1, AtLine
<1> DEFINE s == Past(Scn)
<1>3. Moves(s) /\ s.pos = Scn.pos + 1 /\ s.text = Scn.text /\ s.ifs = Scn.ifs /\ s.mode = Scn.mode /\ s.use = Scn.use
  BY <1>2, PastIs, PastUse
<1>4. scans' = WithScan(s) /\ UNCHANGED <<body, torn, frames>>
  BY DEF Statement
<1> HIDE DEF s
<1>5. TopRow(body[Fn], Frm, s, torn)
  <2>1. body[Fn][Scn.text[Scn.pos]] # "nl" /\ s.mode = "initial" /\ Scn.mode # "then"
    BY <1>1, <1>2, <1>3
  <2> QED
    BY <1>2, <1>3, <2>1, PassRow
<1> QED
  BY <1>2, <1>3, <1>4, <1>5, TurnSame

LEMMA IfLines ==
  ASSUME IInv, Cuts, LinesKept, If
  PROVE  LinesKept'
<1>1. Reads({"initial"}, {"if"}) /\ {"if"} \in SUBSET Token
  BY DEF If, Token
<1>2. /\ frames # <<>> /\ ~stopped /\ Scn.mode \in {"initial"} /\ Tok # "end" /\ Tok \in {"if"}
      /\ Scn.pos \in 1 .. Len(Scn.text) /\ Tok = body[Fn][Scn.text[Scn.pos]]
      /\ Scn \in Scan /\ Scn.text \in Seq(Nat) /\ body[Fn] \in Seq(Token) /\ Parse(body[Fn], Scn)
      /\ TopRow(body[Fn], Frm, Scn, torn)
  BY <1>1, AtLine
<1>3. Moves(Past(Scn)) /\ Past(Scn) \in Scan /\ Past(Scn).pos = Scn.pos + 1 /\ Past(Scn).text = Scn.text
      /\ Past(Scn).ifs = Scn.ifs /\ Past(Scn).use = Scn.use
  BY <1>2, PastIs, PastUse
<1> DEFINE s == [Past(Scn) EXCEPT !.mode = "if", !.cond = <<>>, !.yes = <<>>, !.no = <<>>,
                                  !.else = FALSE, !.counted = FALSE]
<1>4. Moves(s)
  <2>1. "if" \in Modes /\ FALSE \in BOOLEAN /\ 0 \in Nat
    BY DEF Modes
  <2> QED
    BY <1>3, <2>1, FieldsMove
<1>5. s.pos = Scn.pos + 1 /\ s.text = Scn.text /\ s.ifs = Scn.ifs /\ s.mode = "if" /\ s.use = Scn.use
  BY <1>3 DEF Scan
<1>6. scans' = WithScan(s) /\ UNCHANGED <<body, torn, frames>>
  BY DEF If
<1> HIDE DEF s
<1>7. TopRow(body[Fn], Frm, s, torn)
  <2>1. body[Fn][Scn.text[Scn.pos]] = "if" /\ Scn.mode # "then"
    BY <1>2
  <2> QED
    BY <1>2, <1>5, <2>1, PassRow
<1> QED
  BY <1>2, <1>4, <1>5, <1>6, <1>7, TurnSame

LEMMA ConditionUse ==
  ASSUME IInv, Cuts, frames # <<>>, Tok # "end"
  PROVE  Condition(Scn).use = Scn.use
<1>1. Scn \in Scan
  BY Facts
<1> QED
  BY <1>1 DEF Condition, Scan

LEMMA ConditionLines ==
  ASSUME IInv, Cuts, LinesKept, ConditionChar
  PROVE  LinesKept'
<1>1. Reads({"if", "while"}, Token \ {"then", "loop"}) /\ Token \ {"then", "loop"} \in SUBSET Token
  BY DEF ConditionChar
<1>2. /\ frames # <<>> /\ ~stopped /\ Scn.mode \in {"if", "while"} /\ Tok # "end"
      /\ Scn.pos \in 1 .. Len(Scn.text) /\ Tok = body[Fn][Scn.text[Scn.pos]]
      /\ Scn \in Scan /\ Scn.text \in Seq(Nat) /\ body[Fn] \in Seq(Token) /\ Parse(body[Fn], Scn)
      /\ TopRow(body[Fn], Frm, Scn, torn)
  BY <1>1, AtLine
<1>3. PICK s : /\ scans' = WithScan(s) /\ Moves(s) /\ s.pos = Scn.pos + 1 /\ s.text = Scn.text /\ s.ifs = Scn.ifs
               /\ s.mode = Scn.mode /\ s.use = Scn.use
  <2>1. /\ Moves(Past(Scn)) /\ Past(Scn).pos = Scn.pos + 1 /\ Past(Scn).text = Scn.text /\ Past(Scn).ifs = Scn.ifs
        /\ Past(Scn).mode = Scn.mode /\ Past(Scn).use = Scn.use
    BY <1>2, PastIs, PastUse
  <2>2. /\ Moves(Condition(Scn)) /\ Condition(Scn).pos = Scn.pos + 1 /\ Condition(Scn).text = Scn.text
        /\ Condition(Scn).ifs = Scn.ifs /\ Condition(Scn).mode = Scn.mode /\ Condition(Scn).use = Scn.use
    BY <1>2, ConditionIs, ConditionUse
  <2>3. CASE Tok = "nl"
    <3>1. scans' = WithScan(Past(Scn))
      BY <2>3 DEF ConditionChar
    <3> QED
      BY <2>1, <3>1
  <2>4. CASE Tok # "nl"
    <3>1. scans' = WithScan(Condition(Scn))
      BY <2>4 DEF ConditionChar
    <3> QED
      BY <2>2, <3>1
  <2> QED
    BY <2>3, <2>4
<1>4. UNCHANGED <<body, torn, frames>>
  BY DEF ConditionChar
<1>5. TopRow(body[Fn], Frm, s, torn)
  <2>1. CASE Plain(body[Fn])
    <3>1. Straight(body[Fn], Scn)
      BY <1>2, <2>1 DEF TopRow
    <3>2. Scn.mode = "if" /\ Scn.use # "condition"
      BY <1>2, <3>1 DEF Straight
    <3>3. body[Fn][Scn.text[Scn.pos]] # "nl"
      BY <1>2, <2>1, <3>1, <3>2, IfPast
    <3>4. s.mode \in {"initial", "if"} /\ Scn.mode # "then"
      BY <1>3, <3>2
    <3> QED
      BY <1>2, <1>3, <3>2, <3>3, <3>4, PassRow
  <2>2. CASE ~Plain(body[Fn])
    BY <1>2, <1>3, <2>2 DEF TopRow
  <2> QED
    BY <2>1, <2>2
<1> QED
  BY <1>2, <1>3, <1>4, <1>5, TurnSame

LEMMA NewlineLines ==
  ASSUME IInv, Cuts, LinesKept, Newline
  PROVE  LinesKept'
<1>1. Reads({"initial", "pending"}, {"nl"}) /\ {"nl"} \in SUBSET Token /\ Raise(Frm, Frm.inner + 1)
  BY DEF Newline, Token
<1>2. /\ frames # <<>> /\ ~stopped /\ ~Frm.returned /\ Scn.mode \in {"initial", "pending"} /\ Tok # "end" /\ Tok \in {"nl"}
      /\ Scn.pos \in 1 .. Len(Scn.text) /\ Tok = body[Fn][Scn.text[Scn.pos]] /\ Scn.text # <<>>
      /\ Scn \in Scan /\ Scn.text \in Seq(Nat) /\ body[Fn] \in Seq(Token) /\ Parse(body[Fn], Scn)
      /\ TopRow(body[Fn], Frm, Scn, torn)
  BY <1>1, AtLine
<1> DEFINE s == Past(Scn)
<1>3. Moves(s) /\ s.pos = Scn.pos + 1 /\ s.text = Scn.text /\ s.ifs = Scn.ifs /\ s.mode = Scn.mode /\ s.use = Scn.use
  BY <1>2, PastIs, PastUse
<1>4. scans' = WithScan(s) /\ UNCHANGED <<body, torn>>
  BY DEF Newline
<1> HIDE DEF s
<1>5. Frm \in Frame /\ Frm.fn = Fn
  BY <1>2, Inside DEF Fn
<1>6. PICK l \in Nat : l = Frm.inner + 1
  BY <1>5 DEF Frame
<1>7. PICK m \in Nat : m = Len(scans) - 1
  BY <1>2, TheOthers
<1>8. ASSUME Plain(body[Fn])
      PROVE  Scn.use # "condition" /\ Scn.mode = "initial" /\ Straight(body[Fn], Scn)
  <2>1. Straight(body[Fn], Scn)
    BY <1>2, <1>8 DEF TopRow
  <2>2. Scn.use # "condition"
    BY <1>2, <2>1 DEF Straight
  <2>3. Scn.mode = "initial"
    BY <1>2, <2>1 DEF Straight
  <2> QED
    BY <2>1, <2>2, <2>3
<1>9. /\ FramesBelow(frames')
      /\ frames'[Depth].fn = Fn /\ frames'[Depth].returned = Frm.returned
      /\ frames'[Depth].inner = l /\ frames'[Depth].announced = l
  <2>1. FramesOK
    BY DEF IInv
  <2>2. Raise(Frm, l)
    BY <1>1, <1>6
  <2> QED
    BY <1>2, <1>5, <2>1, <2>2, RaisedLines
<1>10. CASE Plain(body[Fn])
  <2>1. Scn.use # "condition" /\ Scn.mode = "initial" /\ Straight(body[Fn], Scn)
    BY <1>8, <1>10
  <2>2. FramesAfter(frames', m)
    BY <1>2, <1>9, <2>1 DEF FramesAfter, TopFrame
  <2>3. Straight(body[Fn], s)
    BY <1>3, <2>1 DEF Straight
  <2>4. ASSUME ~torn
        PROVE  Knows(body[Fn], frames'[Depth], s)
    <3>1. Knows(body[Fn], Frm, Scn)
      BY <1>2, <1>10, <2>1, <2>4 DEF TopRow
    <3>2. Told(body[Fn], Frm, Read(Scn.text, Scn.pos))
      BY <1>2, <2>1, <3>1 DEF Knows, Place
    <3>3. body[Fn][Scn.text[Scn.pos]] = "nl"
      BY <1>2
    <3>4. frames'[Depth].inner = Frm.inner + 1 /\ frames'[Depth].announced = Frm.inner + 1
      BY <1>6, <1>9
    <3>5. Told(body[Fn], frames'[Depth], Read(Scn.text, Scn.pos + 1))
      BY <1>2, <1>10, <2>1, <3>2, <3>3, <3>4, NextLine
    <3>6. Place(s) = Read(Scn.text, Scn.pos + 1)
      BY <1>3, <2>1 DEF Place
    <3> QED
      BY <3>5, <3>6 DEF Knows
  <2>5. TopRow(body[Fn], frames'[Depth], s, torn)
    BY <1>2, <1>3, <2>3, <2>4 DEF TopRow
  <2> QED
    BY <1>2, <1>3, <1>4, <1>7, <2>2, <2>5, RowsTurn
<1>11. CASE ~Plain(body[Fn])
  <2>1. TopRow(body[Fn], frames'[Depth], s, torn)
    BY <1>2, <1>3, <1>11 DEF TopRow
  <2>2. FramesAfter(frames', m)
    BY <1>9, <1>11 DEF FramesAfter, TopFrame
  <2> QED
    BY <1>2, <1>3, <1>4, <1>7, <2>1, <2>2, RowsTurn
<1> QED
  BY <1>10, <1>11

-----------------------------------------------------------------------------
(* A body that is not plain.                                               *)

LEMMA BodyHere ==
  ASSUME NEW fs, fs[Depth].fn = Fn, NEW t, t.depth = Depth
  PROVE  BodyOf(body, fs, t) = body[Fn]
BY DEF BodyOf

LEMMA NewScanHere ==
  ASSUME NEW use \in Uses, NEW text \in Seq(Nat), ifCounter' \in Int, Depth \in Nat, NEW t, t = NewScan(use, Depth, text)
  PROVE  /\ t \in Scan /\ t.use = use /\ t.depth = Depth /\ t.text = text /\ t.pos = 1 /\ t.mode = "initial"
         /\ t.ifs = ifCounter'
<1>1. PICK d \in Nat : d = Depth
  OBVIOUS
<1>2. t = NewScan(use, d, text)
  BY <1>1
<1>3. t \in Scan /\ t.use = use /\ t.depth = d /\ t.pos = 1
  BY <1>2, NewScanSet
<1>4. t.text = text /\ t.mode = "initial" /\ t.ifs = ifCounter'
  BY <1>2 DEF NewScan
<1> QED
  BY <1>1, <1>3, <1>4

LEMMA RoughTurn ==
  ASSUME IInv, Cuts, LinesKept, frames # <<>>, Going, ~Plain(body[Fn]), UNCHANGED <<body, frames, torn>>,
         NEW s, Moves(s), s.text = Scn.text, s.ifs = Scn.ifs, scans' = WithScan(s)
  PROVE  LinesKept'
<1>1. TopRow(body[Fn], Frm, Scn, torn) /\ s.use = Scn.use
  BY TopRowOf DEF Moves
<1>2. TopRow(body[Fn], Frm, s, torn)
  BY <1>1 DEF TopRow
<1>3. ~stopped
  BY DEF Going
<1> QED
  BY <1>2, <1>3, TurnSame

LEMMA RoughOpen ==
  ASSUME IInv, Cuts, LinesKept, frames # <<>>, Going, ~Plain(body[Fn]), UNCHANGED <<body, frames, torn>>,
         NEW s, Moves(s), s.text = Scn.text, s.text # <<>>, s.ifs = Scn.ifs,
         NEW t \in Scan, t.use # "branch", t.depth = Depth, scans' = Append(WithScan(s), t)
  PROVE  LinesKept'
<1>1. TopRow(body[Fn], Frm, Scn, torn) /\ s.use = Scn.use
  BY TopRowOf DEF Moves
<1>2. PICK m \in Nat : m = Len(scans) - 1
  BY TheOthers
<1>3. FramesAfter(frames', m) /\ frames'[Depth] = Frm /\ ~stopped
  BY LinesLeft DEF Going
<1>4. MakingRow(body[Fn], frames'[Depth], s, t, torn)
  BY <1>1 DEF TopRow, MakingRow
<1>5. BodyOf(body, frames', t) = body[Fn]
  BY <1>3, BodyHere DEF Fn
<1>6. TopRow(BodyOf(body, frames', t), frames'[t.depth], t, torn)
  BY <1>5 DEF TopRow
<1> QED
  BY <1>2, <1>3, <1>4, <1>6, RowsOpen

LEMMA WhileLines ==
  ASSUME IInv, Cuts, LinesKept, While
  PROVE  LinesKept'
<1>1. Reads({"initial"}, {"while"}) /\ {"while"} \in SUBSET Token
  BY DEF While, Token
<1>2. /\ frames # <<>> /\ Going /\ Tok # "end" /\ Tok \in {"while"}
      /\ Scn.pos \in 1 .. Len(Scn.text) /\ Tok = body[Fn][Scn.text[Scn.pos]]
      /\ Scn \in Scan /\ Scn.text \in Seq(Nat) /\ body[Fn] \in Seq(Token) /\ Parse(body[Fn], Scn)
  BY <1>1, AtLine
<1>3. ~Plain(body[Fn])
  <2>1. Text(body[Fn], Scn.text)
    BY <1>2 DEF Parse
  <2>2. PICK q \in Nat : q = Scn.text[Scn.pos]
    BY <1>2
  <2>3. PICK r \in Int, z \in Nat : r = Read(Scn.text, Scn.pos) /\ z = To(Scn.text) /\ z <= Len(body[Fn]) /\ q \in r + 1 .. z /\ r >= 0
    BY SMTT(30), <1>2, <2>1, <2>2, TextNext
  <2>4. q \in 1 .. Len(body[Fn])
    BY <2>3
  <2> QED
    BY <1>2, <2>2, <2>4 DEF Plain
<1>4. Moves(Past(Scn)) /\ Past(Scn) \in Scan /\ Past(Scn).text = Scn.text /\ Past(Scn).ifs = Scn.ifs
  BY <1>2, PastIs
<1> DEFINE s == [Past(Scn) EXCEPT !.mode = "while", !.cond = <<>>, !.yes = <<>>, !.else = FALSE]
<1>5. Moves(s)
  <2>1. "while" \in Modes /\ FALSE \in BOOLEAN /\ 0 \in Nat
    BY DEF Modes
  <2> QED
    BY <1>4, <2>1, FieldsMove
<1>6. s.text = Scn.text /\ s.ifs = Scn.ifs
  BY <1>4 DEF Scan
<1>7. scans' = WithScan(s) /\ UNCHANGED <<body, torn, frames>>
  BY DEF While
<1> HIDE DEF s
<1> QED
  BY <1>2, <1>3, <1>5, <1>6, <1>7, RoughTurn

(* In a plain body there is no loop.                                       *)
LEMMA NoLoop ==
  ASSUME IInv, Cuts, LinesKept, frames # <<>>, Going, Scn.mode \in {"while", "loop", "pending"}
  PROVE  ~Plain(body[Fn])
<1>1. TopRow(body[Fn], Frm, Scn, torn)
  BY TopRowOf
<1> QED
  BY <1>1 DEF TopRow, Straight

LEMMA LoopLines ==
  ASSUME IInv, Cuts, LinesKept, Loop
  PROVE  LinesKept'
<1>1. Reads({"while"}, {"loop"}) /\ {"loop"} \in SUBSET Token
  BY DEF Loop, Token
<1>2. /\ frames # <<>> /\ Going /\ Tok # "end" /\ Scn.mode \in {"while"} /\ Scn.text # <<>> /\ Scn \in Scan
  BY <1>1, AtLine
<1>3. ~Plain(body[Fn])
  BY <1>2, NoLoop
<1>4. Moves(Past(Scn)) /\ Past(Scn) \in Scan /\ Past(Scn).text = Scn.text /\ Past(Scn).ifs = Scn.ifs
  BY <1>2, PastIs
<1> DEFINE s == [Past(Scn) EXCEPT !.mode = "loop"]
<1>5. Moves(s)
  <2>1. "loop" \in Modes /\ FALSE \in BOOLEAN /\ 0 \in Nat
    BY DEF Modes
  <2> QED
    BY <1>4, <2>1, FieldsMove
<1>6. s.text = Scn.text /\ s.ifs = Scn.ifs
  BY <1>4 DEF Scan
<1> DEFINE t == NewScan("condition", Depth, Scn.cond)
<1>7. scans' = Append(WithScan(s), t) /\ UNCHANGED <<body, torn, frames>>
  BY DEF Loop, Opened
<1>8. t \in Scan /\ t.use = "condition" /\ t.depth = Depth
  <2>1. ifCounter' \in Int
    BY DEF Loop, IInv, RestOK
  <2>2. Depth \in Nat /\ Scn.cond \in Seq(Nat) /\ "condition" \in Uses
    BY <1>2, Facts DEF Scan, Uses
  <2> HIDE DEF t
  <2>3. t = NewScan("condition", Depth, Scn.cond)
    BY DEF t
  <2> QED
    BY <2>1, <2>2, <2>3, NewScanHere
<1> HIDE DEF s, t
<1> QED
  BY <1>2, <1>3, <1>5, <1>6, <1>7, <1>8, RoughOpen

LEMMA LoopLineLines ==
  ASSUME IInv, Cuts, LinesKept, LoopLine
  PROVE  LinesKept'
<1>1. Reads({"loop"}, Token)
  BY DEF LoopLine
<1>2. frames # <<>> /\ Going /\ Tok # "end" /\ Scn.mode \in {"loop"}
  BY <1>1, AtLine
<1>3. ~Plain(body[Fn])
  BY <1>2, NoLoop
<1>4. Moves(Past(Scn)) /\ Past(Scn) \in Scan /\ Past(Scn).text = Scn.text /\ Past(Scn).ifs = Scn.ifs
  BY <1>2, PastIs
<1> DEFINE p == [Past(Scn) EXCEPT !.mode = "pending"]
<1>5. Moves(p)
  <2>1. "pending" \in Modes /\ FALSE \in BOOLEAN /\ 0 \in Nat
    BY DEF Modes
  <2> QED
    BY <1>4, <2>1, FieldsMove
<1>6. p.text = Scn.text /\ p.ifs = Scn.ifs
  BY <1>4 DEF Scan
<1>7. Moves(Collect(Scn)) /\ Collect(Scn).text = Scn.text /\ Collect(Scn).ifs = Scn.ifs
  BY <1>2, CollectIs
<1>8. UNCHANGED <<body, torn, frames>>
  BY DEF LoopLine
<1>9. PICK s : scans' = WithScan(s) /\ Moves(s) /\ s.text = Scn.text /\ s.ifs = Scn.ifs
  <2>1. scans' = WithScan(IF Tok = "nl" THEN Past(Scn) ELSE IF Tok = "endloop" THEN p ELSE Collect(Scn))
    BY DEF LoopLine
  <2> HIDE DEF p
  <2>2. CASE Tok = "nl"
    BY <1>4, <2>1, <2>2
  <2>3. CASE Tok # "nl" /\ Tok = "endloop"
    BY <1>5, <1>6, <2>1, <2>3
  <2>4. CASE Tok # "nl" /\ Tok # "endloop"
    BY <1>7, <2>1, <2>4
  <2> QED
    BY <2>2, <2>3, <2>4
<1> QED
  BY <1>2, <1>3, <1>8, <1>9, RoughTurn

LEMMA RunLoopLines ==
  ASSUME IInv, Cuts, LinesKept, RunLoop
  PROVE  LinesKept'
<1>1. frames # <<>> /\ Going /\ Scn.mode = "pending"
  BY DEF RunLoop, Reads, Parsing
<1>2. ~Plain(body[Fn])
  BY <1>1, NoLoop
<1>3. Scn \in Scan /\ Scn.text # <<>> /\ Moves(Scn) /\ Depth \in Nat
  <2>1. /\ Scn \in Scan /\ Scn.pos \in 1 .. Len(Scn.text) + 1 /\ Parse(body[Fn], Scn) /\ Depth \in Nat
    BY <1>1, Facts
  <2> QED
    BY <1>1, <2>1 DEF Parse, Moves
<1> DEFINE s == [Scn EXCEPT !.mode = "initial", !.counted = (Tok = "if")]
<1>4. Moves(s)
  <2>1. "initial" \in Modes /\ (Tok = "if") \in BOOLEAN /\ FALSE \in BOOLEAN /\ 0 \in Nat
    BY DEF Modes
  <2> QED
    BY <1>3, <2>1, FieldsMove
<1>5. s.text = Scn.text /\ s.ifs = Scn.ifs
  BY <1>3 DEF Scan
<1> DEFINE t == NewScan("loop", Depth, Scn.yes)
<1>6. /\ scans' = IF condition THEN Append(WithScan(s), t) ELSE WithScan(s)
      /\ UNCHANGED <<body, torn, frames>>
  BY DEF RunLoop, Opened
<1>7. t \in Scan /\ t.use = "loop" /\ t.depth = Depth
  <2>1. ifCounter' \in Int
    BY DEF RunLoop, IInv, RestOK, OneMore
  <2>2. Scn.yes \in Seq(Nat) /\ "loop" \in Uses
    BY <1>3 DEF Scan, Uses
  <2> HIDE DEF t
  <2>3. t = NewScan("loop", Depth, Scn.yes)
    BY DEF t
  <2> QED
    BY <1>3, <2>1, <2>2, <2>3, NewScanHere
<1> HIDE DEF s, t
<1>8. CASE condition
  BY <1>1, <1>2, <1>3, <1>4, <1>5, <1>6, <1>7, <1>8, RoughOpen
<1>9. CASE ~condition
  BY <1>1, <1>2, <1>4, <1>5, <1>6, <1>9, RoughTurn
<1> QED
  BY <1>8, <1>9

-----------------------------------------------------------------------------
(* Between if and end if.                                                  *)

LEMMA ThenLines ==
  ASSUME IInv, Cuts, LinesKept, Then
  PROVE  LinesKept'
<1>1. Reads({"if"}, {"then"}) /\ {"then"} \in SUBSET Token
  BY DEF Then, Token
<1>2. /\ frames # <<>> /\ Going /\ ~stopped /\ Scn.mode \in {"if"} /\ Tok # "end" /\ Tok \in {"then"}
      /\ Scn.pos \in 1 .. Len(Scn.text) /\ Here = Scn.text[Scn.pos] /\ Tok = body[Fn][Scn.text[Scn.pos]] /\ Scn.text # <<>>
      /\ Scn \in Scan /\ Scn.text \in Seq(Nat) /\ body[Fn] \in Seq(Token) /\ Parse(body[Fn], Scn)
      /\ TopRow(body[Fn], Frm, Scn, torn)
  BY <1>1, AtLine
<1>3. /\ Moves(Past(Scn)) /\ Past(Scn) \in Scan /\ Past(Scn).pos = Scn.pos + 1 /\ Past(Scn).text = Scn.text
      /\ Past(Scn).ifs = Scn.ifs /\ Past(Scn).use = Scn.use /\ Past(Scn).yes = Scn.yes
      /\ Past(Scn).no = Scn.no /\ Past(Scn).else = Scn.else
  BY <1>2, PastIs, PastUse
<1>4. Here \in Nat
  BY <1>2
<1> DEFINE s == [Past(Scn) EXCEPT !.mode = "then", !.at = Here]
<1>5. Moves(s)
  <2>1. "then" \in Modes /\ FALSE \in BOOLEAN /\ 0 \in Nat
    BY DEF Modes
  <2> QED
    BY <1>3, <1>4, <2>1, FieldsMove
<1>6. /\ s.pos = Scn.pos + 1 /\ s.text = Scn.text /\ s.ifs = Scn.ifs /\ s.mode = "then" /\ s.at = Here /\ s.use = Scn.use
      /\ s.yes = Scn.yes /\ s.no = Scn.no /\ s.else = Scn.else
  BY <1>3 DEF Scan
<1> DEFINE t == NewScan("condition", Depth, Scn.cond)
<1>7. scans' = Append(WithScan(s), t) /\ UNCHANGED <<body, torn, frames>>
  BY DEF Then, Opened
<1>8. Scn.cond \in Seq(Nat)
  BY <1>2 DEF Scan
<1>9. t \in Scan /\ t.use = "condition" /\ t.depth = Depth /\ t.text = Scn.cond /\ t.mode = "initial"
  <2>1. ifCounter' \in Int
    BY DEF Then, IInv, RestOK
  <2>2. Depth \in Nat /\ "condition" \in Uses
    BY <1>2, Facts DEF Uses
  <2> HIDE DEF t
  <2>3. t = NewScan("condition", Depth, Scn.cond)
    BY DEF t
  <2> QED
    BY <1>8, <2>1, <2>2, <2>3, NewScanHere
<1> HIDE DEF s, t
<1>10. ASSUME Plain(body[Fn])
       PROVE  /\ Scn.use # "condition" /\ Straight(body[Fn], Scn) /\ Straight(body[Fn], s) /\ Straight(body[Fn], t)
              /\ s.at = Read(Scn.text, Scn.pos + 1)
  <2>1. Straight(body[Fn], Scn)
    BY <1>2, <1>10 DEF TopRow
  <2>2. Scn.use # "condition"
    BY <1>2, <2>1 DEF Straight
  <2>3. Read(Scn.text, Scn.pos + 1) = Scn.text[Scn.pos]
    BY <1>2, <2>1, <2>2, StraightNext
  <2>4. s.at = Read(s.text, s.pos) /\ s.at = Read(Scn.text, Scn.pos + 1)
    BY <1>2, <1>6, <2>3
  <2>5. ~s.else /\ s.yes = <<>> /\ s.no = <<>>
    BY <1>2, <1>6 DEF Parse, InIf, Between
  <2>6. Gathered(body[Fn], s, Read(s.text, s.pos))
    BY <1>4, <1>6, <2>4, <2>5, GatheredStart
  <2>7. Straight(body[Fn], s)
    BY <1>6, <2>1, <2>2, <2>6 DEF Straight
  <2>8. \A k \in 1 .. Len(Scn.cond) : body[Fn][Scn.cond[k]] \notin Structure \cup {"nl"}
    BY <1>2, <1>8, <1>10, <2>1, <2>2, IfPast
  <2>9. Straight(body[Fn], t)
    BY <1>9, <2>8 DEF Straight
  <2> QED
    BY <2>1, <2>2, <2>4, <2>7, <2>9
<1>11. MakingRow(body[Fn], Frm, s, t, torn)
  <2>1. ASSUME Plain(body[Fn]), ~torn, ~Frm.returned
        PROVE  Knows(body[Fn], Frm, s)
    <3>1. Straight(body[Fn], Scn) /\ Scn.use # "condition"
      BY <1>10, <2>1
    <3>2. Told(body[Fn], Frm, Read(Scn.text, Scn.pos))
      BY <1>2, <2>1, <3>1 DEF TopRow, Knows, Place
    <3>3. Told(body[Fn], Frm, Read(Scn.text, Scn.pos + 1))
      <4>1. body[Fn][Scn.text[Scn.pos]] # "nl"
        BY <1>2
      <4> QED
        BY <1>2, <2>1, <3>1, <3>2, <4>1, ToldPast
    <3>4. Place(s) = Read(Scn.text, Scn.pos + 1)
      BY <1>6, <1>10, <2>1 DEF Place
    <3> QED
      BY <3>3, <3>4 DEF Knows
  <2>2. s.use = "branch" => s.ifs = 0
    BY <1>2, <1>6 DEF TopRow
  <2> QED
    BY <1>2, <1>6, <1>9, <1>10, <2>1, <2>2 DEF MakingRow
<1>12. TopRow(body[Fn], Frm, t, torn)
  BY <1>9, <1>10 DEF TopRow
<1>13. PICK m \in Nat : m = Len(scans) - 1
  BY <1>2, TheOthers
<1>14. FramesAfter(frames', m) /\ frames'[Depth] = Frm
  BY <1>7, LinesLeft
<1>15. BodyOf(body, frames', t) = body[Fn]
  BY <1>9, <1>14, BodyHere DEF Fn
<1> QED
  BY <1>2, <1>5, <1>6, <1>7, <1>9, <1>11, <1>12, <1>13, <1>14, <1>15, RowsOpen

LEMMA CollectUse ==
  ASSUME IInv, Cuts, frames # <<>>, Tok # "end"
  PROVE  Collect(Scn).use = Scn.use
<1>1. Scn \in Scan
  BY Facts
<1> QED
  BY <1>1 DEF Collect, Scan

(* What is known at a token between then and end if.                       *)
LEMMA AtThen ==
  ASSUME IInv, Cuts, LinesKept, Reads({"then"}, Token), Plain(body[Fn])
  PROVE  /\ Scn.use # "condition" /\ Straight(body[Fn], Scn)
         /\ \E r \in Nat : /\ r = Read(Scn.text, Scn.pos) /\ Scn.text[Scn.pos] = r + 1 /\ r + 1 <= Len(body[Fn])
                           /\ Read(Scn.text, Scn.pos + 1) = r + 1 /\ Gathered(body[Fn], Scn, r)
         /\ ~torn => Told(body[Fn], Frm, Scn.at)
<1>1. /\ Scn.mode \in {"then"} /\ Scn.pos \in 1 .. Len(Scn.text) /\ Scn.text # <<>> /\ ~Frm.returned
      /\ Scn \in Scan /\ Scn.text \in Seq(Nat) /\ body[Fn] \in Seq(Token) /\ Parse(body[Fn], Scn)
      /\ TopRow(body[Fn], Frm, Scn, torn)
  BY AtLine
<1>2. Straight(body[Fn], Scn)
  BY <1>1 DEF TopRow
<1>3. Scn.use # "condition" /\ Gathered(body[Fn], Scn, Read(Scn.text, Scn.pos))
  BY <1>1, <1>2 DEF Straight
<1>4. PICK r \in Nat : r = Read(Scn.text, Scn.pos) /\ Scn.text[Scn.pos] = r + 1 /\ r + 1 <= Len(body[Fn])
                       /\ Read(Scn.text, Scn.pos + 1) = r + 1
  <2>1. /\ Read(Scn.text, Scn.pos) \in Nat /\ Scn.text[Scn.pos] = Read(Scn.text, Scn.pos) + 1
        /\ Scn.text[Scn.pos] \in 1 .. Len(body[Fn]) /\ Read(Scn.text, Scn.pos + 1) = Scn.text[Scn.pos]
    BY <1>1, <1>2, <1>3, StraightNext
  <2>2. PICK r \in Nat : r = Read(Scn.text, Scn.pos)
    BY <2>1
  <2>3. r + 1 \in 1 .. Len(body[Fn])
    BY <2>1, <2>2
  <2> QED
    BY <2>1, <2>2, <2>3
<1>5. ~torn => Told(body[Fn], Frm, Scn.at)
  BY <1>1, <1>3 DEF TopRow, Knows, Place
<1> QED
  BY <1>2, <1>3, <1>4, <1>5

(* A line is collected.                                                    *)
LEMMA CollectedRow ==
  ASSUME IInv, Cuts, LinesKept, Reads({"then"}, Token),
         NEW s, s.use = Scn.use, s.ifs = Scn.ifs, s.text = Scn.text, s.pos = Scn.pos + 1, s.mode = Scn.mode, s.at = Scn.at,
         \A r \in Nat : r + 1 = Scn.text[Scn.pos] /\ Gathered(body[Fn], Scn, r) => Gathered(body[Fn], s, r + 1)
  PROVE  TopRow(body[Fn], Frm, s, torn)
<1>1. Scn.mode \in {"then"} /\ TopRow(body[Fn], Frm, Scn, torn)
  BY AtLine
<1>2. s.use = "branch" => s.ifs = 0
  BY <1>1 DEF TopRow
<1>3. ASSUME Plain(body[Fn])
      PROVE  Straight(body[Fn], s) /\ (~torn => Knows(body[Fn], Frm, s))
  <2>1. Scn.use # "condition" /\ Straight(body[Fn], Scn) /\ (~torn => Told(body[Fn], Frm, Scn.at))
    BY <1>3, AtThen
  <2>2. PICK r \in Nat : /\ r = Read(Scn.text, Scn.pos) /\ Scn.text[Scn.pos] = r + 1
                         /\ Read(Scn.text, Scn.pos + 1) = r + 1 /\ Gathered(body[Fn], Scn, r)
    BY <1>3, AtThen
  <2>3. Gathered(body[Fn], s, Read(s.text, s.pos))
    BY <2>2
  <2>4. Straight(body[Fn], s)
    BY <1>1, <2>1, <2>3 DEF Straight
  <2>5. Place(s) = Scn.at
    BY <1>1 DEF Place
  <2> QED
    BY <2>1, <2>4, <2>5 DEF Knows
<1> QED
  BY <1>2, <1>3 DEF TopRow

LEMMA IfLineLines ==
  ASSUME IInv, Cuts, LinesKept, IfLine
  PROVE  LinesKept'
<1>1. Reads({"then"}, Token)
  BY DEF IfLine
<1>2. /\ frames # <<>> /\ ~stopped /\ Tok # "end" /\ Here = Scn.text[Scn.pos] /\ Scn \in Scan
  BY <1>1, AtLine
<1>3. Scn.yes \in Seq(Nat) /\ Scn.no \in Seq(Nat) /\ Scn.at \in Nat
  BY <1>2 DEF Scan
<1> DEFINE s == Collect(Scn)
<1>4. /\ Moves(s) /\ s.pos = Scn.pos + 1 /\ s.text = Scn.text /\ s.ifs = Scn.ifs /\ s.mode = Scn.mode /\ s.use = Scn.use
      /\ s.yes = (IF Scn.else THEN Scn.yes ELSE Append(Scn.yes, Here))
      /\ s.no = (IF Scn.else THEN Append(Scn.no, Here) ELSE Scn.no)
      /\ s.else = Scn.else /\ s.at = Scn.at
  BY <1>2, CollectIs, CollectUse
<1>5. scans' = WithScan(s) /\ UNCHANGED <<body, torn, frames>>
  BY DEF IfLine
<1> HIDE DEF s
<1>6. ASSUME NEW r \in Nat, r + 1 = Scn.text[Scn.pos], Gathered(body[Fn], Scn, r)
      PROVE  Gathered(body[Fn], s, r + 1)
  <2>1. Here = r + 1
    BY <1>2, <1>6
  <2> QED
    BY <1>3, <1>4, <1>6, <2>1, GatheredLine
<1>7. TopRow(body[Fn], Frm, s, torn)
  BY <1>1, <1>4, <1>6, CollectedRow
<1> QED
  BY <1>2, <1>4, <1>5, <1>7, TurnSame

LEMMA ElseLines ==
  ASSUME IInv, Cuts, LinesKept, Else
  PROVE  LinesKept'
<1>1. Reads({"then"}, Token) /\ Tok = "else" /\ ifCounter = 1
  BY DEF Else, OwnElse
<1>2. /\ frames # <<>> /\ ~stopped /\ Tok # "end" /\ Scn.mode \in {"then"} /\ Tok = body[Fn][Scn.text[Scn.pos]]
      /\ Scn.pos \in 1 .. Len(Scn.text)
      /\ Scn \in Scan /\ Scn.text \in Seq(Nat) /\ body[Fn] \in Seq(Token) /\ Parse(body[Fn], Scn)
  BY <1>1, AtLine
<1>3. Scn.yes \in Seq(Nat) /\ Scn.at \in Nat
  BY <1>2 DEF Scan
<1>4. /\ Moves(Past(Scn)) /\ Past(Scn) \in Scan /\ Past(Scn).pos = Scn.pos + 1 /\ Past(Scn).text = Scn.text
      /\ Past(Scn).ifs = Scn.ifs /\ Past(Scn).use = Scn.use /\ Past(Scn).yes = Scn.yes
      /\ Past(Scn).no = Scn.no /\ Past(Scn).mode = Scn.mode /\ Past(Scn).at = Scn.at
  BY <1>2, PastIs, PastUse
<1> DEFINE s == [Past(Scn) EXCEPT !.else = TRUE]
<1>5. Moves(s)
  <2>1. "then" \in Modes /\ TRUE \in BOOLEAN /\ 0 \in Nat
    BY DEF Modes
  <2> QED
    BY <1>4, <2>1, FieldsMove
<1>6. /\ s.pos = Scn.pos + 1 /\ s.text = Scn.text /\ s.ifs = Scn.ifs /\ s.mode = Scn.mode /\ s.at = Scn.at /\ s.use = Scn.use
      /\ s.yes = Scn.yes /\ s.no = Scn.no /\ s.else
  BY <1>4 DEF Scan
<1>7. scans' = WithScan(s) /\ UNCHANGED <<body, torn, frames>>
  BY DEF Else
<1> HIDE DEF s
<1>8. ~Scn.else
  <2>1. PICK a \in Nat, r \in Nat, q \in Nat, z \in Nat : Reading(Scn, a, r, q) /\ Ahead(body[Fn], a, r, q, z)
    BY <1>2, IsAhead DEF Parse
  <2>2. body[Fn][q] = "else"
    BY <1>1, <1>2, <2>1 DEF Reading
  <2>3. IfsNest(body[Fn]) /\ ifCounter \in Int /\ ifCounter >= Owes(body[Fn], Scn) /\ AtWork(body[Fn], Scn, ifCounter)
    BY <1>1, InBranches
  <2>4. Owes(body[Fn], Scn) <= 1 /\ AtWork(body[Fn], Scn, 1)
    BY <1>1, <2>3, OwesOne
  <2>5. Scn.mode = "then"
    BY <1>2
  <2> QED
    BY <1>2, <2>1, <2>2, <2>3, <2>4, <2>5, AtElse
<1>9. ASSUME NEW r \in Nat, r + 1 = Scn.text[Scn.pos], Gathered(body[Fn], Scn, r)
      PROVE  Gathered(body[Fn], s, r + 1)
  <2>1. body[Fn][r + 1] = "else"
    BY <1>1, <1>2, <1>9
  <2> QED
    BY <1>3, <1>6, <1>8, <1>9, <2>1, GatheredElse
<1>10. TopRow(body[Fn], Frm, s, torn)
  BY <1>1, <1>6, <1>9, CollectedRow
<1> QED
  BY <1>2, <1>5, <1>6, <1>7, <1>10, TurnSame

-----------------------------------------------------------------------------
(* The end of an if.                                                       *)

(* After the if, a parse of the first branch.                              *)
LEMMA YesLines ==
  ASSUME NEW b \in Seq(Token), Plain(b), NEW r \in Nat, r + 1 <= Len(b), b[r + 1] # "nl",
         NEW s, s.at \in Nat, s.yes \in Seq(Nat), s.no \in Seq(Nat), s.else \in BOOLEAN, Gathered(b, s, r),
         NEW f, Told(b, f, s.at), f.inner \in Nat,
         NEW t, t.mode = "initial", t.line = f.inner, t.backup, t.else = s.else, t.yes = s.yes, t.no = s.no,
         Read(t.text, t.pos) = r + 1,
         NEW g, g.inner = f.inner, g.announced = f.announced
  PROVE  Awaits(b, g, t, s.yes) /\ (s.yes # <<>> => Told(b, g, From(s.yes)))
<1>1. \A p : Told(b, g, p) <=> Told(b, f, p)
  BY ToldSame
<1>2. f.inner = TrueLine(b, s.at)
  BY DEF Told
<1>3. CASE s.else
  <2>1. PICK e \in s.at + 1 .. r :
          /\ TrueLine(b, r + 1) = TrueLine(b, s.at) + Count(b, s.yes) + Count(b, s.no)
          /\ s.yes # <<>> => From(s.yes) = s.at
    BY <1>3, LinesElse
  <2>2. t.line + Count(b, t.yes) + Count(b, t.no) = TrueLine(b, r + 1)
    BY <1>2, <2>1
  <2>3. Awaits(b, g, t, s.yes)
    BY <1>3, <2>2 DEF Awaits
  <2>4. s.yes # <<>> => Told(b, g, From(s.yes))
    BY <1>1, <2>1
  <2> QED
    BY <2>3, <2>4
<1>4. CASE ~s.else
  <2>1. /\ s.at <= r
        /\ s.yes = <<>> => TrueLine(b, r + 1) = TrueLine(b, s.at)
        /\ s.yes # <<>> => From(s.yes) = s.at /\ To(s.yes) = r
        /\ TrueLine(b, r + 1) = TrueLine(b, r)
    BY <1>4, LinesNoElse
  <2>2. s.yes = <<>> => Told(b, g, r + 1)
    <3> SUFFICES ASSUME s.yes = <<>> PROVE Told(b, f, r + 1)
      BY <1>1
    <3>1. s.at \in 0 .. Len(b) /\ r + 1 \in s.at .. Len(b)
      BY <2>1
    <3> QED
      BY <2>1, <3>1, ToldOn
  <2>3. s.yes # <<>> => To(s.yes) <= r + 1 /\ TrueLine(b, To(s.yes)) = TrueLine(b, r + 1)
    BY <2>1
  <2>4. Awaits(b, g, t, s.yes)
    BY <1>4, <2>2, <2>3 DEF Awaits
  <2>5. s.yes # <<>> => Told(b, g, From(s.yes))
    BY <1>1, <2>1
  <2> QED
    BY <2>4, <2>5
<1> QED
  BY <1>3, <1>4

(* After the if, a parse of the second branch.                             *)
LEMMA NoLines ==
  ASSUME NEW b \in Seq(Token), Plain(b), NEW r \in Nat, r + 1 <= Len(b), b[r + 1] # "nl",
         NEW s, s.at \in Nat, s.yes \in Seq(Nat), s.no \in Seq(Nat), s.else, Gathered(b, s, r),
         NEW f, Told(b, f, s.at),
         NEW t, t.mode = "initial", ~t.backup, Read(t.text, t.pos) = r + 1,
         NEW g, g.inner = f.inner + Count(b, s.yes)
  PROVE  Awaits(b, g, t, s.no) /\ (s.no # <<>> => Told(b, g, From(s.no)))
<1>1. f.inner = TrueLine(b, s.at)
  BY DEF Told
<1>2. PICK e \in s.at + 1 .. r :
           /\ OnLineOfElse(b, e)
           /\ TrueLine(b, e) = TrueLine(b, s.at) + Count(b, s.yes)
           /\ TrueLine(b, r + 1) = TrueLine(b, r)
           /\ s.no = <<>> => TrueLine(b, r + 1) = TrueLine(b, e) /\ OnLineOfElse(b, r + 1)
           /\ s.no # <<>> => From(s.no) = e /\ To(s.no) = r
  BY LinesElse
<1>3. g.inner = TrueLine(b, e)
  BY <1>1, <1>2
<1>4. s.no = <<>> => Told(b, g, r + 1)
  BY <1>2, <1>3 DEF Told
<1>5. s.no # <<>> => To(s.no) <= r + 1 /\ TrueLine(b, To(s.no)) = TrueLine(b, r + 1)
  BY <1>2
<1>6. s.no # <<>> => Told(b, g, From(s.no))
  BY <1>2, <1>3 DEF Told
<1> QED
  BY <1>4, <1>5, <1>6 DEF Awaits

(* A branch is skipped.                                                    *)
LEMMA SkippedLines ==
  ASSUME NEW b \in Seq(Token), Plain(b), NEW r \in Nat, r + 1 <= Len(b), b[r + 1] # "nl",
         NEW s, s.at \in Nat, s.yes \in Seq(Nat), ~s.else, Gathered(b, s, r),
         NEW f, Told(b, f, s.at),
         NEW g, g.inner = f.inner + Count(b, s.yes), g.announced = g.inner
  PROVE  Told(b, g, r + 1)
<1>1. f.inner = TrueLine(b, s.at)
  BY DEF Told
<1>2. TrueLine(b, r + 1) = TrueLine(b, s.at) + Count(b, s.yes)
  BY LinesNoElse
<1> QED
  BY <1>1, <1>2 DEF Told

(* What is known at an end if.                                             *)
LEMMA AtEnd ==
  ASSUME IInv, Cuts, LinesKept, EndIf
  PROVE  /\ frames # <<>> /\ ~stopped /\ ~Frm.returned /\ Reads({"then"}, Token) /\ ifCounter' = 0 /\ Tok # "nl"
         /\ Scn \in Scan /\ Scn.yes \in Seq(Nat) /\ Scn.no \in Seq(Nat) /\ Scn.at \in Nat /\ Scn.else \in BOOLEAN
         /\ Scn.text # <<>> /\ Tok = body[Fn][Scn.text[Scn.pos]] /\ body[Fn] \in Seq(Token)
         /\ Scn.use = "branch" => Scn.ifs = 0
         /\ Frm \in Frame /\ Frm.fn = Fn /\ Frm.inner \in Nat
         /\ Moves(AfterIf) /\ AfterIf.text = Scn.text /\ AfterIf.ifs = Scn.ifs /\ AfterIf.mode = "initial"
         /\ AfterIf.use = Scn.use /\ AfterIf.pos = Scn.pos + 1 /\ AfterIf.line = Frm.inner /\ AfterIf.backup = condition
         /\ AfterIf.else = Scn.else /\ AfterIf.yes = Scn.yes /\ AfterIf.no = Scn.no
<1>1. Reads({"then"}, Token) /\ Tok = "endif" /\ ifCounter = 1 /\ ifCounter' = ifCounter - 1
  BY DEF EndIf, OwnEnd, OneLess
<1>2. /\ frames # <<>> /\ ~stopped /\ ~Frm.returned /\ Tok # "end" /\ Scn.text # <<>> /\ Tok = body[Fn][Scn.text[Scn.pos]]
      /\ Scn \in Scan /\ body[Fn] \in Seq(Token) /\ TopRow(body[Fn], Frm, Scn, torn)
  BY <1>1, AtLine
<1>3. Scn.yes \in Seq(Nat) /\ Scn.no \in Seq(Nat) /\ Scn.at \in Nat /\ Scn.else \in BOOLEAN
  BY <1>2 DEF Scan
<1>4. Frm \in Frame /\ Frm.fn = Fn /\ Frm.inner \in Nat
  <2>1. Frm \in Frame
    BY <1>2, Inside
  <2> QED
    BY <2>1 DEF Frame, Fn
<1>5. Moves(AfterIf) /\ AfterIf.text = Scn.text /\ AfterIf.ifs = Scn.ifs /\ AfterIf.mode = "initial"
  BY AtEndIf
<1>6. /\ Past(Scn) \in Scan /\ Past(Scn).use = Scn.use /\ Past(Scn).pos = Scn.pos + 1
      /\ Past(Scn).else = Scn.else /\ Past(Scn).yes = Scn.yes /\ Past(Scn).no = Scn.no
  BY <1>2, PastIs, PastUse
<1>7. /\ AfterIf.use = Scn.use /\ AfterIf.pos = Scn.pos + 1 /\ AfterIf.line = Frm.inner /\ AfterIf.backup = condition
      /\ AfterIf.else = Scn.else /\ AfterIf.yes = Scn.yes /\ AfterIf.no = Scn.no
  BY <1>6 DEF AfterIf, Scan
<1>8. ifCounter' = 0
  BY <1>1
<1>9. Tok # "nl" /\ (Scn.use = "branch" => Scn.ifs = 0)
  BY <1>1, <1>2 DEF TopRow
<1> QED
  BY <1>1, <1>2, <1>3, <1>4, <1>5, <1>7, <1>8, <1>9

(* A branch is parsed.                                                     *)
LEMMA RunLines ==
  ASSUME IInv, Cuts, LinesKept, EndIf, UNCHANGED <<body, torn>>,
         NEW f \in Frame, f.fn = Fn, (f.inner = Frm.inner /\ f.announced = Frm.announced) \/ Scn.else, frames' = WithFrame(f),
         NEW y \in {Scn.yes, Scn.no}, y = Scn.no => y = Scn.yes \/ Scn.else, scans' = Opened(AfterIf, "branch", y),
         Plain(body[Fn]) /\ ~torn => Awaits(body[Fn], f, AfterIf, y) /\ (y # <<>> => Told(body[Fn], f, From(y)))
  PROVE  LinesKept'
<1> DEFINE t == NewScan("branch", Depth, y)
<1>1. /\ frames # <<>> /\ ~stopped /\ ~Frm.returned /\ Reads({"then"}, Token) /\ ifCounter' = 0 /\ Tok # "nl"
      /\ Scn \in Scan /\ Scn.yes \in Seq(Nat) /\ Scn.no \in Seq(Nat) /\ Scn.at \in Nat /\ Scn.else \in BOOLEAN
      /\ Scn.text # <<>> /\ Tok = body[Fn][Scn.text[Scn.pos]] /\ body[Fn] \in Seq(Token)
      /\ Scn.use = "branch" => Scn.ifs = 0
  BY AtEnd
<1>2. /\ Moves(AfterIf) /\ AfterIf.text = Scn.text /\ AfterIf.ifs = Scn.ifs /\ AfterIf.mode = "initial"
      /\ AfterIf.use = Scn.use
  BY AtEnd
<1>3. scans' = Append(WithScan(AfterIf), t)
  BY DEF Opened
<1>4. y \in Seq(Nat)
  BY <1>1
<1>5. t \in Scan /\ t.use = "branch" /\ t.depth = Depth /\ t.text = y /\ t.mode = "initial" /\ t.ifs = 0 /\ t.pos = 1
  <2>1. Depth \in Nat /\ "branch" \in Uses /\ ifCounter' \in Int
    BY <1>1, Facts DEF Uses
  <2> HIDE DEF t
  <2>2. t = NewScan("branch", Depth, y)
    BY DEF t
  <2> QED
    BY <1>1, <1>4, <2>1, <2>2, NewScanHere
<1> HIDE DEF t
<1>6. ASSUME Plain(body[Fn])
      PROVE  Scn.use # "condition" /\ Straight(body[Fn], Scn) /\ Full(y, From(y), To(y))
  <2>1. Scn.use # "condition" /\ Straight(body[Fn], Scn)
    BY <1>1, <1>6, AtThen
  <2>2. PICK r \in Nat : Scn.text[Scn.pos] = r + 1 /\ r + 1 <= Len(body[Fn]) /\ Gathered(body[Fn], Scn, r)
    BY <1>1, <1>6, AtThen
  <2>3. body[Fn][r + 1] # "nl"
    BY <1>1, <2>2
  <2>4. CASE Scn.else
    <3>1. Full(Scn.yes, From(Scn.yes), To(Scn.yes)) /\ Full(Scn.no, From(Scn.no), To(Scn.no))
      BY <1>1, <1>6, <2>2, <2>3, <2>4, LinesElse
    <3> QED
      BY <2>1, <3>1
  <2>5. CASE ~Scn.else
    <3>1. Full(Scn.yes, From(Scn.yes), To(Scn.yes))
      BY <1>1, <1>6, <2>2, <2>3, <2>5, LinesNoElse
    <3> QED
      BY <2>1, <2>5, <3>1
  <2> QED
    BY <2>4, <2>5
<1>7. PICK m \in Nat : m = Len(scans) - 1
  BY <1>1, TheOthers
<1>8. FramesAfter(frames', m) /\ frames'[Depth] = f
  <2>1. \/ f.inner = Frm.inner /\ f.announced = Frm.announced
        \/ Scn.use # "condition" /\ Scn.text # <<>>
        \/ ~Plain(body[Fn])
    BY <1>1, <1>6
  <2> QED
    BY <1>1, <2>1, LinesWith
<1>9. MakingRow(body[Fn], f, AfterIf, t, torn)
  <2>1. Plain(body[Fn]) => Straight(body[Fn], AfterIf) /\ AfterIf.use # "condition"
    BY <1>2, <1>6 DEF Straight
  <2> QED
    BY <1>1, <1>2, <1>5, <2>1 DEF MakingRow
<1>10. TopRow(body[Fn], f, t, torn)
  <2>1. Plain(body[Fn]) => Straight(body[Fn], t)
    BY <1>5, <1>6 DEF Straight
  <2>2. Place(t) = From(y)
    BY <1>5 DEF Place, Read
  <2>3. Plain(body[Fn]) /\ ~torn => Knows(body[Fn], f, t)
    BY <1>5, <2>2 DEF Knows
  <2> QED
    BY <1>5, <2>1, <2>3 DEF TopRow
<1>11. BodyOf(body, frames', t) = body[Fn] /\ frames'[t.depth] = f
  BY <1>5, <1>8, BodyHere
<1> QED
  BY <1>1, <1>2, <1>3, <1>5, <1>7, <1>8, <1>9, <1>10, <1>11, RowsOpen

LEMMA RunTrueLines ==
  ASSUME IInv, Cuts, LinesKept, RunTrueBlock
  PROVE  LinesKept'
<1>1. EndIf /\ condition /\ scans' = Opened(AfterIf, "branch", Scn.yes) /\ frames' = WithFrame(Taking("yes")) /\ UNCHANGED <<body, torn>>
  BY DEF RunTrueBlock
<1>2. /\ frames # <<>> /\ Reads({"then"}, Token) /\ Tok # "nl"
      /\ Scn \in Scan /\ Scn.yes \in Seq(Nat) /\ Scn.no \in Seq(Nat) /\ Scn.at \in Nat /\ Scn.else \in BOOLEAN
      /\ Tok = body[Fn][Scn.text[Scn.pos]] /\ body[Fn] \in Seq(Token)
      /\ Frm \in Frame /\ Frm.inner \in Nat
      /\ AfterIf.text = Scn.text /\ AfterIf.mode = "initial" /\ AfterIf.pos = Scn.pos + 1
      /\ AfterIf.line = Frm.inner /\ AfterIf.backup = condition
      /\ AfterIf.else = Scn.else /\ AfterIf.yes = Scn.yes /\ AfterIf.no = Scn.no
  BY <1>1, AtEnd
<1> DEFINE f == Taking("yes")
<1>3. f \in Frame /\ f.fn = Fn /\ f.inner = Frm.inner /\ f.announced = Frm.announced
  <2>1. f \in Frame /\ f.fn = Fn
    BY <1>2, TakingSet DEF Side
  <2> QED
    BY <1>2, <2>1 DEF Taking, Frame
<1> HIDE DEF f
<1>4. ASSUME Plain(body[Fn]), ~torn
      PROVE  Awaits(body[Fn], f, AfterIf, Scn.yes) /\ (Scn.yes # <<>> => Told(body[Fn], f, From(Scn.yes)))
  <2>1. Told(body[Fn], Frm, Scn.at)
    BY <1>2, <1>4, AtThen
  <2>2. PICK r \in Nat : /\ Scn.text[Scn.pos] = r + 1 /\ r + 1 <= Len(body[Fn])
                         /\ Read(Scn.text, Scn.pos + 1) = r + 1 /\ Gathered(body[Fn], Scn, r)
    BY <1>2, <1>4, AtThen
  <2>3. body[Fn][r + 1] # "nl" /\ Read(AfterIf.text, AfterIf.pos) = r + 1 /\ AfterIf.backup
    BY <1>1, <1>2, <2>2
  <2> QED
    BY <1>2, <1>3, <1>4, <2>1, <2>2, <2>3, YesLines
<1>5. frames' = WithFrame(f)
  BY <1>1 DEF f
<1> QED
  BY <1>1, <1>2, <1>3, <1>4, <1>5, RunLines

LEMMA RunFalseLines ==
  ASSUME IInv, Cuts, LinesKept, RunFalseBlock
  PROVE  LinesKept'
<1> DEFINE f == [Taking("no") EXCEPT !.inner = Frm.inner + Newlines(Scn.yes)]
<1>1. EndIf /\ ~condition /\ Scn.else /\ scans' = Opened(AfterIf, "branch", Scn.no) /\ frames' = WithFrame(f) /\ UNCHANGED <<body, torn>>
  BY DEF RunFalseBlock
<1>2. /\ frames # <<>> /\ Reads({"then"}, Token) /\ Tok # "nl"
      /\ Scn \in Scan /\ Scn.yes \in Seq(Nat) /\ Scn.no \in Seq(Nat) /\ Scn.at \in Nat /\ Scn.else \in BOOLEAN
      /\ Tok = body[Fn][Scn.text[Scn.pos]] /\ body[Fn] \in Seq(Token)
      /\ Frm \in Frame /\ Frm.inner \in Nat
      /\ AfterIf.text = Scn.text /\ AfterIf.mode = "initial" /\ AfterIf.pos = Scn.pos + 1
      /\ AfterIf.backup = condition
  BY <1>1, AtEnd
<1>3. f \in Frame /\ f.fn = Fn /\ f.inner = Frm.inner + Newlines(Scn.yes)
  <2>1. Taking("no") \in Frame /\ Taking("no").fn = Fn
    BY <1>2, TakingSet DEF Side
  <2>2. Frm.inner + Newlines(Scn.yes) \in Nat
    <3>1. Newlines(Scn.yes) \in Nat
      BY <1>2, NewlinesNat
    <3> QED
      BY <1>2, <3>1
  <2> QED
    BY <2>1, <2>2 DEF Frame
<1>4. Newlines(Scn.yes) = Count(body[Fn], Scn.yes)
  BY DEF Newlines, Count
<1> HIDE DEF f
<1>5. ASSUME Plain(body[Fn]), ~torn
      PROVE  Awaits(body[Fn], f, AfterIf, Scn.no) /\ (Scn.no # <<>> => Told(body[Fn], f, From(Scn.no)))
  <2>1. Told(body[Fn], Frm, Scn.at)
    BY <1>2, <1>5, AtThen
  <2>2. PICK r \in Nat : /\ Scn.text[Scn.pos] = r + 1 /\ r + 1 <= Len(body[Fn])
                         /\ Read(Scn.text, Scn.pos + 1) = r + 1 /\ Gathered(body[Fn], Scn, r)
    BY <1>2, <1>5, AtThen
  <2>3. body[Fn][r + 1] # "nl" /\ Read(AfterIf.text, AfterIf.pos) = r + 1 /\ ~AfterIf.backup
    BY <1>1, <1>2, <2>2
  <2>4. f.inner = Frm.inner + Count(body[Fn], Scn.yes)
    BY <1>3, <1>4
  <2> QED
    BY <1>1, <1>2, <1>5, <2>1, <2>2, <2>3, <2>4, NoLines
<1> QED
  BY <1>1, <1>2, <1>3, <1>5, RunLines

LEMMA SkipLines ==
  ASSUME IInv, Cuts, LinesKept, SkipTrueBlock
  PROVE  LinesKept'
<1> DEFINE f == Taking("no")
           l == Frm.inner + Newlines(Scn.yes)
<1>1. EndIf /\ ~condition /\ ~Scn.else /\ scans' = WithScan(AfterIf) /\ Raise(f, l) /\ UNCHANGED <<body, torn>>
  BY DEF SkipTrueBlock
<1>2. /\ frames # <<>> /\ ~stopped /\ ~Frm.returned /\ Reads({"then"}, Token) /\ Tok # "nl"
      /\ Scn \in Scan /\ Scn.yes \in Seq(Nat) /\ Scn.no \in Seq(Nat) /\ Scn.at \in Nat /\ Scn.else \in BOOLEAN
      /\ Tok = body[Fn][Scn.text[Scn.pos]] /\ body[Fn] \in Seq(Token) /\ Scn.text # <<>>
      /\ Frm \in Frame /\ Frm.inner \in Nat
      /\ Scn.use = "branch" => Scn.ifs = 0
  BY <1>1, AtEnd
<1>3. /\ Moves(AfterIf) /\ AfterIf.text = Scn.text /\ AfterIf.mode = "initial" /\ AfterIf.pos = Scn.pos + 1
      /\ AfterIf.use = Scn.use /\ AfterIf.ifs = Scn.ifs
  BY <1>1, AtEnd
<1>4. f \in Frame /\ f.fn = Fn
  BY <1>2, TakingSet DEF Side
<1>5. l \in Nat
  <2>1. Newlines(Scn.yes) \in Nat
    BY <1>2, NewlinesNat
  <2> QED
    BY <1>2, <2>1
<1>6. l = Frm.inner + Count(body[Fn], Scn.yes)
  BY DEF Newlines, Count
<1> HIDE DEF f, l
<1>7. PICK m \in Nat : m = Len(scans) - 1
  BY <1>2, TheOthers
<1>8. Plain(body[Fn]) => Scn.use # "condition" /\ Straight(body[Fn], Scn)
  BY <1>2, AtThen
<1>9. FramesAfter(frames', m) /\ frames'[Depth].inner = l /\ frames'[Depth].announced = l
  <2>1. (Scn.use # "condition" /\ (Scn.text # <<>> \/ m < Len(scans) - 1)) \/ ~Plain(body[Fn])
    BY <1>2, <1>8
  <2>2. Frm.returned => f.returned
    BY <1>2
  <2> QED
    BY <1>1, <1>2, <1>4, <1>5, <2>1, <2>2, LinesRaised
<1>10. ASSUME Plain(body[Fn]), ~torn
       PROVE  Knows(body[Fn], frames'[Depth], AfterIf)
  <2>1. Told(body[Fn], Frm, Scn.at)
    BY <1>2, <1>10, AtThen
  <2>2. PICK r \in Nat : /\ Scn.text[Scn.pos] = r + 1 /\ r + 1 <= Len(body[Fn])
                         /\ Read(Scn.text, Scn.pos + 1) = r + 1 /\ Gathered(body[Fn], Scn, r)
    BY <1>2, <1>10, AtThen
  <2>3. body[Fn][r + 1] # "nl" /\ Place(AfterIf) = r + 1
    BY <1>2, <1>3, <2>2 DEF Place
  <2>4. frames'[Depth].inner = Frm.inner + Count(body[Fn], Scn.yes) /\ frames'[Depth].announced = frames'[Depth].inner
    BY <1>6, <1>9
  <2>5. Told(body[Fn], frames'[Depth], r + 1)
    BY <1>1, <1>2, <1>10, <2>1, <2>2, <2>3, <2>4, SkippedLines
  <2> QED
    BY <2>3, <2>5 DEF Knows
<1>11. Plain(body[Fn]) => Straight(body[Fn], AfterIf)
  BY <1>3, <1>8 DEF Straight
<1>12. TopRow(body[Fn], frames'[Depth], AfterIf, torn)
  BY <1>2, <1>3, <1>10, <1>11 DEF TopRow
<1> QED
  BY <1>1, <1>2, <1>3, <1>7, <1>9, <1>12, RowsTurn

-----------------------------------------------------------------------------
(* A function begins.                                                      *)

LEMMA WholeLines ==
  ASSUME body \in [Functions -> Seq(Token)], NEW f \in Functions, NEW t, t.use = "body", t.text = Whole(f),
         t.pos = 1, t.mode = "initial", NEW g, g.inner = 0, g.announced = 0, NEW lost
  PROVE  TopRow(body[f], g, t, lost)
<1>1. Whole(f) \in Seq(Nat) /\ body[f] \in Seq(Token)
  BY WholeText
<1>2. PICK n \in Nat : n = Len(body[f])
  BY <1>1
<1>3. Whole(f) = [k \in 1 .. n |-> k]
  BY <1>2 DEF Whole
<1>4. Full(Whole(f), 0, n)
  <2>1. Len(Whole(f)) = n /\ \A k \in 1 .. n : Whole(f)[k] = k
    BY <1>3
  <2> QED
    BY <2>1 DEF Full
<1>5. From(Whole(f)) = 0 /\ Full(Whole(f), From(Whole(f)), To(Whole(f)))
  <2>1. /\ Whole(f) # <<>> => From(Whole(f)) = 0
        /\ Full(Whole(f), From(Whole(f)), To(Whole(f)))
    BY <1>1, <1>4, FullEnds
  <2> QED
    BY <2>1 DEF From
<1>6. Straight(body[f], t)
  BY <1>5 DEF Straight
<1>7. Place(t) = 0
  BY <1>5 DEF Place, Read
<1>8. TrueLine(body[f], 0) = 0
  BY <1>1, LineStart
<1>9. Knows(body[f], g, t)
  BY <1>7, <1>8 DEF Knows, Told
<1> QED
  BY <1>6, <1>9 DEF TopRow

LEMMA StartLines ==
  ASSUME IInv, Cuts, LinesKept, NEW f \in Functions, Start(f)
  PROVE  LinesKept'
<1> DEFINE t == NewScan("body", 1, Whole(f))
           g == NewFrame(f)
<1>1. frames' = <<g>> /\ scans' = <<t>> /\ body' = body
  BY DEF Start
<1>2. body \in [Functions -> Seq(Token)] /\ ifCounter' \in Int
  BY DEF Start, IInv, RestOK
<1>3. t \in Scan /\ t.use = "body" /\ t.depth = 1 /\ t.text = Whole(f) /\ t.pos = 1 /\ t.mode = "initial"
  <2>1. "body" \in Uses /\ 1 \in Nat /\ Whole(f) \in Seq(Nat)
    BY <1>2, WholeText DEF Uses
  <2>2. t \in Scan /\ t.use = "body" /\ t.depth = 1 /\ t.pos = 1
    BY <1>2, <2>1, NewScanSet
  <2> QED
    BY <2>2 DEF NewScan
<1>4. g.inner = 0 /\ g.announced = 0 /\ g.fn = f
  BY DEF NewFrame
<1> HIDE DEF t, g
<1>5. TopRow(body[f], g, t, torn')
  BY <1>2, <1>3, <1>4, WholeLines
<1>6. frames'[t.depth] = g /\ BodyOf(body, frames', t) = body[f]
  BY <1>1, <1>3, <1>4 DEF BodyOf
<1>7. Row(body, frames', Append(<<>>, t), stopped', torn', Len(Append(<<>>, t)))
  <2>1. <<>> \in Seq(Scan)
    OBVIOUS
  <2> QED
    BY <1>3, <1>5, <1>6, <2>1, TopIs
<1>8. Append(<<>>, t) = <<t>> /\ Len(<<t>>) = 1
  OBVIOUS
<1>9. Row(body, frames', scans', stopped', torn', 1) /\ Len(scans') = 1
  BY <1>1, <1>7, <1>8
<1> QED
  BY <1>1, <1>9 DEF LinesKept, Rows

LEMMA CallLines ==
  ASSUME IInv, Cuts, LinesKept, Call
  PROVE  LinesKept'
<1> DEFINE t == NewScan("body", Depth + 1, Whole(Fn + 1))
           g == NewFrame(Fn + 1)
<1>1. Reads({"initial"}, {"call"}) /\ {"call"} \in SUBSET Token /\ Fn < N
  BY DEF Call, Token
<1>2. /\ frames # <<>> /\ ~stopped /\ Scn.mode \in {"initial"} /\ Tok # "end" /\ Tok \in {"call"} /\ Scn.text # <<>>
      /\ Scn.pos \in 1 .. Len(Scn.text) /\ Tok = body[Fn][Scn.text[Scn.pos]]
      /\ Scn \in Scan /\ Scn.text \in Seq(Nat) /\ body[Fn] \in Seq(Token) /\ Parse(body[Fn], Scn)
      /\ TopRow(body[Fn], Frm, Scn, torn)
  BY <1>1, AtLine
<1>3. frames' = Append(frames, g) /\ scans' = Append(WithScan(Past(Scn)), t) /\ UNCHANGED <<body, torn>>
  BY DEF Call
<1>4. PICK n \in Nat : n = Depth /\ n >= 1 /\ n = Len(frames) /\ frames \in Seq(Frame)
  BY <1>2, Facts
<1>5. body \in [Functions -> Seq(Token)] /\ ifCounter' \in Int
  BY DEF Call, IInv, RestOK
<1>6. Fn + 1 \in Functions
  <2>1. Fn \in Functions
    BY <1>2, Inside
  <2> QED
    BY <1>1, <2>1, BodiesAssumption DEF Functions
<1>7. t \in Scan /\ t.use = "body" /\ t.depth = n + 1 /\ t.text = Whole(Fn + 1) /\ t.pos = 1 /\ t.mode = "initial"
  <2>1. "body" \in Uses /\ n + 1 \in Nat /\ Whole(Fn + 1) \in Seq(Nat) /\ t = NewScan("body", n + 1, Whole(Fn + 1))
    BY <1>4, <1>5, <1>6, WholeText DEF Uses
  <2> HIDE DEF t
  <2>2. t \in Scan /\ t.use = "body" /\ t.depth = n + 1 /\ t.pos = 1
    BY <1>5, <2>1, NewScanSet
  <2> QED
    BY <2>1, <2>2 DEF NewScan
<1>8. g.inner = 0 /\ g.announced = 0 /\ g.fn = Fn + 1 /\ g \in Frame
  <2>1. g \in Frame
    BY <1>6, NewFrameSet
  <2> QED
    BY <2>1 DEF NewFrame
<1> HIDE DEF t, g
<1>9. TopRow(body[Fn + 1], g, t, torn)
  BY <1>5, <1>6, <1>7, <1>8, WholeLines
<1>10. frames'[n + 1] = g /\ \A d \in 1 .. n : frames'[d] = frames[d]
  BY <1>3, <1>4, <1>8, AppendProperties
<1>11. frames'[t.depth] = g /\ BodyOf(body, frames', t) = body[Fn + 1]
  BY <1>7, <1>8, <1>10 DEF BodyOf
<1>12. PICK m \in Nat : m = Len(scans) - 1
  BY <1>2, TheOthers
<1>13. frames'[Depth] = Frm /\ FramesAfter(frames', m)
  <2>1. n \in 1 .. n /\ \A d \in 1 .. n - 1 : d \in 1 .. n
    BY <1>4
  <2>2. frames'[Depth] = Frm
    BY <1>4, <1>10, <2>1 DEF Frm
  <2>3. FramesBelow(frames')
    BY <1>4, <1>10, <2>1 DEF FramesBelow, FrameSame
  <2> QED
    BY <2>2, <2>3 DEF FramesAfter, TopFrame, Fn
<1> DEFINE s == Past(Scn)
<1>14. Moves(s) /\ s.pos = Scn.pos + 1 /\ s.text = Scn.text /\ s.ifs = Scn.ifs /\ s.mode = Scn.mode /\ s.use = Scn.use
  BY <1>2, PastIs, PastUse
<1>15. scans' = Append(WithScan(s), t)
  BY <1>3
<1> HIDE DEF s
<1>16. TopRow(body[Fn], Frm, s, torn)
  <2>1. body[Fn][Scn.text[Scn.pos]] # "nl" /\ s.mode = "initial" /\ Scn.mode # "then"
    BY <1>1, <1>2, <1>14
  <2> QED
    BY <1>2, <1>14, <2>1, PassRow
<1>17. MakingRow(body[Fn], Frm, s, t, torn)
  BY <1>2, <1>7, <1>14, <1>16 DEF TopRow, MakingRow
<1>18. MakingRow(body[Fn], frames'[Depth], s, t, torn) /\ TopRow(BodyOf(body, frames', t), frames'[t.depth], t, torn)
  BY <1>9, <1>11, <1>13, <1>17
<1> QED
  BY <1>2, <1>3, <1>7, <1>12, <1>13, <1>14, <1>15, <1>18, RowsOpen

-----------------------------------------------------------------------------
(* Steps that leave the parses alone.                                      *)

LEMMA StoppedLines ==
  ASSUME IInv, Cuts, LinesKept, BadStatement
  PROVE  LinesKept'
<1>1. frames # <<>> /\ UNCHANGED <<body, frames, scans, torn>> /\ stopped'
  BY DEF BadStatement, Reads, Parsing
<1> QED
  BY <1>1, RowsStay

LEMMA ReturnLines ==
  ASSUME IInv, Cuts, LinesKept, Return
  PROVE  LinesKept'
<1>1. frames # <<>> /\ UNCHANGED <<body, scans, stopped, torn>> /\ frames' = WithFrame([Frm EXCEPT !.returned = TRUE])
  BY DEF Return, Reads, Parsing
<1>2. Frm \in Frame
  BY <1>1, Inside
<1> DEFINE f == [Frm EXCEPT !.returned = TRUE]
<1>3. f \in Frame /\ f.fn = Frm.fn /\ f.inner = Frm.inner /\ f.announced = Frm.announced /\ f.returned
  BY <1>2 DEF Frame
<1> HIDE DEF f
<1>4. frames' = WithFrame(f)
  BY <1>1 DEF f
<1>5. frames \in Seq(Frame)
  BY DEF IInv, FramesOK
<1>6. \A i \in 1 .. Depth : frames'[i] = IF i = Depth THEN f ELSE frames[i]
  BY <1>1, <1>3, <1>4, <1>5, WithFrameIs
<1>7. ASSUME NEW d \in 1 .. Depth
      PROVE  /\ frames'[d].fn = frames[d].fn /\ (frames[d].returned => frames'[d].returned)
             /\ frames'[d].inner = frames[d].inner /\ frames'[d].announced = frames[d].announced
  BY <1>3, <1>6 DEF Frm
<1> QED
  BY <1>1, <1>7, RowsStay

LEMMA ResumeLines ==
  ASSUME IInv, Cuts, LinesKept, NEW st \in Steps, Resume(st)
  PROVE  LinesKept'
<1>1. UNCHANGED <<body, scans, stopped, torn>> /\ frames' = Settled(frames, st) /\ halted
  BY DEF Resume
<1>2. frames # <<>>
  BY <1>1 DEF IInv, FramesOK, Command
<1>3. \A d \in 1 .. Depth : FrameSame(frames[d], frames'[d])
  BY <1>1, <1>2, ResumedLines
<1>4. \A d \in 1 .. Depth :
        /\ frames'[d].fn = frames[d].fn /\ (frames[d].returned => frames'[d].returned)
        /\ frames'[d].inner = frames[d].inner /\ frames'[d].announced = frames[d].announced
  BY <1>3 DEF FrameSame
<1> QED
  BY <1>1, <1>2, <1>4, RowsStay

LEMMA QuietLines ==
  ASSUME IInv, Cuts, LinesKept, ClearAllBreakpoints \/ NewSession \/ UNCHANGED vars
  PROVE  LinesKept'
<1>1. CASE ClearAllBreakpoints \/ UNCHANGED vars
  <2>1. UNCHANGED <<body, frames, scans, stopped, torn>>
    BY <1>1 DEF ClearAllBreakpoints, vars
  <2> QED
    BY <2>1 DEF LinesKept
<1>2. CASE NewSession
  <2>1. frames = <<>> /\ scans' = scans
    BY <1>2 DEF NewSession
  <2>2. scans' = <<>>
    BY <2>1 DEF IInv
  <2>3. Len(scans') = 0
    BY <2>2
  <2> QED
    BY <2>3 DEF LinesKept, Rows
<1> QED
  BY <1>1, <1>2

LEMMA InitiallyLines == Init => LinesKept
<1> SUFFICES ASSUME Init PROVE LinesKept
  OBVIOUS
<1>1. Len(scans) = 0
  BY DEF Init
<1> QED
  BY <1>1 DEF LinesKept, Rows

-----------------------------------------------------------------------------
(* The end of a parse, and the lines.                                      *)

(* What is known of the parse that made this one.                          *)
LEMMA UnderRow ==
  ASSUME IInv, Cuts, LinesKept, Ending, Len(scans) # 1
  PROVE  LET s == Below
             b == BodyOf(body, frames, Below)
             f == frames[Below.depth]
         IN /\ s.use = "branch" => s.ifs = 0
            /\ s.text # <<>>
            /\ Plain(b) =>
                 /\ Straight(b, s)
                 /\ s.use = "condition" => Scn.use = "body"
                 /\ ~torn /\ ~stopped /\ ~f.returned /\ s.use # "condition" =>
                      IF Scn.use = "branch" THEN Awaits(b, f, s, Scn.text) ELSE Knows(b, f, s)
<1>1. frames # <<>>
  BY DEF Ending
<1>2. PICK n \in Nat : n = Len(scans) /\ n >= 1 /\ n # 1 /\ scans[n] = Scn
  BY <1>1, Facts
<1>3. PICK m \in Nat : m = n - 1 /\ m \in 1 .. n /\ m < n /\ m + 1 = n
  BY <1>2, OneLower
<1>4. Below = scans[m]
  BY <1>2, <1>3 DEF Below
<1>5. Row(body, frames, scans, stopped, torn, m)
  BY <1>1, <1>2, <1>3, RowOf
<1>6. ~stopped /\ ~frames[Below.depth].returned => Live(frames, scans, stopped, m)
  BY <1>4 DEF Live
<1> QED
  BY <1>2, <1>3, <1>4, <1>5, <1>6 DEF Row

(* The parse that made it is the innermost one now.                        *)
LEMMA RowsClose ==
  ASSUME IInv, Cuts, LinesKept, Ending, Len(scans) # 1, scans' = Closed, stopped' = stopped,
         NEW m \in Nat, m = Len(scans) - 2, FramesBelow(frames'),
         \A i \in 1 .. m : scans[i].depth = Depth => TopFrame(frames'[Depth], m),
         frames'[Below.depth].fn = frames[Below.depth].fn,
         Plain(BodyOf(body, frames, Below)) /\ ~torn' /\ ~stopped /\ ~frames'[Below.depth].returned /\ Below.use # "condition" =>
           Knows(BodyOf(body, frames, Below), frames'[Below.depth], Below)
  PROVE  LinesKept'
<1>1. frames # <<>> /\ body' = body /\ (torn => torn')
  BY DEF Ending
<1>2. scans \in Seq(Scan) /\ scans # <<>> /\ Len(scans) \in Nat /\ Len(scans) >= 1
  BY <1>1, Facts
<1>3. PICK n \in Nat : n = Len(scans) /\ n - 1 = m + 1
  BY <1>2
<1>4. Len(Closed) = m + 1 /\ \A i \in 1 .. m + 1 : Closed[i] = scans[i]
  BY <1>2, <1>3, CutSeq DEF Closed
<1>5. Closed[m + 1] = Below /\ scans[m + 1] = Below
  <2>1. m + 1 \in 1 .. m + 1
    OBVIOUS
  <2> QED
    BY <1>3, <1>4, <2>1 DEF Below
<1>6. \A i \in 1 .. m : Row(body, frames', Closed, stopped', torn', i)
  <2>1. m <= Len(scans) - 1 /\ m < Len(Closed) /\ Len(Closed) \in Nat
    BY <1>3, <1>4
  <2>2. \A i \in 1 .. m : Closed[i] = scans[i] /\ (scans[i].depth = Depth => TopFrame(frames'[Depth], m))
    BY <1>4
  <2>3. Stop(Closed, stopped')
    BY DEF Stop
  <2> QED
    BY <1>1, <1>5, <2>1, <2>2, <2>3, LowerRows
<1>7. BodyOf(body, frames', Below) = BodyOf(body, frames, Below)
  BY DEF BodyOf
<1>8. Live(frames', Closed, stopped', m + 1) => ~frames'[Below.depth].returned /\ ~stopped
  <2>1. \A j \in (m + 1) + 1 .. Len(Closed) : FALSE
    BY <1>4
  <2> QED
    BY <1>5, <2>1 DEF Live
<1>9. ~(m + 1 < Len(Closed))
  BY <1>4
<1>10. Row(body, frames', Closed, stopped', torn', m + 1)
  BY <1>5, <1>7, <1>8, <1>9, UnderRow DEF Row
<1>11. \A i \in 1 .. m + 1 : i \in 1 .. m \/ i = m + 1
  OBVIOUS
<1> QED
  BY <1>1, <1>4, <1>6, <1>10, <1>11 DEF LinesKept, Rows

LEMMA FramesStay ==
  ASSUME frames' = frames, NEW m
  PROVE  FramesBelow(frames') /\ TopFrame(frames'[Depth], m)
BY DEF FramesBelow, FrameSame, TopFrame, Frm, Fn

LEMMA TwoLess ==
  ASSUME IInv, Cuts, Ending, Len(scans) # 1
  PROVE  /\ Len(scans) - 2 \in Nat /\ Len(scans) - 2 < Len(scans) - 1
         /\ Below \in Scan /\ Below.cond \in Seq(Nat) /\ Below.yes \in Seq(Nat) /\ Below.no \in Seq(Nat)
<1>1. Len(scans) \in Nat /\ Len(scans) >= 1
  BY Facts DEF Ending
<1>2. Below \in Scan
  BY Beneath
<1>3. Below.cond \in Seq(Nat) /\ Below.yes \in Seq(Nat) /\ Below.no \in Seq(Nat)
  BY <1>2 DEF Scan
<1>4. PICK n \in Nat : n = Len(scans) /\ n >= 1 /\ n # 1
  BY <1>1
<1> QED
  BY <1>2, <1>3, <1>4

(* A function returns to its caller.                                       *)
LEMMA EndBodyLines ==
  ASSUME IInv, Cuts, LinesKept, Ending, Scn.use = "body", EndBody, scans' = Closed
  PROVE  LinesKept'
<1>1. frames # <<>> /\ (torn => torn')
  BY DEF Ending
<1>2. scans \in Seq(Scan) /\ scans # <<>> /\ frames \in Seq(Frame) /\ Depth \in Nat /\ Depth >= 1 /\ Depth = Len(frames) /\ Scn.depth = Depth
  BY <1>1, Facts
<1>3. CASE Len(scans) = 1
  <2>1. Len(scans') = 0
    BY <1>2, <1>3, CutSeq DEF Closed
  <2> QED
    BY <2>1 DEF LinesKept, Rows
<1>4. CASE Len(scans) # 1
  <2>1. PICK n \in Nat : n = Len(scans) /\ n >= 1 /\ n # 1 /\ scans[n] = Scn
    BY <1>1, <1>4, Facts
  <2>2. PICK k \in Nat : k = n - 1 /\ k \in 1 .. n /\ n \in 1 .. n /\ n > 1
    BY <2>1, OneLower
  <2>3. Below = scans[k]
    BY <2>1, <2>2 DEF Below
  <2>4. Layer(n)
    BY <2>1, <2>2 DEF IInv, ScansOK, Layers
  <2>5. PICK e \in Nat : e = Depth /\ e >= 1 /\ e = Len(frames)
    BY <1>2
  <2>6. Below.depth = e - 1 /\ Below.depth \in 1 .. e
    <3>1. scans[n].depth = scans[n - 1].depth + 1
      BY <2>1, <2>2, <2>4 DEF Layer
    <3>2. scans[k].depth \in 1 .. Depth
      BY <1>1, <2>1, <2>2, RowOf
    <3> QED
      BY <1>2, <2>1, <2>2, <2>3, <2>5, <3>1, <3>2
  <2>7. \A d \in 1 .. e - 1 : frames'[d] = frames[d]
    BY <1>2, <2>5 DEF EndBody
  <2>8. FramesBelow(frames')
    BY <2>5, <2>7 DEF FramesBelow, FrameSame
  <2>9. frames'[Below.depth] = frames[Below.depth]
    <3>1. e - 1 \in 1 .. e - 1
      BY <2>6
    <3> QED
      BY <2>6, <2>7, <3>1
  <2>10. PICK m \in Nat : m = Len(scans) - 2
    BY <1>4, TwoLess
  <2>11. \A i \in 1 .. m : scans[i].depth # Depth
    <3> SUFFICES ASSUME NEW i \in 1 .. m PROVE scans[i].depth # Depth
      OBVIOUS
    <3>1. i \in 1 .. n /\ k \in i + 1 .. n
      BY <2>1, <2>2, <2>10
    <3>2. scans[i].depth <= scans[k].depth /\ scans[i].depth \in 1 .. Depth
      BY <1>1, <2>1, <3>1, RowOf
    <3> QED
      BY <2>3, <2>5, <2>6, <3>2
  <2>12. Plain(BodyOf(body, frames, Below)) /\ ~torn' /\ ~stopped /\ ~frames'[Below.depth].returned /\ Below.use # "condition" =>
           Knows(BodyOf(body, frames, Below), frames'[Below.depth], Below)
    BY <1>1, <1>4, <2>9, UnderRow
  <2>13. stopped' = stopped
    BY DEF EndBody
  <2> QED
    BY <1>4, <2>8, <2>9, <2>10, <2>11, <2>12, <2>13, RowsClose
<1> QED
  BY <1>3, <1>4

(* A condition has been evaluated.                                         *)
LEMMA EndConditionLines ==
  ASSUME IInv, Cuts, LinesKept, Ending, Scn.use = "condition", scans' = Closed, UNCHANGED <<frames, stopped>>
  PROVE  LinesKept'
<1>1. torn => torn'
  BY DEF Ending
<1>2. Len(scans) # 1
  BY MadeHere
<1>3. PICK m \in Nat : m = Len(scans) - 2
  BY <1>2, TwoLess
<1>4. FramesBelow(frames') /\ TopFrame(frames'[Depth], m)
  BY FramesStay
<1>5. Plain(BodyOf(body, frames, Below)) /\ ~torn' /\ ~stopped /\ ~frames'[Below.depth].returned /\ Below.use # "condition" =>
        Knows(BodyOf(body, frames, Below), frames'[Below.depth], Below)
  BY <1>1, <1>2, UnderRow
<1> QED
  BY <1>2, <1>3, <1>4, <1>5, RowsClose

(* A loop is only in a body that is not plain.                             *)
LEMMA LoopBelow ==
  ASSUME IInv, Cuts, LinesKept, Ending, Scn.use \in {"loop", "again"}
  PROVE  ~Plain(body[Fn]) /\ Len(scans) # 1 /\ BodyOf(body, frames, Below) = body[Fn]
<1>1. PICK n \in Nat : n = Len(scans) /\ n >= 1 /\ n \in 1 .. n /\ scans[n] = Scn /\ BodyOf(body, frames, Scn) = body[Fn]
  BY Facts DEF Ending
<1>2. Row(body, frames, scans, stopped, torn, n)
  BY <1>1, RowOf DEF Ending
<1>3. ~Plain(body[Fn])
  BY <1>1, <1>2 DEF Row, Straight
<1>4. Len(scans) # 1 /\ Below.depth = Depth
  BY MadeHere DEF Below
<1> QED
  BY <1>3, <1>4 DEF BodyOf, Fn, Frm

LEMMA EndLoopLines ==
  ASSUME IInv, Cuts, LinesKept, Ending, Scn.use \in {"loop", "again"}, scans' = Closed, UNCHANGED <<frames, stopped>>
  PROVE  LinesKept'
<1>1. ~Plain(body[Fn]) /\ Len(scans) # 1 /\ BodyOf(body, frames, Below) = body[Fn]
  BY LoopBelow
<1>2. PICK m \in Nat : m = Len(scans) - 2
  BY <1>1, TwoLess
<1>3. FramesBelow(frames') /\ TopFrame(frames'[Depth], m)
  BY FramesStay
<1> QED
  BY <1>1, <1>2, <1>3, RowsClose

(* A loop's condition or body is parsed again.                             *)
LEMMA RepeatLines ==
  ASSUME IInv, Cuts, LinesKept, Ending, Scn.use \in {"loop", "again"}, frames' = frames,
         NEW use \in {"loop", "again"}, NEW text \in {Below.cond, Below.yes}, scans' = InsteadOf(use, text)
  PROVE  LinesKept'
<1>1. ~Plain(body[Fn]) /\ Len(scans) # 1 /\ BodyOf(body, frames, Below) = body[Fn]
  BY LoopBelow
<1>2. frames # <<>> /\ body' = body /\ ifCounter' = ifCounter /\ (torn => torn')
  BY DEF Ending
<1>3. /\ scans \in Seq(Scan) /\ scans # <<>> /\ Len(scans) \in Nat /\ Len(scans) >= 1 /\ ifCounter' \in Int /\ Depth \in Nat
      /\ BodyOf(body, frames, Scn) = body[Fn]
  BY <1>2, Facts
<1>4. PICK m \in Nat : m = Len(scans) - 2
  BY <1>1, TwoLess
<1>5. use \in Uses /\ text \in Seq(Nat)
  BY <1>1, TwoLess DEF Uses
<1> DEFINE t == NewScan(use, Depth, text)
<1>6. scans' = Append(Closed, t)
  BY DEF InsteadOf
<1>7. t \in Scan /\ t.use = use /\ t.depth = Depth
  BY <1>3, <1>5, NewScanHere
<1> HIDE DEF t
<1>8. PICK n \in Nat : n = Len(scans) /\ n - 1 = m + 1
  BY <1>3, <1>4
<1>9. Closed \in Seq(Scan) /\ Len(Closed) = m + 1 /\ \A i \in 1 .. m + 1 : Closed[i] = scans[i]
  BY <1>3, <1>8, CutSeq DEF Closed
<1>10. /\ scans' \in Seq(Scan) /\ Len(scans') = (m + 1) + 1
       /\ \A i \in 1 .. m + 1 : scans'[i] = scans[i]
  BY <1>6, <1>7, <1>9, AppendProperties
<1>11. scans[m + 1] = Below /\ scans'[m + 1] = Below
  <2>1. m + 1 \in 1 .. m + 1
    OBVIOUS
  <2> QED
    BY <1>8, <1>10, <2>1 DEF Below
<1>12. \A i \in 1 .. m : Row(body, frames', scans', stopped', torn', i)
  <2>1. m <= Len(scans) - 1 /\ m < Len(scans') /\ Len(scans') \in Nat
    BY <1>8, <1>10
  <2>2. FramesBelow(frames') /\ TopFrame(frames'[Depth], m)
    BY FramesStay
  <2>3. \A i \in 1 .. m : scans'[i] = scans[i] /\ (scans[i].depth = Depth => TopFrame(frames'[Depth], m))
    BY <1>10, <2>2
  <2>4. Stop(scans', stopped')
    BY DEF Stop
  <2> QED
    BY <1>2, <1>11, <2>1, <2>2, <2>3, <2>4, LowerRows
<1>13. Row(body, frames', scans', stopped', torn', m + 1)
  BY <1>1, <1>11, UnderRow DEF Row
<1>14. Row(body, frames', scans', stopped', torn', (m + 1) + 1)
  <2>1. BodyOf(body, frames', t) = body[Fn]
    BY <1>7 DEF BodyOf, Fn, Frm
  <2>2. TopRow(BodyOf(body, frames', t), frames'[t.depth], t, torn')
    BY <1>1, <1>7, <2>1 DEF TopRow
  <2>3. Row(body, frames', Append(Closed, t), stopped', torn', Len(Append(Closed, t)))
    BY <1>7, <1>9, <2>2, TopIs
  <2> QED
    BY <1>6, <1>10, <2>3
<1>15. \A i \in 1 .. (m + 1) + 1 : i \in 1 .. m \/ i = m + 1 \/ i = (m + 1) + 1
  OBVIOUS
<1> QED
  BY <1>2, <1>10, <1>12, <1>13, <1>14, <1>15 DEF LinesKept, Rows

-----------------------------------------------------------------------------
(* The end of a branch.                                                    *)

(* A branch whose text ends is not inside an if.                           *)
LEMMA BranchDone ==
  ASSUME IInv, Cuts, LinesKept, Ending, Scn.use = "branch", Going, ~torn, Plain(body[Fn]), Scn.text # <<>>
  PROVE  /\ Full(Scn.text, From(Scn.text), To(Scn.text)) /\ To(Scn.text) \in 0 .. Len(body[Fn])
         /\ Told(body[Fn], Frm, To(Scn.text))
<1>1. frames # <<>> /\ Tok = "end"
  BY DEF Ending
<1>2. /\ Scn \in Scan /\ Scn.text \in Seq(Nat) /\ body[Fn] \in Seq(Token) /\ Parse(body[Fn], Scn)
      /\ Scn.pos = Len(Scn.text) + 1 /\ Scn.pos \in 1 .. Len(Scn.text) + 1
  BY <1>1, Facts, TextEnds
<1>3. TopRow(body[Fn], Frm, Scn, torn)
  BY <1>1, TopRowOf
<1>4. Straight(body[Fn], Scn) /\ Knows(body[Fn], Frm, Scn) /\ Scn.ifs = 0
  BY <1>3 DEF TopRow, Going
<1>5. Text(body[Fn], Scn.text)
  BY <1>2 DEF Parse
<1>6. PICK a \in Nat, z \in Nat : /\ a = From(Scn.text) /\ z = To(Scn.text) /\ a <= z /\ z <= Len(body[Fn])
                                  /\ Read(Scn.text, Scn.pos) = z
  BY <1>2, <1>5, TextRead
<1>7. Scn.mode # "then"
  <2>1. IfsMatched
    BY Matched
  <2>2. Here = 0
    BY <1>2 DEF Here
  <2> QED
    BY <1>1, <1>4, <2>1, <2>2 DEF IfsMatched
<1>8. Scn.mode # "if"
  <2> SUFFICES ASSUME Scn.mode = "if" PROVE FALSE
    OBVIOUS
  <2>1. InIf(body[Fn], Scn, a, z)
    BY <1>2, <1>6 DEF Parse
  <2>2. PICK k \in a + 1 .. z : Level(body[Fn], k) = Level(body[Fn], a) + 1 /\ Quiet(body[Fn], k, z)
    BY <2>1, IfHere
  <2>3. k \in Nat /\ z \in k .. Len(body[Fn]) /\ z \in k .. z
    BY <1>6, <2>2
  <2>4. Level(body[Fn], z) = Level(body[Fn], k)
    BY <1>2, <2>2, <2>3, QuietLevel
  <2>5. Level(body[Fn], z) = Level(body[Fn], a) /\ Level(body[Fn], a) \in Int
    BY <1>2, <1>5, <1>6, LevelEnd
  <2>6. PICK l \in Int : l = Level(body[Fn], a)
    BY <2>5
  <2> QED
    BY <2>2, <2>4, <2>5, <2>6
<1>9. Place(Scn) = To(Scn.text)
  BY <1>4, <1>6, <1>7 DEF Place
<1>10. Told(body[Fn], Frm, To(Scn.text))
  BY <1>4, <1>9 DEF Knows
<1> QED
  BY <1>4, <1>6, <1>10 DEF Straight

(* The line behind an if, if its parse has kept it or not.                 *)
LEMMA LineBehind ==
  ASSUME NEW b \in Seq(Token), NEW s \in Scan, s.pos \in 1 .. Len(s.text) + 1, Parse(b, s), NEW f, NEW y,
         Awaits(b, f, s, y), ~(s.else /\ s.backup),
         y # <<>> => To(y) \in 0 .. Len(b) /\ Told(b, f, To(y))
  PROVE  Knows(b, f, s)
<1>1. Text(b, s.text) /\ s.text \in Seq(Nat)
  BY DEF Parse, Scan
<1>2. PICK r \in Nat : r = Read(s.text, s.pos) /\ r <= Len(b)
  BY SMTT(30), <1>1, TextRead
<1>3. s.mode = "initial"
  BY DEF Awaits
<1>4. Told(b, f, r)
  <2>1. CASE y = <<>>
    BY <1>2, <2>1 DEF Awaits
  <2>2. CASE y # <<>>
    <3>1. To(y) <= r /\ TrueLine(b, To(y)) = TrueLine(b, r)
      BY <1>2, <2>2 DEF Awaits
    <3>2. PICK p \in 0 .. Len(b) : p = To(y) /\ p <= r
      BY <2>2, <3>1
    <3>3. r \in p .. Len(b)
      BY <1>2, <3>2
    <3> QED
      BY <2>2, <3>1, <3>2, <3>3, ToldOn
  <2> QED
    BY <2>1, <2>2
<1>5. Place(s) = r
  BY <1>2, <1>3 DEF Place
<1> QED
  BY <1>4, <1>5 DEF Knows

LEMMA EndBranchLines ==
  ASSUME IInv, Cuts, LinesKept, Ending, Scn.use = "branch", EndBranch, scans' = Closed
  PROVE  LinesKept'
<1>1. frames # <<>> /\ (torn => torn')
  BY DEF Ending
<1>2. Len(scans) # 1 /\ Below.depth = Depth
  BY MadeHere DEF Below
<1>3. PICK m \in Nat : m = Len(scans) - 2 /\ m < Len(scans) - 1
  BY <1>2, TwoLess
<1>4. frames[Below.depth] = Frm /\ BodyOf(body, frames, Below) = body[Fn]
  BY <1>2 DEF Frm, BodyOf, Fn
<1>5. stopped' = stopped
  BY DEF EndBranch
<1>6. Below \in Scan /\ Parse(body[Fn], Below) /\ Below.pos \in 1 .. Len(Below.text) + 1
  <2>1. PICK n \in Nat : n = Len(scans) /\ n >= 1 /\ n # 1
    BY <1>1, <1>2, Facts
  <2>2. n - 1 \in 1 .. n
    BY <2>1
  <2>3. Below.pos \in 1 .. Len(Below.text) + 1
    BY <2>1, <2>2 DEF Below, IInv, ScansOK
  <2>4. Below \in Scan /\ Fits(body, frames, Below)
    BY <1>2, Beneath
  <2> QED
    BY <1>4, <2>3, <2>4 DEF Fits
<1>7. ASSUME Plain(body[Fn]), ~torn', ~stopped, ~Frm.returned, Below.use # "condition"
      PROVE  Awaits(body[Fn], Frm, Below, Scn.text) /\ Going /\ ~torn
  BY <1>1, <1>2, <1>4, <1>7, UnderRow DEF Going
<1>8. CASE Below.else /\ Below.backup
  <2>1. Raise(Frm, LineAfter)
    BY <1>8 DEF EndBranch
  <2>2. Below.line \in Nat /\ Newlines(Below.yes) \in Nat /\ Newlines(Below.no) \in Nat
    BY <1>2, <1>6, TwoLess, NewlinesNat DEF Scan
  <2>3. LineAfter \in Nat
    BY <2>2 DEF LineAfter
  <2>4. Frm \in Frame /\ Frm.fn = Fn
    BY <1>1, Inside DEF Fn
  <2>5. /\ FramesAfter(frames', m) /\ frames'[Depth].returned = Frm.returned
        /\ frames'[Depth].inner = LineAfter /\ frames'[Depth].announced = LineAfter
    BY <1>1, <1>3, <2>1, <2>3, <2>4, LinesRaised
  <2>6. FramesBelow(frames') /\ TopFrame(frames'[Depth], m) /\ frames'[Depth].fn = Fn
    BY <2>5 DEF FramesAfter, TopFrame
  <2>7. ASSUME Plain(body[Fn]), ~torn', ~stopped, ~frames'[Depth].returned, Below.use # "condition"
        PROVE  Knows(body[Fn], frames'[Depth], Below)
    <3>1. Awaits(body[Fn], Frm, Below, Scn.text)
      BY <1>7, <2>5, <2>7
    <3>2. Below.mode = "initial" /\ LineAfter = TrueLine(body[Fn], Read(Below.text, Below.pos))
      BY <1>8, <3>1 DEF Awaits, LineAfter, Newlines, Count
    <3>3. Told(body[Fn], frames'[Depth], Read(Below.text, Below.pos))
      BY <2>5, <3>2 DEF Told
    <3>4. Place(Below) = Read(Below.text, Below.pos)
      BY <3>2 DEF Place
    <3> QED
      BY <3>3, <3>4 DEF Knows
  <2>8. frames'[Below.depth].fn = frames[Below.depth].fn
    BY <1>2, <1>4, <2>6 DEF Fn
  <2> QED
    BY <1>2, <1>3, <1>4, <1>5, <2>6, <2>7, <2>8, RowsClose
<1>9. CASE ~(Below.else /\ Below.backup)
  <2>1. frames' = frames
    BY <1>9 DEF EndBranch
  <2>2. FramesBelow(frames') /\ TopFrame(frames'[Depth], m)
    BY <2>1, FramesStay
  <2>3. ASSUME Plain(body[Fn]), ~torn', ~stopped, ~Frm.returned, Below.use # "condition"
        PROVE  Knows(body[Fn], Frm, Below)
    <3>1. Awaits(body[Fn], Frm, Below, Scn.text) /\ Going /\ ~torn
      BY <1>7, <2>3
    <3>2. Scn.text # <<>> => To(Scn.text) \in 0 .. Len(body[Fn]) /\ Told(body[Fn], Frm, To(Scn.text))
      BY <2>3, <3>1, BranchDone
    <3>3. body[Fn] \in Seq(Token)
      BY <1>1, Facts
    <3> QED
      BY <1>6, <1>9, <3>1, <3>2, <3>3, LineBehind
  <2> QED
    BY <1>2, <1>3, <1>4, <1>5, <2>1, <2>2, <2>3, RowsClose
<1> QED
  BY <1>8, <1>9

LEMMA EndScanLines ==
  ASSUME IInv, Cuts, LinesKept, EndScan
  PROVE  LinesKept'
<1>1. Ending
  BY DEF EndScan, Ending, Parsing
<1>2. CASE Scn.use = "body" /\ EndBody /\ scans' = Closed
  BY <1>1, <1>2, EndBodyLines
<1>3. CASE Scn.use = "branch" /\ EndBranch /\ scans' = Closed
  BY <1>1, <1>3, EndBranchLines
<1>4. CASE Scn.use = "condition" /\ scans' = Closed /\ UNCHANGED <<frames, stopped>>
  BY <1>1, <1>4, EndConditionLines
<1>5. CASE Scn.use \in {"loop", "again"} /\ scans' = Closed /\ UNCHANGED <<frames, stopped>>
  BY <1>1, <1>5, EndLoopLines
<1>6. CASE Scn.use = "loop" /\ frames' = frames /\ scans' = InsteadOf("again", Below.cond)
  BY <1>1, <1>6, RepeatLines
<1>7. CASE Scn.use = "again" /\ frames' = frames /\ scans' = InsteadOf("loop", Below.yes)
  BY <1>1, <1>7, RepeatLines
<1>8. \/ Scn.use = "body" /\ EndBody /\ scans' = Closed
      \/ Scn.use = "branch" /\ EndBranch /\ scans' = Closed
      \/ Scn.use = "condition" /\ scans' = Closed /\ UNCHANGED <<frames, stopped>>
      \/ Scn.use \in {"loop", "again"} /\ scans' = Closed /\ UNCHANGED <<frames, stopped>>
      \/ Scn.use = "loop" /\ frames' = frames /\ scans' = InsteadOf("again", Below.cond)
      \/ Scn.use = "again" /\ frames' = frames /\ scans' = InsteadOf("loop", Below.yes)
  BY DEF EndScan
<1> QED
  BY <1>2, <1>3, <1>4, <1>5, <1>6, <1>7, <1>8

-----------------------------------------------------------------------------
(* Every step.                                                             *)

LEMMA StepLines ==
  ASSUME IInv, Cuts, LinesKept, [Next]_vars
  PROVE  LinesKept'
<1>1. CASE \E f \in Functions : Start(f)
  BY <1>1, StartLines
<1>2. CASE Call
  BY <1>2, CallLines
<1>3. CASE Newline
  BY <1>3, NewlineLines
<1>4. CASE Statement
  BY <1>4, StatementLines
<1>5. CASE BadStatement
  BY <1>5, StoppedLines
<1>6. CASE Return
  BY <1>6, ReturnLines
<1>7. CASE If
  BY <1>7, IfLines
<1>8. CASE ConditionChar
  BY <1>8, ConditionLines
<1>9. CASE Then
  BY <1>9, ThenLines
<1>10. CASE IfLine
  BY <1>10, IfLineLines
<1>11. CASE Else
  BY <1>11, ElseLines
<1>12. CASE RunTrueBlock
  BY <1>12, RunTrueLines
<1>13. CASE SkipTrueBlock
  BY <1>13, SkipLines
<1>14. CASE RunFalseBlock
  BY <1>14, RunFalseLines
<1>15. CASE While
  BY <1>15, WhileLines
<1>16. CASE Loop
  BY <1>16, LoopLines
<1>17. CASE LoopLine
  BY <1>17, LoopLineLines
<1>18. CASE RunLoop
  BY <1>18, RunLoopLines
<1>19. CASE EndScan
  BY <1>19, EndScanLines
<1>20. CASE \E st \in Steps : Resume(st)
  BY <1>20, ResumeLines
<1>21. CASE ClearAllBreakpoints \/ NewSession \/ UNCHANGED vars
  BY <1>21, QuietLines
<1> QED
  BY <1>1, <1>2, <1>3, <1>4, <1>5, <1>6, <1>7, <1>8, <1>9, <1>10, <1>11, <1>12, <1>13, <1>14, <1>15, <1>16,
     <1>17, <1>18, <1>19, <1>20, <1>21 DEF Next

(* At a statement, the line is that of the position behind it.             *)
LEMMA LineHere == IInv /\ Cuts /\ LinesKept => LinesAnnounced
<1> SUFFICES ASSUME IInv, Cuts, LinesKept, Running, Tok # "nl", Scn.use \in {"body", "branch"}, Plain(body[Fn]), ~torn
             PROVE  /\ Frm.inner = TrueLine(body[Fn], Here)
                    /\ Frm.announced = Frm.inner \/ OnLineOfElse(body[Fn], Here)
  BY DEF LinesAnnounced
<1>1. frames # <<>> /\ Going /\ Scn.mode = "initial" /\ Here # 0
  BY DEF Running
<1>2. /\ Scn \in Scan /\ Scn.text \in Seq(Nat) /\ body[Fn] \in Seq(Token) /\ Parse(body[Fn], Scn)
      /\ Scn.pos \in 1 .. Len(Scn.text) + 1
  BY <1>1, Facts
<1>3. Scn.pos \in 1 .. Len(Scn.text) /\ Here = Scn.text[Scn.pos] /\ Tok = body[Fn][Scn.text[Scn.pos]] /\ Scn.text # <<>>
  <2>1. Scn.pos <= Len(Scn.text)
    BY <1>1 DEF Here
  <2> QED
    BY <1>1, <1>2, <2>1 DEF Here, Tok
<1>4. TopRow(body[Fn], Frm, Scn, torn)
  BY <1>1, TopRowOf
<1>5. Straight(body[Fn], Scn) /\ Knows(body[Fn], Frm, Scn) /\ Scn.use # "condition"
  BY <1>1, <1>4 DEF TopRow, Going
<1>6. Told(body[Fn], Frm, Read(Scn.text, Scn.pos))
  BY <1>1, <1>3, <1>5 DEF Knows, Place
<1>7. Told(body[Fn], Frm, Read(Scn.text, Scn.pos + 1))
  BY <1>2, <1>3, <1>5, <1>6, ToldPast
<1>8. Read(Scn.text, Scn.pos + 1) = Here
  BY <1>2, <1>3, <1>5, StraightNext
<1> QED
  BY <1>7, <1>8 DEF Told

-----------------------------------------------------------------------------
(* The theorems.                                                           *)

(* Whatever the programs, breakpoints and commands, a scanner stays inside *)
(* its text and functions run only while a parse of their text does.       *)
THEOREM TypeCorrect == Spec => []TypeOK
<1>1. IInv => TypeOK
  BY DEF IInv, RestOK, FramesOK, ScansOK, TypeOK
<1> QED
  BY Always, <1>1, PTL

(* Whatever the programs, breakpoints and commands, a running program will *)
(* stop in exactly the functions the last command meant, although each     *)
(* function keeps a step type of its own that is set when it is called, at *)
(* every line and when the debugger lets go.                               *)
THEOREM StopsWhereAsked == Spec => []StepsAsCommanded
<1>1. IInv => StepsAsCommanded
  BY DEF IInv, FramesOK, Stops, StepsAsCommanded
<1> QED
  BY Always, <1>1, PTL

(* Whatever the programs, and whatever loops, calls, returns and errors do *)
(* to the one counter and the one condition all parses share, a statement  *)
(* that runs stands on sides that were chosen: the branches cut by the     *)
(* lexer at the counter's value 1 are those of the right if.               *)
THEOREM SidesChosen == Spec => []RunsChosenSides
<1>1. IInv /\ Cuts => RunsChosenSides
  <2> SUFFICES ASSUME IInv, Cuts, Running PROVE Sides(body[Fn], Here) \subseteq Frm.taken
    BY DEF RunsChosenSides
  <2>1. frames # <<>> /\ Scn.mode = "initial" /\ Here # 0
    BY DEF Running
  <2>2. /\ Scn \in Scan /\ Scn.pos \in 1 .. Len(Scn.text) + 1 /\ Scn.text \in Seq(Nat) /\ Scn.depth = Depth
        /\ body[Fn] \in Seq(Token) /\ Parse(body[Fn], Scn)
        /\ Fits(body, frames, Scn) /\ BodyOf(body, frames, Scn) = body[Fn]
    BY <2>1, Facts
  <2>3. Scn.pos \in 1 .. Len(Scn.text) /\ Here = Scn.text[Scn.pos]
    <3>1. Scn.pos <= Len(Scn.text) /\ Here = Scn.text[Scn.pos]
      BY <2>1 DEF Here
    <3> QED
      BY <2>2, <3>1
  <2>4. Sides(body[Fn], Scn.text[Scn.pos]) \subseteq Sides(body[Fn], From(Scn.text))
    BY <2>1, <2>2, <2>3, SidesRead
  <2>5. Sides(body[Fn], From(Scn.text)) \subseteq Frm.taken
    BY <2>2 DEF Fits, Frm
  <2> QED
    BY <2>3, <2>4, <2>5
<1> QED
  BY AlwaysCuts, <1>1, PTL

(* Whatever the programs, the counter is never negative, and unless a parse*)
(* was given up inside an if, it is 0 again between requests and a parse   *)
(* gets to the end of its text while it still collects an if only if the   *)
(* counter was not 0 when it began.                                        *)
THEOREM IfsAreMatched == Spec => []IfsMatched
<1>1. IInv /\ Cuts => IfsMatched
  BY Matched
<1> QED
  BY AlwaysCuts, <1>1, PTL

(* Whatever the programs, breakpoints and commands, the debugger is told   *)
(* each line of a plain body before its first statement runs, however the  *)
(* texts of its ifs are cut out, nested and run or skipped, and whatever   *)
(* functions are called meanwhile; a statement right behind an else has the*)
(* right number and is not announced.                                      *)
THEOREM LinesAreTold == Spec => []LinesAnnounced
<1>1. Init => LinesKept
  BY InitiallyLines
<1>2. (IInv /\ Cuts) /\ LinesKept /\ [Next]_vars => LinesKept'
  BY StepLines
<1>3. (IInv /\ Cuts) /\ LinesKept => LinesAnnounced
  BY LineHere
<1> QED
  BY <1>1, <1>2, <1>3, AlwaysCuts, PTL DEF Spec
=============================================================================
