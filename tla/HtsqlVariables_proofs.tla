------------------------ MODULE HtsqlVariables_proofs ------------------------
(***************************************************************************)
(* Proofs about HtsqlVariables: types, what a function reads back of what  *)
(* it wrote, that control block variables belong to their request, and     *)
(* that session variables keep their values.                               *)
(***************************************************************************)
EXTENDS HtsqlVariables, SequenceTheorems, TLAPS

(* What a name means to a function that has no object of its own for it.   *)
Outside(n) ==
  IF n \in Items THEN ItemValue(n) ELSE IF n \in Variables THEN Global(n) ELSE Absent

(* While a request runs, its page has exactly the control variables sent;  *)
(* no other has any.  So what was assigned to the session is there.        *)
RequestOK ==
  /\ ControlsOfRequest
  /\ \A n \in Items : Sent(n) => control[page][n] # Absent
  /\ session = kept

IInv == TypeOK /\ RequestOK /\ WritesStay

LEMMA Outsiders ==
  ASSUME NEW fr, NEW n, fr.objects[n] = Absent
  PROVE  Value(fr, n) = Outside(n)
BY DEF Value, Outside

LEMMA OnPage ==
  ASSUME IInv, frames # <<>>
  PROVE  /\ page \in Pages /\ page \in Scopes /\ serving # "none"
         /\ Len(frames) \in Nat /\ Len(frames) \in 1 .. Len(frames) /\ Top \in Frame
BY DEF IInv, TypeOK, OrNull, Scopes, Top

LEMMA Kinds ==
  ASSUME NEW n \in Variables \cup Functions
  PROVE  n \notin Items /\ n \in Names
BY ConstantsAssumption DEF Names

(* A value put into a store of stores.                                     *)
LEMMA PutGlobal ==
  ASSUME NEW store \in [Scopes -> [Variables -> Cell]], NEW p \in Scopes, NEW n \in Variables, NEW v \in Cell
  PROVE  /\ Put(store, p, n, v) \in [Scopes -> [Variables -> Cell]]
         /\ Put(store, p, n, v)[p][n] = v
         /\ \A m \in Variables : m # n => Put(store, p, n, v)[p][m] = store[p][m]
         /\ \A q \in Scopes : q # p => Put(store, p, n, v)[q] = store[q]
<1> DEFINE st == [store[p] EXCEPT ![n] = v]
<1>1. st \in [Variables -> Cell] /\ st[n] = v /\ \A m \in Variables : m # n => st[m] = store[p][m]
  OBVIOUS
<1>2. Put(store, p, n, v) = [store EXCEPT ![p] = st]
  BY DEF Put
<1> HIDE DEF st
<1> QED
  BY <1>1, <1>2

LEMMA PutItem ==
  ASSUME NEW store \in [Pages -> [Items -> Cell]], NEW p \in Pages, NEW n \in Items, NEW v \in Cell
  PROVE  /\ Put(store, p, n, v) \in [Pages -> [Items -> Cell]]
         /\ Put(store, p, n, v)[p][n] = v
         /\ \A m \in Items : m # n => Put(store, p, n, v)[p][m] = store[p][m]
         /\ \A q \in Pages : q # p => Put(store, p, n, v)[q] = store[q]
<1> DEFINE st == [store[p] EXCEPT ![n] = v]
<1>1. st \in [Items -> Cell] /\ st[n] = v /\ \A m \in Items : m # n => st[m] = store[p][m]
  OBVIOUS
<1>2. Put(store, p, n, v) = [store EXCEPT ![p] = st]
  BY DEF Put
<1> HIDE DEF st
<1> QED
  BY <1>1, <1>2

-----------------------------------------------------------------------------
(* Steps between functions, and steps that keep what they see.             *)

(* No function runs: nothing was written by one.                           *)
LEMMA NoFrames ==
  ASSUME frames' = <<>>
  PROVE  WritesStay'
BY DEF WritesStay

LEMMA SameView ==
  ASSUME IInv, UNCHANGED <<page, dataVars, globals, control, session>>
  PROVE  \A n : Outside(n)' = Outside(n)
BY DEF Outside, ItemValue, IsInput, InBlock, Global, GlobalScope, dataVars

LEMMA CountNat ==
  ASSUME Count, steps \in Nat PROVE steps' \in Nat
BY DEF Count

LEMMA GetPageOK ==
  ASSUME IInv, NEW p \in Pages, GetPage(p)
  PROVE  IInv'
<1> USE DEF GetPage, Between
<1>1. frames' = <<>> /\ WritesStay'
  BY NoFrames
<1>2. Fresh(p) \in [Variables -> Cell] /\ p \in Scopes /\ NoCells \in [Items -> Cell]
  BY DEF Fresh, Cell, OrNull, OrAbsent, Scopes, NoCells
<1>3. /\ globals' \in [Scopes -> [Variables -> Cell]] /\ blocks' \in [Pages -> SUBSET Blocks]
      /\ inputs' \in [Pages -> [Items -> Cell]] /\ form' \in [Items -> OrAbsent(Values)]
  BY <1>2 DEF IInv, TypeOK, NoCells, OrAbsent
<1>4. \A q \in Pages, n \in Items : inputs'[q][n] # Absent <=> n \in Inputs[q] /\ BlockOf[n] \in blocks'[q]
  BY DEF IInv, TypeOK, NoCells
<1>5. TypeOK'
  BY <1>1, <1>3, <1>4, CountNat, ConstantsAssumption DEF IInv, TypeOK, OrNull
<1>6. \A q \in Pages, n \in Items : control[q][n] = Absent
  BY DEF IInv, RequestOK, ControlsOfRequest, Sent
<1>7. RequestOK'
  BY <1>6 DEF IInv, RequestOK, ControlsOfRequest, Sent
<1> QED
  BY <1>1, <1>5, <1>7 DEF IInv

LEMMA AddBlockOK ==
  ASSUME IInv, page # NULL, NEW b \in Blocks, NEW row \in RowsOf(Inputs[page]), AddBlock(b, row)
  PROVE  IInv'
<1> USE DEF AddBlock, Between, pageVars
<1> DEFINE new == [n \in Items |-> IF n \in Inputs[page] /\ BlockOf[n] = b THEN row[n] ELSE inputs[page][n]]
<1>1. frames' = <<>> /\ WritesStay'
  BY NoFrames
<1>2. page \in Pages /\ row \in [Items -> Cell] /\ \A n \in Items : row[n] # Absent <=> n \in Inputs[page]
  BY DEF IInv, TypeOK, OrNull, RowsOf
<1>3. new \in [Items -> Cell]
  BY <1>2 DEF IInv, TypeOK
<1>4. \A n \in Items : new[n] # Absent <=> n \in Inputs[page] /\ BlockOf[n] \in blocks[page] \cup {b}
  BY <1>2 DEF IInv, TypeOK
<1>5. inputs' = [inputs EXCEPT ![page] = new]
  OBVIOUS
<1> HIDE DEF new
<1>6. inputs' \in [Pages -> [Items -> Cell]] /\ blocks' \in [Pages -> SUBSET Blocks]
  BY <1>2, <1>3, <1>5 DEF IInv, TypeOK
<1>7. \A q \in Pages, n \in Items : inputs'[q][n] # Absent <=> n \in Inputs[q] /\ BlockOf[n] \in blocks'[q]
  BY <1>2, <1>4, <1>5 DEF IInv, TypeOK
<1>8. TypeOK'
  BY <1>1, <1>6, <1>7 DEF IInv, TypeOK
<1>9. RequestOK'
  BY DEF IInv, RequestOK, ControlsOfRequest, Sent
<1> QED
  BY <1>1, <1>8, <1>9 DEF IInv

LEMMA AjaxOK ==
  ASSUME IInv, NEW p \in Pages, NEW f \in FormsOf(p), Ajax(p, f)
  PROVE  IInv'
<1> USE DEF Ajax, Between, dataVars
<1>1. frames' = <<>> /\ WritesStay'
  BY NoFrames
<1>2. f \in [Items -> OrAbsent(Values)]
  BY DEF FormsOf
<1>3. \A q \in Pages, n \in Items : control[q][n] = Absent
  BY DEF IInv, RequestOK, ControlsOfRequest, Sent
<1>4. /\ WithSent(p, f) \in [Items -> Cell]
      /\ \A n \in Items : WithSent(p, f)[n] = IF n \in Controls[p] THEN f[n] ELSE Absent
  BY <1>2, <1>3 DEF WithSent, Cell, OrAbsent, OrNull
<1>5. control' \in [Pages -> [Items -> Cell]] /\ control'[p] = WithSent(p, f)
      /\ \A q \in Pages : q # p => control'[q] = control[q]
  BY <1>4 DEF IInv, TypeOK
<1>6. TypeOK'
  BY <1>1, <1>2, <1>5, CountNat, ConstantsAssumption DEF IInv, TypeOK, OrNull
<1>7. RequestOK'
  BY <1>3, <1>4, <1>5 DEF IInv, RequestOK, ControlsOfRequest, Sent
<1> QED
  BY <1>1, <1>6, <1>7 DEF IInv

LEMMA EndRequestOK ==
  ASSUME IInv, EndRequest
  PROVE  IInv'
<1> USE DEF EndRequest, Between, dataVars
<1>1. frames' = <<>> /\ WritesStay'
  BY NoFrames
<1>2. page \in Pages /\ NoCells \in [Items -> OrAbsent(Values)] /\ Destroyed \in [Items -> Cell]
  BY DEF IInv, TypeOK, OrNull, NoCells, OrAbsent, Destroyed, Cell
<1>3. control' \in [Pages -> [Items -> Cell]] /\ \A q \in Pages, n \in Items : control'[q][n] = Absent
  <2>1. CASE serving \in {"ajax", "called"}
    BY <1>2, <2>1 DEF IInv, TypeOK, RequestOK, ControlsOfRequest, Destroyed
  <2>2. CASE serving \notin {"ajax", "called"}
    BY <2>2 DEF IInv, TypeOK, RequestOK, ControlsOfRequest, Sent
  <2> QED
    BY <2>1, <2>2
<1>4. TypeOK'
  BY <1>1, <1>2, <1>3 DEF IInv, TypeOK
<1>5. RequestOK'
  BY <1>3 DEF IInv, RequestOK, ControlsOfRequest, Sent
<1> QED
  BY <1>1, <1>4, <1>5 DEF IInv

-----------------------------------------------------------------------------
(* Calls and returns.                                                      *)

LEMMA PushOK ==
  ASSUME IInv, NEW objects \in [Names -> OrAbsent(Held)], Push(objects), Count,
         serving # "none", serving' = serving \/ (serving = "ajax" /\ serving' = "called")
  PROVE  IInv'
<1> USE DEF Push
<1>1. Began(objects) \in Frame /\ \A n \in Names : Began(objects).wrote[n] = Absent
  BY DEF Began, Frame, Cell, OrAbsent
<1>2. /\ frames' \in Seq(Frame) /\ Len(frames') = Len(frames) + 1 /\ frames'[Len(frames) + 1] = Began(objects)
      /\ \A i \in DOMAIN frames : frames'[i] = frames[i]
  BY <1>1 DEF IInv, TypeOK
<1>3. \A n : Outside(n)' = Outside(n)
  BY SameView
<1>4. WritesStay'
  <2> SUFFICES ASSUME NEW i \in DOMAIN frames', NEW n \in Names, frames'[i].wrote[n] # Absent,
                      n \notin Items \/ frames'[i].objects[n] = Absent
               PROVE  Value(frames[i], n)' = frames'[i].wrote[n]
    BY DEF WritesStay, FormHides
  <2>1. i \in DOMAIN frames /\ frames'[i] = frames[i]
    BY <1>1, <1>2 DEF IInv, TypeOK
  <2>2. Value(frames[i], n) = frames[i].wrote[n]
    BY <2>1 DEF IInv, WritesStay, FormHides
  <2>3. Outside(n)' = Outside(n)
    BY <1>3
  <2> QED
    BY <2>1, <2>2, <2>3 DEF Value, Outside
<1>5. TypeOK'
  BY <1>2, CountNat DEF IInv, TypeOK, dataVars
<1>6. RequestOK'
  BY DEF IInv, RequestOK, ControlsOfRequest, Sent, TypeOK
<1> QED
  BY <1>4, <1>5, <1>6 DEF IInv

LEMMA Pushes ==
  ASSUME IInv, NEW f \in Functions
  PROVE  /\ CallFromPage(f) => IInv'
         /\ RunTrigger(f) => IInv'
         /\ \A args \in [ParamsOf[f] -> OrNull(Values)] : Call(f, args) => IInv'
<1>1. OwnName(f) \in [Names -> OrAbsent(Held)]
  BY DEF OwnName, OrAbsent, Held, Text, OrNull
<1>2. ASSUME CallFromPage(f) PROVE IInv'
  <2>1. page \in Pages /\ serving = "ajax" /\ serving' = "called" /\ Push(WithForm(f)) /\ Count
    BY <1>2 DEF CallFromPage, IInv, TypeOK, OrNull
  <2>2. \A n \in Inputs[page] : form[n] # Absent => form[n] \in Values
    BY <2>1, ConstantsAssumption DEF IInv, TypeOK, OrAbsent
  <2>3. WithForm(f) \in [Names -> OrAbsent(Held)]
    BY <1>1, <2>2 DEF WithForm, OrAbsent, Held, Text, OrNull
  <2> QED
    BY <2>1, <2>3, PushOK
<1>3. ASSUME RunTrigger(f) PROVE IInv'
  BY <1>1, <1>3, PushOK DEF RunTrigger
<1>4. ASSUME NEW args \in [ParamsOf[f] -> OrNull(Values)], Call(f, args) PROVE IInv'
  <2>1. serving # "none" /\ serving' = serving /\ Push(WithArguments(f, args)) /\ Count
    BY <1>4 DEF Call, Running, IInv, TypeOK
  <2>2. WithArguments(f, args) \in [Names -> OrAbsent(Held)]
    BY <1>1, ConstantsAssumption DEF WithArguments, OrAbsent, Held, Text
  <2> QED
    BY <2>1, <2>2, PushOK
<1> QED
  BY <1>2, <1>3, <1>4

LEMMA ReturnOK ==
  ASSUME IInv, Return
  PROVE  IInv'
<1> USE DEF Return, pageVars, dataVars
<1> DEFINE len == Len(frames) - 1
<1>1. frames \in Seq(Frame) /\ len \in Nat /\ frames # <<>> /\ frames' = SubSeq(frames, 1, len)
  BY EmptySeq DEF IInv, TypeOK, Running
<1>2. frames' \in Seq(Frame) /\ DOMAIN frames' = 1 .. len /\ \A i \in 1 .. len : frames'[i] = frames[i]
  BY <1>1, SubSeqProperties
<1>3. \A i \in 1 .. len : i \in DOMAIN frames
  BY <1>1
<1>4. \A n : Outside(n)' = Outside(n)
  BY SameView
<1>5. WritesStay'
  <2> SUFFICES ASSUME NEW i \in DOMAIN frames', NEW n \in Names, frames'[i].wrote[n] # Absent,
                      n \notin Items \/ frames'[i].objects[n] = Absent
               PROVE  Value(frames[i], n)' = frames'[i].wrote[n]
    BY DEF WritesStay, FormHides
  <2>1. i \in DOMAIN frames /\ frames'[i] = frames[i]
    BY <1>2, <1>3
  <2>2. Value(frames[i], n) = frames[i].wrote[n]
    BY <2>1 DEF IInv, WritesStay, FormHides
  <2>3. Outside(n)' = Outside(n)
    BY <1>4
  <2> QED
    BY <2>1, <2>2, <2>3 DEF Value, Outside
<1>6. TypeOK'
  BY <1>1, <1>2 DEF IInv, TypeOK
<1>7. RequestOK'
  BY DEF IInv, RequestOK, ControlsOfRequest, Sent
<1> QED
  BY <1>5, <1>6, <1>7 DEF IInv

-----------------------------------------------------------------------------
(* Assignments to what is outside the function.                            *)

LEMMA NotedOK ==
  ASSUME IInv, frames # <<>>, NEW n \in Names, NEW v \in Cell
  PROVE  /\ Noted(n, v) \in Seq(Frame) /\ Len(Noted(n, v)) = Len(frames)
         /\ \A i \in DOMAIN frames :
              /\ Noted(n, v)[i].objects = frames[i].objects
              /\ \A m \in Names : m # n => Noted(n, v)[i].wrote[m] = frames[i].wrote[m]
              /\ i = Len(frames) \/ frames[i].objects[n] = Absent => Noted(n, v)[i].wrote[n] = v
              /\ ~(i = Len(frames) \/ frames[i].objects[n] = Absent) => Noted(n, v)[i] = frames[i]
<1> DEFINE new(i) == [frames[i] EXCEPT !.wrote = [frames[i].wrote EXCEPT ![n] = v]]
<1>1. ASSUME NEW i \in DOMAIN frames
      PROVE  /\ new(i) \in Frame /\ new(i).objects = frames[i].objects /\ new(i).wrote[n] = v
             /\ \A m \in Names : m # n => new(i).wrote[m] = frames[i].wrote[m]
  <2>1. frames[i] \in Frame
    BY DEF IInv, TypeOK
  <2> DEFINE w == [frames[i].wrote EXCEPT ![n] = v]
  <2>2. w \in [Names -> Cell] /\ w[n] = v /\ \A m \in Names : m # n => w[m] = frames[i].wrote[m]
    BY <2>1 DEF Frame
  <2> HIDE DEF w
  <2>3. [frames[i] EXCEPT !.wrote = w] \in Frame
    BY <2>1, <2>2 DEF Frame
  <2>4. [frames[i] EXCEPT !.wrote = w].wrote = w /\ [frames[i] EXCEPT !.wrote = w].objects = frames[i].objects
    BY <2>1 DEF Frame
  <2>5. new(i) = [frames[i] EXCEPT !.wrote = w]
    BY DEF w
  <2> QED
    BY <2>2, <2>3, <2>4, <2>5
<1>2. Noted(n, v) = [i \in DOMAIN frames |->
        IF i = Len(frames) \/ frames[i].objects[n] = Absent THEN new(i) ELSE frames[i]]
  BY DEF Noted
<1> HIDE DEF new
<1>3. DOMAIN frames = 1 .. Len(frames) /\ Len(frames) \in Nat /\ \A i \in DOMAIN frames : frames[i] \in Frame
  BY DEF IInv, TypeOK
<1>4. Noted(n, v) \in Seq(Frame) /\ Len(Noted(n, v)) = Len(frames)
  BY <1>1, <1>2, <1>3, SeqDef
<1> QED
  BY <1>1, <1>2, <1>4

LEMMA AssignKeeps ==
  ASSUME IInv, frames # <<>>, NEW n \in Names, NEW v \in Cell, frames' = Noted(n, v),
         n \in Items \/ Top.objects[n] = Absent,
         Outside(n)' = v, \A m \in Names : m # n => Outside(m)' = Outside(m)
  PROVE  WritesStay' /\ frames' \in Seq(Frame) /\ frames' # <<>>
<1>1. frames' \in Seq(Frame) /\ Len(frames') = Len(frames)
  BY NotedOK
<1>2. DOMAIN frames' = DOMAIN frames /\ frames' # <<>>
  BY <1>1 DEF IInv, TypeOK
<1>3. ASSUME NEW i \in DOMAIN frames', NEW m \in Names, frames'[i].wrote[m] # Absent,
             m \notin Items \/ frames'[i].objects[m] = Absent
      PROVE  Value(frames[i], m)' = frames'[i].wrote[m]
  <2>0. i \in DOMAIN frames
    BY <1>2
  <2>1. /\ frames'[i].objects = frames[i].objects
        /\ m # n => frames'[i].wrote[m] = frames[i].wrote[m]
        /\ i = Len(frames) \/ frames[i].objects[n] = Absent => frames'[i].wrote[n] = v
        /\ ~(i = Len(frames) \/ frames[i].objects[n] = Absent) => frames'[i] = frames[i]
    BY <2>0, NotedOK
  <2>2. CASE m # n
    <3>1. Value(frames[i], m) = frames[i].wrote[m]
      BY <1>3, <2>0, <2>1, <2>2 DEF IInv, WritesStay, FormHides
    <3>2. Outside(m)' = Outside(m)
      BY <2>2
    <3> QED
      BY <2>1, <2>2, <3>1, <3>2 DEF Value, Outside
  <2>3. CASE m = n /\ frames[i].objects[n] = Absent
    BY <2>1, <2>3 DEF Value, Outside
  <2>4. CASE m = n /\ frames[i].objects[n] # Absent
    <3>1. i # Len(frames) /\ frames'[i] = frames[i]
      BY <1>3, <2>1, <2>4 DEF Top
    <3>2. Value(frames[i], n) = frames[i].wrote[n]
      BY <1>3, <2>0, <2>4, <3>1 DEF IInv, WritesStay, FormHides
    <3> QED
      BY <2>4, <3>1, <3>2 DEF Value
  <2> QED
    BY <2>2, <2>3, <2>4
<1>4. WritesStay'
  BY <1>3 DEF WritesStay, FormHides
<1> QED
  BY <1>1, <1>2, <1>4

LEMMA NotAbsent ==
  ASSUME NEW v \in OrNull(Values) PROVE v # Absent /\ v \in Cell
BY ConstantsAssumption DEF Cell, OrAbsent

LEMMA AssignGlobalOK ==
  ASSUME IInv, NEW n \in Variables, NEW v \in OrNull(Values), AssignGlobal(n, v)
  PROVE  IInv'
<1> SUFFICES ASSUME frames # <<>>, Count, Top.objects[n] = Absent,
                    NEW s, s = GlobalScope(n), globals' = Put(globals, s, n, v), frames' = Noted(n, v),
                    UNCHANGED <<page, serving, form, blocks, inputs, control, session, crashed, assigned, kept>>
             PROVE  IInv'
  BY DEF AssignGlobal, Running, pageVars, dataVars
<1>1. frames # <<>> /\ page \in Pages /\ page \in Scopes /\ s \in Scopes /\ page # Controller /\ Controller \in Scopes
  BY OnPage, ConstantsAssumption DEF Running, GlobalScope, Scopes
<1>2. n \notin Items /\ n \in Names /\ v # Absent /\ v \in Cell
  BY Kinds, NotAbsent
<1>3. globals \in [Scopes -> [Variables -> Cell]] /\ globals' = Put(globals, s, n, v)
  BY DEF IInv, TypeOK
<1>a. s \in Scopes /\ v \in Cell
  BY <1>1, <1>2
<1>4. /\ globals' \in [Scopes -> [Variables -> Cell]] /\ globals'[s][n] = v
      /\ \A m \in Variables : m # n => globals'[s][m] = globals[s][m]
      /\ \A q \in Scopes : q # s => globals'[q] = globals[q]
  <2>1. /\ Put(globals, s, n, v) \in [Scopes -> [Variables -> Cell]]
        /\ Put(globals, s, n, v)[s][n] = v
        /\ \A m \in Variables : m # n => Put(globals, s, n, v)[s][m] = globals[s][m]
        /\ \A q \in Scopes : q # s => Put(globals, s, n, v)[q] = globals[q]
    BY ONLY n \in Variables, <1>a, <1>3, PutGlobal
  <2> QED
    BY <1>3, <2>1
<1>5. Outside(n)' = v
  <2>1. GlobalScope(n)' = s
    BY <1>1, <1>2, <1>4 DEF GlobalScope
  <2>2. Global(n)' = v
    BY <1>4, <2>1 DEF Global
  <2> QED
    BY <1>2, <2>2 DEF Outside
<1>6. ASSUME NEW m \in Names, m # n PROVE Outside(m)' = Outside(m)
  <2>1. m \in Variables => \A q \in Scopes : globals'[q][m] = globals[q][m]
    BY <1>4, <1>6
  <2>2. m \in Variables => Global(m)' = Global(m)
    BY <1>1, <2>1 DEF Global, GlobalScope
  <2>3. ItemValue(m)' = ItemValue(m)
    BY DEF ItemValue, IsInput, InBlock
  <2> QED
    BY <2>2, <2>3 DEF Outside
<1>7. WritesStay' /\ frames' \in Seq(Frame) /\ frames' # <<>>
  BY <1>1, <1>2, <1>5, <1>6, AssignKeeps
<1>8. TypeOK'
  BY <1>1, <1>4, <1>7, CountNat DEF IInv, TypeOK
<1>9. RequestOK'
  BY DEF IInv, RequestOK, ControlsOfRequest, Sent
<1> QED
  BY <1>7, <1>8, <1>9 DEF IInv

LEMMA AssignInputOK ==
  ASSUME IInv, NEW n \in Items, NEW v \in OrNull(Values), AssignInput(n, v)
  PROVE  IInv'
<1> SUFFICES ASSUME frames # <<>>, Count, IsInput(n), inputs' = Put(inputs, page, n, v), frames' = Noted(n, v),
                    UNCHANGED <<page, serving, form, blocks, globals, control, session, crashed, assigned, kept>>
             PROVE  IInv'
  BY DEF AssignInput, Running, pageVars
<1>1. page \in Pages /\ inputs \in [Pages -> [Items -> Cell]]
  BY OnPage DEF IInv, TypeOK
<1>2. n \in Names /\ v # Absent /\ v \in Cell
  BY NotAbsent DEF Names
<1>3. /\ inputs' \in [Pages -> [Items -> Cell]] /\ inputs'[page][n] = v
      /\ \A m \in Items : m # n => inputs'[page][m] = inputs[page][m]
      /\ \A q \in Pages : q # page => inputs'[q] = inputs[q]
  BY ONLY n \in Items, inputs' = Put(inputs, page, n, v), <1>1, <1>2, PutItem
<1>4. Outside(n)' = v
  BY <1>3 DEF Outside, ItemValue, IsInput, InBlock
<1>5. ASSUME NEW m \in Names, m # n PROVE Outside(m)' = Outside(m)
  <2>1. m \in Items => ItemValue(m)' = ItemValue(m)
    BY <1>3, <1>5 DEF ItemValue, IsInput, InBlock
  <2>2. Global(m)' = Global(m)
    BY DEF Global, GlobalScope
  <2> QED
    BY <2>1, <2>2 DEF Outside
<1>6. WritesStay' /\ frames' \in Seq(Frame) /\ frames' # <<>>
  BY <1>2, <1>4, <1>5, AssignKeeps
<1>7. \A q \in Pages, m \in Items : inputs'[q][m] # Absent <=> m \in Inputs[q] /\ BlockOf[m] \in blocks'[q]
  BY <1>1, <1>2, <1>3 DEF IInv, TypeOK, IsInput, InBlock
<1>8. TypeOK'
  BY <1>1, <1>3, <1>6, <1>7, CountNat, OnPage DEF IInv, TypeOK
<1>9. RequestOK'
  BY DEF IInv, RequestOK, ControlsOfRequest, Sent
<1> QED
  BY <1>6, <1>8, <1>9 DEF IInv

LEMMA AssignControlOK ==
  ASSUME IInv, NEW n \in Items, NEW v \in OrNull(Values), AssignControl(n, v)
  PROVE  IInv'
<1> SUFFICES ASSUME frames # <<>>, Count, ~InBlock(n), control[page][n] # Absent,
                    control' = Put(control, page, n, v), assigned' = assigned \cup {n}, frames' = Noted(n, v),
                    UNCHANGED <<page, serving, form, blocks, inputs, globals, session, crashed, kept>>
             PROVE  IInv'
  BY DEF AssignControl, Running, pageVars, dataVars
<1>1. page \in Pages /\ control \in [Pages -> [Items -> Cell]]
  BY OnPage DEF IInv, TypeOK
<1>2. n \in Names /\ v # Absent /\ v \in Cell
  BY NotAbsent DEF Names
<1>3. /\ control' \in [Pages -> [Items -> Cell]] /\ control'[page][n] = v
      /\ \A m \in Items : m # n => control'[page][m] = control[page][m]
      /\ \A q \in Pages : q # page => control'[q] = control[q]
  BY ONLY n \in Items, control' = Put(control, page, n, v), <1>1, <1>2, PutItem
<1>4. Outside(n)' = v
  BY <1>2, <1>3 DEF Outside, ItemValue, IsInput, InBlock
<1>5. ASSUME NEW m \in Names, m # n PROVE Outside(m)' = Outside(m)
  <2>1. m \in Items => ItemValue(m)' = ItemValue(m)
    BY <1>3, <1>5 DEF ItemValue, IsInput, InBlock
  <2>2. Global(m)' = Global(m)
    BY DEF Global, GlobalScope
  <2> QED
    BY <2>1, <2>2 DEF Outside
<1>6. WritesStay' /\ frames' \in Seq(Frame) /\ frames' # <<>>
  BY <1>2, <1>4, <1>5, AssignKeeps
<1>7. TypeOK'
  BY <1>1, <1>3, <1>6, CountNat, OnPage DEF IInv, TypeOK
<1>8. RequestOK'
  BY <1>1, <1>2, <1>3 DEF IInv, RequestOK, ControlsOfRequest, Sent
<1> QED
  BY <1>6, <1>7, <1>8 DEF IInv

LEMMA AssignSessionOK ==
  ASSUME IInv, NEW n \in Items, NEW v \in OrNull(Values), AssignSession(n, v)
  PROVE  IInv'
<1> SUFFICES ASSUME frames # <<>>, Count, ~InBlock(n), control[page][n] = Absent,
                    session' = [session EXCEPT ![n] = v], frames' = Noted(n, v),
                    kept' = IF Sent(n) THEN kept ELSE [kept EXCEPT ![n] = v],
                    UNCHANGED <<page, serving, form, blocks, inputs, globals, control, crashed, assigned>>
             PROVE  IInv'
  BY DEF AssignSession, Running, pageVars, dataVars
<1>1. page \in Pages /\ session \in [Items -> Cell] /\ kept = session /\ ~Sent(n)
  BY OnPage DEF IInv, TypeOK, RequestOK
<1>2. n \in Names /\ v # Absent /\ v \in Cell
  BY NotAbsent DEF Names
<1>3. /\ session' \in [Items -> Cell] /\ session'[n] = v /\ kept' = session'
      /\ \A m \in Items : m # n => session'[m] = session[m]
  BY <1>1, <1>2
<1>4. Outside(n)' = v
  BY <1>3 DEF Outside, ItemValue, IsInput, InBlock
<1>5. ASSUME NEW m \in Names, m # n PROVE Outside(m)' = Outside(m)
  <2>1. m \in Items => ItemValue(m)' = ItemValue(m)
    BY <1>3, <1>5 DEF ItemValue, IsInput, InBlock
  <2>2. Global(m)' = Global(m)
    BY DEF Global, GlobalScope
  <2> QED
    BY <2>1, <2>2 DEF Outside
<1>6. WritesStay' /\ frames' \in Seq(Frame) /\ frames' # <<>>
  BY <1>2, <1>4, <1>5, AssignKeeps
<1>7. TypeOK'
  BY <1>1, <1>3, <1>6, CountNat, OnPage DEF IInv, TypeOK
<1>8. RequestOK'
  BY <1>3 DEF IInv, RequestOK, ControlsOfRequest, Sent
<1> QED
  BY <1>6, <1>7, <1>8 DEF IInv

-----------------------------------------------------------------------------
(* Assignments in the frame of the function.                               *)

LEMMA LocalKeeps ==
  ASSUME IInv, frames # <<>>, NEW fr \in Frame, NEW n \in Names, frames' = SetTop(fr),
         UNCHANGED <<page, dataVars, globals, control, session>>,
         \A m \in Names : m # n => fr.objects[m] = Top.objects[m] /\ fr.wrote[m] = Top.wrote[m],
         fr.wrote[n] # Absent => fr.objects[n] # Absent /\ fr.objects[n].of = fr.wrote[n]
  PROVE  WritesStay' /\ frames' \in Seq(Frame) /\ frames' # <<>>
<1>1. frames \in Seq(Frame) /\ Len(frames) \in Nat /\ Len(frames) \in DOMAIN frames /\ DOMAIN frames = 1 .. Len(frames)
  BY OnPage DEF IInv, TypeOK
<1>2. /\ frames' \in Seq(Frame) /\ DOMAIN frames' = DOMAIN frames /\ frames'[Len(frames)] = fr /\ frames' # <<>>
      /\ \A i \in DOMAIN frames : i # Len(frames) => frames'[i] = frames[i]
  BY <1>1 DEF SetTop
<1>3. \A m : Outside(m)' = Outside(m)
  BY SameView
<1>4. ASSUME NEW i \in DOMAIN frames', NEW m \in Names, frames'[i].wrote[m] # Absent,
             m \notin Items \/ frames'[i].objects[m] = Absent
      PROVE  Value(frames[i], m)' = frames'[i].wrote[m]
  <2>1. Outside(m)' = Outside(m) /\ i \in DOMAIN frames
    BY <1>2, <1>3
  <2>2. CASE i = Len(frames) /\ m = n
    BY <1>2, <1>4, <2>2 DEF Value
  <2>3. CASE i # Len(frames) \/ m # n
    <3>1. frames'[i].objects[m] = frames[i].objects[m] /\ frames'[i].wrote[m] = frames[i].wrote[m]
      BY <1>2, <2>1, <2>3 DEF Top
    <3>2. Value(frames[i], m) = frames[i].wrote[m]
      BY <1>4, <2>1, <3>1 DEF IInv, WritesStay, FormHides
    <3> QED
      BY <2>1, <3>1, <3>2 DEF Value, Outside
  <2> QED
    BY <2>2, <2>3
<1>5. WritesStay'
  BY <1>4 DEF WritesStay, FormHides
<1> QED
  BY <1>2, <1>5

(* The rest of the state stays as it is.                                   *)
LEMMA LocalOK ==
  ASSUME IInv, WritesStay', frames' \in Seq(Frame), serving # "none" \/ frames' = frames, Count,
         crashed' \in BOOLEAN, UNCHANGED <<pageVars, dataVars, globals, control, session, assigned, kept>>
  PROVE  IInv'
<1> USE DEF pageVars, dataVars
<1>1. TypeOK'
  BY CountNat DEF IInv, TypeOK
<1>2. RequestOK'
  BY DEF IInv, RequestOK, ControlsOfRequest, Sent
<1> QED
  BY <1>1, <1>2 DEF IInv

LEMMA AssignHereOK ==
  ASSUME IInv, Running, Count, NEW n \in Variables \cup Functions, NEW v \in OrNull(Values),
         frames' = SetTop(WithLocal(n, Text(v), v)),
         UNCHANGED <<pageVars, dataVars, globals, control, session, crashed, assigned, kept>>
  PROVE  IInv'
<1>1. n \in Names /\ v \in Cell /\ Text(v) \in Held /\ Text(v) # Absent /\ Text(v).of = v
  BY Kinds, NotAbsent, ConstantsAssumption DEF Held, Text
<1>2. frames # <<>> /\ Top \in Frame /\ serving # "none"
  BY OnPage DEF Running
<1> DEFINE o == [Top.objects EXCEPT ![n] = Text(v)]
           w == [Top.wrote EXCEPT ![n] = v]
           fr == WithLocal(n, Text(v), v)
<1>3. /\ o \in [Names -> OrAbsent(Held)] /\ o[n] = Text(v) /\ \A m \in Names : m # n => o[m] = Top.objects[m]
      /\ w \in [Names -> Cell] /\ w[n] = v /\ \A m \in Names : m # n => w[m] = Top.wrote[m]
  BY <1>1, <1>2 DEF Frame, OrAbsent
<1>4. fr = [Top EXCEPT !.objects = o, !.wrote = w]
  BY DEF WithLocal
<1> HIDE DEF o, w, fr
<1>5. fr \in Frame /\ fr.objects = o /\ fr.wrote = w
  BY <1>2, <1>3, <1>4 DEF Frame
<1>6. frames' = SetTop(fr)
  BY DEF fr
<1>7. /\ \A m \in Names : m # n => fr.objects[m] = Top.objects[m] /\ fr.wrote[m] = Top.wrote[m]
      /\ fr.wrote[n] # Absent => fr.objects[n] # Absent /\ fr.objects[n].of = fr.wrote[n]
  BY <1>1, <1>3, <1>5
<1>8. WritesStay' /\ frames' \in Seq(Frame)
  BY <1>1, <1>2, <1>5, <1>6, <1>7, LocalKeeps DEF pageVars
<1> QED
  BY <1>2, <1>8, LocalOK DEF IInv, TypeOK

LEMMA SelectOK ==
  ASSUME IInv, NEW n \in Variables, Select(n)
  PROVE  IInv'
<1> SUFFICES ASSUME Running, Count,
                    frames' = SetTop([Top EXCEPT !.objects = [Top.objects EXCEPT ![n] = Selected(n, steps')],
                                  !.picked = [Top.picked EXCEPT ![n] = steps'],
                                  !.wrote = [Top.wrote EXCEPT ![n] = Absent]]),
                    UNCHANGED <<pageVars, dataVars, globals, control, session, crashed, assigned, kept>>
             PROVE  IInv'
  BY DEF Select
<1>1. frames # <<>> /\ Top \in Frame /\ serving # "none" /\ n \in Names /\ steps' \in Nat
  BY OnPage, Kinds, CountNat DEF Running, IInv, TypeOK
<1>2. Selected(n, steps') \in OrAbsent(Held)
  BY <1>1 DEF Selected, Frame, OrAbsent, Held, Rows
<1> DEFINE o == [Top.objects EXCEPT ![n] = Selected(n, steps')]
           k == [Top.picked EXCEPT ![n] = steps']
           w == [Top.wrote EXCEPT ![n] = Absent]
           fr == [Top EXCEPT !.objects = o, !.picked = k, !.wrote = w]
<1>3. /\ o \in [Names -> OrAbsent(Held)] /\ \A m \in Names : m # n => o[m] = Top.objects[m]
      /\ k \in [Names -> OrAbsent(Nat)]
      /\ w \in [Names -> Cell] /\ w[n] = Absent /\ \A m \in Names : m # n => w[m] = Top.wrote[m]
  BY <1>1, <1>2 DEF Frame, OrAbsent, Cell
<1> HIDE DEF o, k, w
<1>4. fr \in Frame /\ fr.objects = o /\ fr.wrote = w
  BY <1>1, <1>3 DEF Frame
<1> HIDE DEF fr
<1>5. frames' = SetTop(fr)
  BY DEF fr, o, k, w
<1>6. WritesStay' /\ frames' \in Seq(Frame)
  BY <1>1, <1>3, <1>4, <1>5, LocalKeeps DEF pageVars
<1> QED
  BY <1>1, <1>6, LocalOK DEF IInv, TypeOK

LEMMA DiesOK ==
  ASSUME IInv, Count, crashed' = TRUE,
         UNCHANGED <<pageVars, dataVars, globals, control, session, frames, assigned, kept>>
  PROVE  IInv'
<1>1. \A m : Outside(m)' = Outside(m)
  BY SameView DEF pageVars
<1>2. WritesStay'
  BY <1>1 DEF IInv, WritesStay, FormHides, Value, Outside
<1> QED
  BY <1>2, LocalOK DEF IInv, TypeOK

(* Items have values of other rows now, of which nobody wrote any.         *)
LEMMA MoveRowsOK ==
  ASSUME IInv, NEW rows \in RowsOf(Inputs[page]), MoveRows(rows)
  PROVE  IInv'
<1> USE DEF MoveRows, pageVars
<1> DEFINE new == [n \in Items |-> IF IsInput(n) THEN rows[n] ELSE Absent]
           w(i) == [n \in Names |-> IF n \in Items THEN Absent ELSE frames[i].wrote[n]]
<1>1. frames # <<>> /\ page \in Pages /\ rows \in [Items -> Cell] /\ \A n \in Items : rows[n] # Absent <=> n \in Inputs[page]
  BY OnPage DEF Running, RowsOf
<1>2. new \in [Items -> Cell] /\ \A n \in Items : new[n] # Absent <=> n \in Inputs[page] /\ BlockOf[n] \in blocks[page]
  BY <1>1 DEF IsInput, InBlock, Cell, OrAbsent
<1>3. inputs' = [inputs EXCEPT ![page] = new]
  OBVIOUS
<1> HIDE DEF new
<1>4. /\ inputs' \in [Pages -> [Items -> Cell]]
      /\ \A q \in Pages, n \in Items : inputs'[q][n] # Absent <=> n \in Inputs[q] /\ BlockOf[n] \in blocks'[q]
  BY <1>1, <1>2, <1>3 DEF IInv, TypeOK
<1>5. ASSUME NEW i \in DOMAIN frames
      PROVE  /\ frames[i] \in Frame /\ w(i) \in [Names -> Cell]
             /\ \A n \in Names : w(i)[n] = IF n \in Items THEN Absent ELSE frames[i].wrote[n]
  <2>1. frames[i] \in Frame
    BY DEF IInv, TypeOK
  <2> QED
    BY <2>1 DEF Frame, Cell, OrAbsent
<1>6. frames' = [i \in DOMAIN frames |-> [frames[i] EXCEPT !.wrote = w(i)]]
  OBVIOUS
<1> HIDE DEF w
<1>7. ASSUME NEW i \in DOMAIN frames
      PROVE  /\ [frames[i] EXCEPT !.wrote = w(i)] \in Frame
             /\ frames'[i].objects = frames[i].objects /\ frames'[i].wrote = w(i)
  BY <1>5, <1>6 DEF Frame
<1>8. frames' \in Seq(Frame) /\ DOMAIN frames' = DOMAIN frames /\ frames' # <<>>
  <2>1. DOMAIN frames = 1 .. Len(frames) /\ Len(frames) \in Nat
    BY DEF IInv, TypeOK
  <2>2. frames' \in [1 .. Len(frames) -> Frame]
    BY <1>6, <1>7, <2>1
  <2>3. frames' \in Seq(Frame) /\ Len(frames') = Len(frames)
    BY <2>1, <2>2, SeqDef
  <2> QED
    BY <1>1, <2>1, <2>3
<1>9. WritesStay'
  <2> SUFFICES ASSUME NEW i \in DOMAIN frames', NEW n \in Names, frames'[i].wrote[n] # Absent
               PROVE  Value(frames[i], n)' = frames'[i].wrote[n]
    BY DEF WritesStay
  <2>a. i \in DOMAIN frames
    BY <1>8
  <2>b. frames'[i].wrote = w(i) /\ w(i)[n] = IF n \in Items THEN Absent ELSE frames[i].wrote[n]
    BY <2>a, <1>5, <1>7
  <2>1. i \in DOMAIN frames /\ n \notin Items /\ frames'[i].wrote[n] = frames[i].wrote[n]
    BY <2>a, <2>b
  <2>2. Value(frames[i], n) = frames[i].wrote[n]
    BY <2>1 DEF IInv, WritesStay, FormHides
  <2>3. Global(n)' = Global(n)
    BY DEF Global, GlobalScope
  <2> QED
    BY <1>7, <2>1, <2>2, <2>3 DEF Value
<1>10. TypeOK'
  BY <1>4, <1>8, CountNat, OnPage, <1>1 DEF IInv, TypeOK
<1>11. RequestOK'
  BY DEF IInv, RequestOK, ControlsOfRequest, Sent
<1> QED
  BY <1>9, <1>10, <1>11 DEF IInv

-----------------------------------------------------------------------------
(* The invariant.                                                          *)

LEMMA Initially ==
  ASSUME Init
  PROVE  IInv
<1> USE DEF Init
<1>1. WritesStay
  BY DEF WritesStay
<1>2. NoCells \in [Items -> Cell] /\ NoCells \in [Items -> OrAbsent(Values)] /\ \A n \in Items : NoCells[n] = Absent
  BY DEF NoCells, Cell, OrAbsent
<1>3. globals \in [Scopes -> [Variables -> Cell]]
  BY DEF Fresh, Cell, OrNull, OrAbsent
<1>4. TypeOK
  <2>1. page \in OrNull(Pages) /\ frames \in Seq(Frame)
    BY DEF OrNull
  <2>2. /\ inputs \in [Pages -> [Items -> Cell]] /\ control \in [Pages -> [Items -> Cell]]
        /\ blocks \in [Pages -> SUBSET Blocks] /\ form \in [Items -> OrAbsent(Values)]
        /\ \A p \in Pages, n \in Items : inputs[p][n] = Absent /\ BlockOf[n] \notin blocks[p]
    BY <1>2
  <2>3. session \in [Items -> Cell] /\ kept \in [Items -> Cell]
    BY ConstantsAssumption
  <2> QED
    BY <1>3, <2>1, <2>2, <2>3 DEF TypeOK
<1>5. RequestOK
  BY <1>2 DEF RequestOK, ControlsOfRequest, Sent
<1> QED
  BY <1>1, <1>4, <1>5 DEF IInv

LEMMA Steps ==
  ASSUME IInv, [Next]_vars
  PROVE  IInv'
<1>1. CASE Request
  <2>1. ASSUME NEW p \in Pages, GetPage(p) PROVE IInv'
    BY <2>1, GetPageOK
  <2>2. ASSUME NEW p \in Pages, NEW f \in FormsOf(p), Ajax(p, f) PROVE IInv'
    BY <2>2, AjaxOK
  <2>3. ASSUME page # NULL, NEW b \in Blocks, NEW row \in RowsOf(Inputs[page]), AddBlock(b, row) PROVE IInv'
    BY <2>3, AddBlockOK
  <2>4. ASSUME EndRequest PROVE IInv'
    BY <2>4, EndRequestOK
  <2> QED
    BY <1>1, <2>1, <2>2, <2>3, <2>4 DEF Request
<1>2. CASE Frames
  <2>1. ASSUME Return PROVE IInv'
    BY <2>1, ReturnOK
  <2> QED
    BY <1>2, <2>1, Pushes DEF Frames
<1>3. CASE Statement
  <2>1. ASSUME NEW n \in Variables, NEW v \in OrNull(Values), Declare(n, v) PROVE IInv'
    BY <2>1, AssignHereOK DEF Declare
  <2>2. ASSUME NEW n \in Variables \cup Functions, NEW v \in OrNull(Values), AssignLocal(n, v) PROVE IInv'
    BY <2>2, AssignHereOK DEF AssignLocal
  <2>3. ASSUME NEW n \in Variables, NEW v \in OrNull(Values), AssignGlobal(n, v) PROVE IInv'
    BY <2>3, AssignGlobalOK
  <2>4. ASSUME NEW n \in Items, NEW v \in OrNull(Values), AssignInput(n, v) PROVE IInv'
    BY <2>4, AssignInputOK
  <2>5. ASSUME NEW n \in Items, NEW v \in OrNull(Values), AssignControl(n, v) PROVE IInv'
    BY <2>5, AssignControlOK
  <2>6. ASSUME NEW n \in Items, NEW v \in OrNull(Values), AssignSession(n, v) PROVE IInv'
    BY <2>6, AssignSessionOK
  <2>7. ASSUME NEW rows \in RowsOf(Inputs[page]), MoveRows(rows) PROVE IInv'
    BY <2>7, MoveRowsOK
  <2>8. ASSUME NEW n \in Variables, Select(n) PROVE IInv'
    BY <2>8, SelectOK
  <2>9. ASSUME Dies \/ \E f \in Functions : AssignFunction(f) PROVE IInv'
    BY <2>9, DiesOK DEF Dies, AssignFunction
  <2> QED
    BY <1>3, <2>1, <2>2, <2>3, <2>4, <2>5, <2>6, <2>7, <2>8, <2>9 DEF Statement
<1>4. CASE UNCHANGED vars
  <2> USE <1>4 DEF vars, pageVars, dataVars
  <2>1. \A m : Outside(m)' = Outside(m)
    BY SameView
  <2>2. WritesStay'
    BY <2>1 DEF IInv, WritesStay, FormHides, Value, Outside
  <2>3. TypeOK' /\ RequestOK'
    BY DEF IInv, TypeOK, RequestOK, ControlsOfRequest, Sent
  <2> QED
    BY <2>2, <2>3 DEF IInv
<1> QED
  BY <1>1, <1>2, <1>3, <1>4 DEF Next

LEMMA Invariance == Spec => []IInv
<1>1. Init => IInv
  BY Initially
<1>2. IInv /\ [Next]_vars => IInv'
  BY Steps
<1> QED
  BY <1>1, <1>2, PTL DEF Spec

(* What an item stands for that was not sent, and in no block, is what the *)
(* session has.                                                            *)
LEMMA InSession ==
  ASSUME IInv
  PROVE  SessionKept
<1> SUFFICES ASSUME NEW i \in DOMAIN frames, NEW n \in Items,
                    ~InBlock(n), ~Sent(n), frames[i].objects[n] = Absent
             PROVE  Value(frames[i], n) = kept[n]
  BY DEF SessionKept
<1>1. page \in Pages
  BY OnPage DEF IInv, TypeOK
<1>2. control[page][n] = Absent /\ session = kept
  BY <1>1 DEF IInv, RequestOK, ControlsOfRequest
<1> QED
  BY <1>2 DEF Value, ItemValue, IsInput

(* The variables keep their types in every run of programs: a page has     *)
(* values for the inputs of the blocks parsed so far and for no others,    *)
(* and functions run only while a request is served.                       *)
THEOREM TypeCorrect == Spec => []TypeOK
BY Invariance, PTL DEF IInv

(* Whatever the functions, variables, pages and blocks are, a function     *)
(* reads back what it or a function it called wrote last under a name,     *)
(* unless the name is an item of the form (getBlockVariableValue and       *)
(* setBlockVariableValue choose the same scope).                           *)
THEOREM WrittenIsRead == Spec => []WritesStay
BY Invariance, PTL DEF IInv

(* A control block variable is found only while the request that sent it   *)
(* is served, with the value sent or one assigned since                    *)
(* (addControlBlockDataItemsToLocalStack, tagCBVariable_destroyAll).       *)
THEOREM ControlsEnd == Spec => []ControlsOfRequest
BY Invariance, PTL DEF IInv, RequestOK

(* An item that the page does not hold is the session variable, on every   *)
(* page and in every request: what was assigned to it last is read         *)
(* (setBlockVariableValue).                                                *)
THEOREM SessionRemembers == Spec => []SessionKept
<1>1. IInv => SessionKept
  BY InSession
<1> QED
  BY <1>1, Invariance, PTL
=============================================================================
