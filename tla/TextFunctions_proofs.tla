------------------------ MODULE TextFunctions_proofs ------------------------
(***************************************************************************)
(* For texts, lists and trees of every length: the routines of             *)
(* TextFunctions read and write inside their blocks and give what their    *)
(* definitions ask for.  IInv says where the loops stand, AgreeInv what    *)
(* they have found or made so far.  The reference definitions are functions*)
(* of the numbers; induction over these comes from the library's well      *)
(* founded orderings (Least, NatInd, RecUp).                               *)
(***************************************************************************)
EXTENDS TextFunctions, FiniteSetTheorems, WellFoundedInduction, TLAPS

Small == \A r \in 1..Len(input.rows) : input.rows[r].size < 500
Even  == \A r \in 1..Len(input.rows) : input.rows[r].has = input.rows[1].has

(* Where the loops stand; what has been written is bounded by what was read.*)
LikeInv ==
  input.fn = "like" =>
    /\ i <= Len(source) + 1 /\ j <= Len(word) + 1
    /\ mark <= Len(source) + 1 /\ wild <= Len(word) + 1
    /\ mark # 0 => wild # 0

SearchInv ==
  /\ pc = "search" => i = 1
  /\ pc = "roll" => Len(word) > 0 /\ i <= LastTry /\ j = i + Len(word) - 1
  /\ input.fn = "search" => i <= Len(source) + 1

CodeInv ==
  /\ input.fn = "escape" => /\ i <= Len(source) + 1 /\ Len(out) <= 2 * (i - 1)
                            /\ PlainUpTo(i - 1) => Len(out) < 2 * (i - 1)
                            /\ pc = "done" /\ PlainUpTo(Len(source)) => Len(result) < room
                            /\ i > 1 => room = 2 * Len(source)
                            /\ i = 1 => room = 0
  /\ pc = "encode" => /\ i <= Len(source) + 1 /\ Len(out) <= 3 * (i - 1)
                      /\ i > 1 => room = 3 * Len(source) + 1
  /\ pc = "decode" => /\ i <= Len(Given) + 1 /\ Len(out) <= i - 1
                      /\ i > 1 => room = Len(Given) + 1

ListInv ==
  Small => /\ ~list.cut /\ list.kept = list.used
           /\ 250 <= list.reserved /\ list.used < 2 * list.reserved

TreeInv ==
  /\ input.fn # "tree" => ~misused
  /\ input.fn = "tree" /\ Even =>
       /\ ~misused
       /\ i = 1 => strings = [c \in Columns |-> "null"]
       /\ i > 1 => strings = [c \in Columns |->
                                IF c \in input.rows[1].has THEN "freed" ELSE "null"]
       /\ Len(out) = i - 1 /\ Len(out) <= Len(input.rows)
       /\ \A r \in 1..Len(out) :
            /\ out[r] \subseteq Own(input.rows[r])
            /\ Names \subseteq Own(input.rows[r]) => out[r] = Own(input.rows[r])
       /\ pc = "done" => /\ result = out
                         /\ i <= Len(input.rows) => input.rows[i].names = {}

IInv == TypeOK /\ LikeInv /\ SearchInv /\ CodeInv /\ ListInv /\ TreeInv

-----------------------------------------------------------------------------
(* Induction over the numbers, from the library's well founded orderings,   *)
(* and functions that are computed upwards.                                *)
LEMMA Least ==
  ASSUME NEW T \in SUBSET Nat, T # {}
  PROVE  \E m \in T : \A k \in T : m <= k
  <1> DEFINE Below(k) == 0..(k - 1)
             Belows   == {Below(k) : k \in T}
  <1>1. Belows \subseteq FiniteSubsetsOf(Nat) /\ Belows # {}
    <2>1. \A k \in T : Below(k) \in SUBSET Nat
      OBVIOUS
    <2>2. \A k \in T : IsFiniteSet(0..(k - 1))
      BY FS_Interval
    <2>3. QED
      BY <2>1, <2>2 DEF FiniteSubsetsOf
  <1>2. \E x \in Belows : \A y \in Belows : <<y, x>> \notin StrictSubsetOrdering(Nat)
    <2> HIDE DEF Belows
    <2>1. QED
      BY <1>1, WFMin, FS_StrictSubsetOrderingWellFounded
  <1>3. PICK m \in T : \A k \in T : <<Below(k), Below(m)>> \notin StrictSubsetOrdering(Nat)
    BY <1>2
  <1>4. ASSUME NEW k \in T, k < m
        PROVE  FALSE
    <2>1. Below(k) \in SUBSET Nat /\ Below(m) \in SUBSET Nat /\ Below(k) \subseteq Below(m)
      BY <1>4
    <2>2. k \in Below(m) /\ k \notin Below(k)
      BY <1>4
    <2>3. <<Below(k), Below(m)>> \in StrictSubsetOrdering(Nat)
      BY <2>1, <2>2 DEF StrictSubsetOrdering
    <2>4. QED
      BY <1>3, <2>3
  <1>5. \A k \in T : m <= k
    BY <1>4
  <1>6. QED
    BY <1>5

LEMMA NatInd ==
  ASSUME NEW S, 0 \in S, \A k \in S \cap Nat : k + 1 \in S
  PROVE  Nat \subseteq S
  <1>1. SUFFICES ASSUME Nat \ S # {} PROVE FALSE
    OBVIOUS
  <1>2. PICK m \in Nat \ S : \A k \in Nat \ S : m <= k
    BY <1>1, Least
  <1>3. m # 0 /\ m - 1 \in Nat
    BY <1>2
  <1>4. m - 1 \in S
    BY <1>2, <1>3
  <1>5. (m - 1) + 1 \in S
    BY <1>3, <1>4
  <1>6. QED
    BY <1>2, <1>5

(* f is computed upwards from start, one step for each number.             *)
Computes(f, m, start, step) == f[0] = start /\ \A k \in 1..m : f[k] = step[k][f[k - 1]]

LEMMA RecUp ==
  ASSUME NEW N \in Nat, NEW S, NEW s0 \in S, NEW step \in [1..N -> [S -> S]]
  PROVE  \E f \in [0..N -> S] : Computes(f, N, s0, step)
  <1> DEFINE Ok(m, f) == f[0] = s0 /\ \A k \in 1..m : f[k] = step[k][f[k - 1]]
             P == {m \in Nat : m <= N => \E f \in [0..m -> S] : Ok(m, f)}
  <1>1. 0 \in P
    <2>1. [k \in 0..0 |-> s0] \in [0..0 -> S] /\ Ok(0, [k \in 0..0 |-> s0])
      OBVIOUS
    <2>2. QED
      BY <2>1
  <1>2. ASSUME NEW m \in P \cap Nat
        PROVE  m + 1 \in P
    <2>1. SUFFICES ASSUME m + 1 <= N PROVE \E f \in [0..(m + 1) -> S] : Ok(m + 1, f)
      OBVIOUS
    <2>2. PICK f \in [0..m -> S] : Ok(m, f)
      BY <1>2, <2>1
    <2> DEFINE g == [k \in 0..(m + 1) |-> IF k <= m THEN f[k] ELSE step[m + 1][f[m]]]
    <2>3. f[m] \in S /\ m + 1 \in 1..N
      BY <2>1, <2>2
    <2>4. step[m + 1][f[m]] \in S
      BY <2>3
    <2>5. g \in [0..(m + 1) -> S]
      BY <2>2, <2>4
    <2>6. g[0] = s0 /\ \A k \in 0..m : g[k] = f[k]
      BY <2>2
    <2>7. ASSUME NEW k \in 1..(m + 1)
          PROVE  g[k] = step[k][g[k - 1]]
      <3>1. CASE k <= m
        <4>1. k \in 1..m /\ k - 1 \in 0..m /\ k \in 0..m
          BY <3>1
        <4>2. QED
          BY <4>1, <2>2, <2>6
      <3>2. CASE k = m + 1
        <4>1. k - 1 = m /\ m \in 0..m /\ ~(k <= m) /\ k \in 0..(m + 1)
          BY <3>2
        <4>2. g[k - 1] = f[m]
          BY <4>1, <2>6
        <4>3. QED
          BY <4>1, <4>2, <3>2
      <3>3. QED
        BY <3>1, <3>2
    <2>8. QED
      <3> HIDE DEF g
      <3>1. QED
        BY <2>5, <2>6, <2>7
  <1>3. N \in P
    <2> HIDE DEF P
    <2>1. QED
      BY <1>1, <1>2, NatInd
  <1>4. QED
    BY <1>3 DEF Computes
LEMMA RecTyped ==
  ASSUME NEW N \in Nat, NEW S, NEW h, h = [k \in 0..N |-> h[k]], h[0] \in S,
         \A k \in 1..N : h[k - 1] \in S => h[k] \in S
  PROVE  h \in [0..N -> S]
  <1> DEFINE P == {k \in Nat : k <= N => h[k] \in S}
  <1>1. 0 \in P
    OBVIOUS
  <1>2. ASSUME NEW k \in P \cap Nat PROVE k + 1 \in P
    <2>1. k + 1 <= N => k + 1 \in 1..N /\ (k + 1) - 1 = k /\ k <= N
      OBVIOUS
    <2>2. k <= N => h[k] \in S
      BY <1>2
    <2>3. k + 1 <= N => h[k + 1] \in S
      BY <2>1, <2>2
    <2>4. QED
      BY <2>3
  <1>3. Nat \subseteq P
    <2> HIDE DEF P
    <2>1. QED
      BY <1>1, <1>2, NatInd
  <1>4. QED
    BY <1>3

-----------------------------------------------------------------------------
LEMMA AtIsByte ==
  ASSUME NEW x \in Seq(Char), NEW k \in Nat
  PROVE  /\ At(x, k) \in Byte
         /\ k \in 1..Len(x) => At(x, k) # 0 /\ At(x, k) \in Char
         /\ k \notin 1..Len(x) => At(x, k) = 0
  <1>1. CASE k \in 1..Len(x)
    <2>1. x[k] \in Char
      BY <1>1
    <2>2. At(x, k) = x[k]
      BY <1>1 DEF At
    <2>3. \A c \in Char : c \in Byte /\ c # 0
      BY DEF Char, Byte
    <2>4. QED
      BY <1>1, <2>1, <2>2, <2>3
  <1>2. CASE k \notin 1..Len(x)
    BY <1>2 DEF At, Byte
  <1>3. QED
    BY <1>1, <1>2

LEMMA AtOfBytes ==
  ASSUME NEW x \in Seq(Byte), NEW k \in Nat
  PROVE  At(x, k) \in Byte /\ (At(x, k) # 0 => k \in 1..Len(x))
  <1>1. CASE k \in 1..Len(x)
    BY <1>1 DEF At
  <1>2. CASE k \notin 1..Len(x)
    BY <1>2 DEF At, Byte
  <1>3. QED
    BY <1>1, <1>2

LEMMA TextsAreBytes == \A x \in Seq(Char) : x \in Seq(Byte)
  BY DEF Char, Byte

LEMMA RestIsText ==
  ASSUME NEW x \in Seq(Char), NEW k \in 1..Len(x)
  PROVE  Rest(x, k) \in Seq(Byte)
  BY TextsAreBytes DEF Rest

LEMMA Or8IsByte ==
  ASSUME NEW x \in Int, NEW y \in Int
  PROVE  Or8(x, y) \in Byte
  <1> DEFINE Bit(p) == IF (x \div p) % 2 = 1 \/ (y \div p) % 2 = 1 THEN p ELSE 0
  <1>1. \A p \in Nat : Bit(p) \in {0, p}
    OBVIOUS
  <1>2. Or8(x, y) = Bit(1) + Bit(2) + Bit(4) + Bit(8) + Bit(16) + Bit(32) + Bit(64) + Bit(128)
    BY DEF Or8
  <1> HIDE DEF Bit
  <1>3. /\ Bit(1) \in {0, 1} /\ Bit(2) \in {0, 2} /\ Bit(4) \in {0, 4} /\ Bit(8) \in {0, 8}
        /\ Bit(16) \in {0, 16} /\ Bit(32) \in {0, 32} /\ Bit(64) \in {0, 64}
        /\ Bit(128) \in {0, 128}
    BY <1>1
  <1>4. QED
    BY <1>2, <1>3 DEF Byte

LEMMA ShortTexts ==
  ASSUME NEW a \in Byte, NEW b \in Byte, NEW c \in Byte
  PROVE  /\ <<>> \in Seq(Byte) /\ Len(<<>>) = 0
         /\ <<a>> \in Seq(Byte) /\ Len(<<a>>) = 1
         /\ <<a, b>> \in Seq(Byte) /\ Len(<<a, b>>) = 2
         /\ <<a, b, c>> \in Seq(Byte) /\ Len(<<a, b, c>>) = 3
  OBVIOUS

LEMMA Nibbles ==
  ASSUME NEW b \in Byte
  PROVE  b \div 16 \in 0..15 /\ b % 16 \in 0..15
  <1>1. b \in Nat /\ b < 256
    BY DEF Byte
  <1>2. b = 16 * (b \div 16) + (b % 16) /\ b % 16 \in 0..15
    BY <1>1
  <1>3. b \div 16 \in Int
    BY <1>1
  <1>4. QED
    BY <1>1, <1>2, <1>3

LEMMA SignedInt == \A b \in Byte : Signed(b) \in Int
  BY DEF Signed, Byte

(* The hash of the first k bytes is the sum of the bytes so far.           *)
LEMMA HashIs ==
  ASSUME NEW x \in Seq(Char)
  PROVE  \E h \in [0..Len(x) -> Int] :
           h[0] = 0 /\ (\A k \in 1..Len(x) : h[k] = h[k - 1] + Signed(x[k])) /\ HashOf(x) = h[Len(x)]
  <1>1. \A k \in 1..Len(x) : Signed(x[k]) \in Int
    <2>1. \A k \in 1..Len(x) : x[k] \in Char
      OBVIOUS
    <2>2. \A c \in Char : c \in Byte
      BY DEF Char, Byte
    <2>3. QED
      BY <2>1, <2>2, SignedInt
  <1>2. Len(x) \in Nat
    OBVIOUS
  <1> DEFINE H == CHOOSE H : H = [k \in 0..Len(x) |-> IF k = 0 THEN 0 ELSE H[k - 1] + Signed(x[k])]
  <1>3. \E f : f = [k \in 0..Len(x) |-> IF k = 0 THEN 0 ELSE f[k - 1] + Signed(x[k])]
    <2>1. PICK step : step = [k \in 1..Len(x) |-> [s \in Int |-> s + Signed(x[k])]]
      OBVIOUS
    <2>2. step \in [1..Len(x) -> [Int -> Int]]
      BY <1>1, <2>1
    <2>3. PICK f \in [0..Len(x) -> Int] : Computes(f, Len(x), 0, step)
      BY ONLY <1>2, 0 \in Int, <2>2, RecUp, Zenon
    <2>4. f[0] = 0 /\ \A k \in 1..Len(x) : f[k] = step[k][f[k - 1]]
      BY <2>3 DEF Computes
    <2>5. \A k \in 1..Len(x) : k - 1 \in 0..Len(x) /\ f[k - 1] \in Int
      BY <1>2
    <2>6. \A k \in 1..Len(x) : f[k] = f[k - 1] + Signed(x[k])
      BY <2>1, <2>4, <2>5
    <2>7. QED
      BY <1>2, <2>4, <2>6
  <1>4. H = [k \in 0..Len(x) |-> IF k = 0 THEN 0 ELSE H[k - 1] + Signed(x[k])]
    BY <1>3
  <1>5. HashOf(x) = H[Len(x)]
    BY DEF HashOf
  <1> HIDE DEF H
  <1>6. H[0] = 0 /\ \A k \in 1..Len(x) : H[k] = H[k - 1] + Signed(x[k])
    BY <1>4, <1>2
  <1>7. H \in [0..Len(x) -> Int]
    <2>1. H = [k \in 0..Len(x) |-> H[k]]
      BY <1>4
    <2>2. \A k \in 1..Len(x) : H[k - 1] \in Int => H[k] \in Int
      BY <1>1, <1>6
    <2>3. QED
      BY <1>2, <1>6, <2>1, <2>2, RecTyped
  <1>8. QED
    BY <1>5, <1>6, <1>7
LEMMA HashInt ==
  ASSUME NEW x \in Seq(Char)
  PROVE  HashOf(x) \in Int
  <1>1. PICK h \in [0..Len(x) -> Int] : HashOf(x) = h[Len(x)]
    BY HashIs
  <1>2. Len(x) \in 0..Len(x)
    OBVIOUS
  <1>3. QED
    BY <1>1, <1>2

(* A loop belongs to one routine; decoding follows encoding or stands alone.*)
LEMMA Owner ==
  ASSUME TypeOK
  PROVE  /\ pc = "like" => input.fn = "like"
         /\ pc \in {"count", "build"} => input.fn = "replace"
         /\ pc = "length" => input.fn \in {"instr", "strlen"}
         /\ pc \in {"search", "roll"} => input.fn = "search"
         /\ pc \in {"start", "end"} => input.fn = "substr"
         /\ pc = "escape" => input.fn = "escape"
         /\ pc = "encode" => input.fn = "encode"
         /\ pc = "decode" => input.fn \in {"encode", "decode"}
         /\ pc = "options" => input.fn = "options"
         /\ pc = "tree" => input.fn = "tree"
  <1>1. input.fn \in Routines /\ pc \in Loops[input.fn] \cup {"done"}
    BY DEF TypeOK, Call
  <1>2. \A f \in Routines : input.fn = f => pc \in Loops[f] \cup {"done"}
    BY <1>1
  <1>3. QED
    BY <1>1, <1>2 DEF Routines, Loops

LEMMA CallTyped ==
  ASSUME TypeOK
  PROVE  /\ source \in Seq(Char) /\ word \in Seq(Char) /\ input.new \in Seq(Char)
         /\ input.from \in Int /\ input.count \in Int /\ input.rows \in Seq(Row)
         /\ input.fn \in Routines
         /\ Given \in Seq(Byte)
  <1>1. input \in Call /\ text \in Seq(Byte)
    BY DEF TypeOK
  <1>2. source \in Seq(Char) /\ word \in Seq(Char)
    BY <1>1 DEF Call, source, word
  <1>3. QED
    BY <1>1, <1>2, TextsAreBytes DEF Call, Given

LEMMA Initially == Init => IInv
  <1> SUFFICES ASSUME Init PROVE IInv
    OBVIOUS
  <1>1. input \in Call
    BY InputsAssumption DEF Init
  <1>2. TypeOK
    <2>1. list \in [kept : Nat, used : Nat, reserved : Nat, cut : BOOLEAN]
      BY DEF Init
    <2>2. strings \in [Columns -> {"null", "live", "freed"}]
      BY DEF Init
    <2>3. n \in Int /\ room \in Int /\ text \in Seq(Byte)
      BY <1>1 DEF Init, Call
    <2>4. out \in IF input.fn = "tree" THEN Seq(SUBSET (Names \cup Columns)) ELSE Seq(Byte)
      BY DEF Init
    <2>5. i \in Nat \ {0} /\ j \in Nat \ {0} /\ mark \in Nat /\ wild \in Nat
      BY DEF Init
    <2>6. crashed \in BOOLEAN /\ misused \in BOOLEAN /\ pc \in Loops[input.fn] \cup {"done"}
      BY DEF Init
    <2>7. QED
      BY <1>1, <2>1, <2>2, <2>3, <2>4, <2>5, <2>6 DEF TypeOK
  <1>3. LikeInv /\ SearchInv
    BY <1>1 DEF Init, LikeInv, SearchInv, Call, Loops, FirstLoops, source, word, Routines
  <1>4. CodeInv
    <2>1. input.fn \in Routines /\ pc \in Loops[input.fn] /\ i = 1
      BY <1>1 DEF Init, Call
    <2>2. pc # "done"
      BY <2>1 DEF Routines, Loops
    <2>3. ~PlainUpTo(i - 1)
      BY <2>1 DEF PlainUpTo
    <2>4. QED
      BY <2>2, <2>3, <1>1 DEF Init, CodeInv, Call, Given, source
  <1>5. ListInv /\ TreeInv
    BY <1>1 DEF Init, ListInv, TreeInv, Call, Columns, Loops
  <1>6. QED
    BY <1>2, <1>3, <1>4, <1>5 DEF IInv

(* A call that has returned, or ended the process, keeps the invariant.     *)
LEMMA Returned ==
  ASSUME IInv, NEW value, Return(value), UNCHANGED input,
         input.fn = "tree" => /\ value = out
                              /\ i <= Len(input.rows) => input.rows[i].names = {},
         input.fn = "escape" /\ PlainUpTo(Len(source)) => Len(value) < room
  PROVE  IInv'
  <1> USE DEF IInv, Return, place, block, lists
  <1>1. TypeOK'
    BY DEF TypeOK
  <1>2. LikeInv' /\ SearchInv'
    BY DEF LikeInv, SearchInv, source, word, LastTry
  <1>3. CodeInv'
    BY DEF CodeInv, Given, source, PlainUpTo
  <1>4. ListInv' /\ TreeInv'
    BY DEF ListInv, TreeInv, Small, Even
  <1>5. QED
    BY <1>1, <1>2, <1>3, <1>4

LEMMA Crashed ==
  ASSUME IInv, Crash, UNCHANGED input
  PROVE  IInv'
  <1> USE DEF IInv, Crash, place, block, lists
  <1>1. TypeOK'
    BY DEF TypeOK
  <1>2. LikeInv' /\ SearchInv'
    BY DEF LikeInv, SearchInv, source, word, LastTry
  <1>3. CodeInv'
    BY DEF CodeInv, Given, source, PlainUpTo
  <1>4. ListInv' /\ TreeInv'
    BY DEF ListInv, TreeInv, Small, Even
  <1>5. QED
    BY <1>1, <1>2, <1>3, <1>4

(* Only the list builders move the lists.                                  *)
LEMMA ListsKept ==
  ASSUME IInv, UNCHANGED <<input, lists>>, input.fn # "tree"
  PROVE  ListInv' /\ TreeInv'
  BY DEF IInv, lists, ListInv, TreeInv, Small, Even

LEMMA LikeKeeps ==
  ASSUME IInv, Like, UNCHANGED input
  PROVE  IInv'
  <1>1. input.fn = "like" /\ pc = "like" /\ TypeOK
    BY Owner DEF IInv, Like, TextEnds, TextMatches, TextDiffers, Running
  <1>2. source \in Seq(Char) /\ word \in Seq(Char)
    BY <1>1, CallTyped
  <1>3. /\ i \in 1..(Len(source) + 1) /\ j \in 1..(Len(word) + 1)
        /\ mark \in 0..(Len(source) + 1) /\ wild \in 0..(Len(word) + 1)
        /\ mark # 0 => wild # 0
    BY <1>1, <1>2 DEF IInv, LikeInv, TypeOK
  <1>4. /\ \A k \in Nat : At(source, k) # 0 <=> k \in 1..Len(source)
        /\ \A k \in Nat : At(word, k) # 0 <=> k \in 1..Len(word)
    BY <1>2, AtIsByte
  <1>5. ASSUME Stays, UNCHANGED <<n, block>>,
               i' \in 1..(Len(source) + 1), j' \in 1..(Len(word) + 1),
               mark' \in 0..(Len(source) + 1), wild' \in 0..(Len(word) + 1),
               mark' # 0 => wild' # 0
        PROVE  IInv'
    <2>1. TypeOK'
      BY <1>1, <1>2, <1>5 DEF TypeOK, Stays, block, lists
    <2>2. LikeInv' /\ SearchInv' /\ CodeInv'
      BY <1>1, <1>2, <1>5 DEF LikeInv, SearchInv, CodeInv, Stays, source, word
    <2>3. ListInv' /\ TreeInv'
      BY <1>1, <1>5, ListsKept DEF Stays
    <2>4. QED
      BY <2>1, <2>2, <2>3 DEF IInv
  <1>6. CASE TextEnds
    <2>1. CASE Return(TRUE) \/ Return(FALSE)
      BY <2>1, <1>1, Returned
    <2>2. CASE /\ At(word, j) = PERCENT /\ j' = j + 1
               /\ Stays /\ UNCHANGED <<i, mark, wild, n, block>>
      <3>1. j \in 1..Len(word)
        BY <2>2, <1>3, <1>4 DEF PERCENT
      <3>2. QED
        BY <2>2, <3>1, <1>2, <1>3, <1>5
    <2>3. CASE /\ MayRetry
               /\ i' = mark /\ mark' = NextMark /\ j' = wild
               /\ Stays /\ UNCHANGED <<wild, n, block>>
      <3>1. mark \in 1..Len(source)
        BY <2>3, <1>3, <1>4 DEF MayRetry
      <3>2. QED
        BY <2>3, <3>1, <1>2, <1>3, <1>5 DEF NextMark
    <2>4. QED
      BY <1>6, <2>1, <2>2, <2>3 DEF TextEnds
  <1>7. CASE TextMatches
    <2>1. i \in 1..Len(source) /\ j \in 1..Len(word)
      BY <1>7, <1>3, <1>4 DEF TextMatches
    <2>2. QED
      BY <1>7, <2>1, <1>2, <1>3, <1>5 DEF TextMatches
  <1>8. CASE TextDiffers
    <2>1. i \in 1..Len(source)
      BY <1>8, <1>3, <1>4 DEF TextDiffers
    <2>2. CASE Return(TRUE) \/ Return(FALSE)
      BY <2>2, <1>1, Returned
    <2>3. CASE /\ At(word, j) = PERCENT
               /\ wild' = j + 1 /\ mark' = i /\ j' = j + 1
               /\ Stays /\ UNCHANGED <<i, n, block>>
      <3>1. j \in 1..Len(word)
        BY <2>3, <1>3, <1>4 DEF PERCENT
      <3>2. QED
        BY <2>3, <3>1, <2>1, <1>2, <1>3, <1>5
    <2>4. CASE /\ wild # 0 /\ i' = i + 1
               /\ j' = BackToWild
               /\ Stays /\ UNCHANGED <<mark, wild, n, block>>
      <3>1. At(source, i) # 0
        BY <2>1, <1>3, <1>4
      <3>2. j' \in 1..(Len(word) + 1)
        <4>1. CASE wild = j \/ At(source, i) # At(word, wild)
          BY <2>4, <4>1, <1>2, <1>3 DEF BackToWild
        <4>2. CASE ~(wild = j \/ At(source, i) # At(word, wild))
          <5>1. wild \in 1..Len(word)
            BY <4>2, <3>1, <1>3, <1>4
          <5>2. QED
            BY <2>4, <4>2, <5>1, <1>2 DEF BackToWild
        <4>3. QED
          BY <4>1, <4>2
      <3>3. QED
        BY <2>4, <3>2, <2>1, <1>2, <1>3, <1>5
    <2>5. QED
      BY <1>8, <2>2, <2>3, <2>4 DEF TextDiffers
  <1>9. QED
    BY <1>6, <1>7, <1>8 DEF Like

LEMMA ReplaceKeeps ==
  ASSUME IInv, Replace, UNCHANGED input
  PROVE  IInv'
  <1>1. input.fn = "replace" /\ pc \in {"count", "build"} /\ TypeOK
    BY Owner DEF IInv, Replace, CountWord, Allocate, CopyNewWord, CopyByte, Replaced, Running
  <1>2. source \in Seq(Char) /\ word \in Seq(Char) /\ input.new \in Seq(Char)
    BY <1>1, CallTyped
  <1>3. /\ i \in Nat \ {0} /\ j \in Nat \ {0} /\ mark \in Nat /\ wild \in Nat
        /\ n \in Int /\ room \in Int /\ text \in Seq(Byte) /\ out \in Seq(Byte)
    BY <1>1 DEF TypeOK
  <1>4. \A x \in Seq(Char) : x \in Seq(Byte)
    BY TextsAreBytes
  <1>5. ASSUME pc' \in {"count", "build"}, i' \in Nat \ {0}, n' \in Int, room' \in Int,
               out' \in Seq(Byte),
               UNCHANGED <<j, mark, wild, text, result, crashed, lists>>
        PROVE  IInv'
    <2>1. pc' \in Loops[input.fn] \cup {"done"}
      BY <1>1, <1>5 DEF Loops
    <2>2. TypeOK'
      BY <1>1, <1>3, <1>5, <2>1 DEF TypeOK, lists
    <2>3. LikeInv' /\ SearchInv' /\ CodeInv'
      BY <1>1, <1>5 DEF LikeInv, SearchInv, CodeInv
    <2>4. ListInv' /\ TreeInv'
      BY <1>1, <1>5, ListsKept
    <2>5. QED
      BY <2>2, <2>3, <2>4 DEF IInv
  <1>6. CASE CountWord
    <2>1. i' \in Nat \ {0} /\ n' \in Int
      BY <1>6, <1>2, <1>3, InputsAssumption DEF CountWord
    <2>2. pc' \in {"count", "build"} /\ UNCHANGED <<room, out, j, mark, wild, text, result, crashed, lists>>
      BY <1>6, <1>1 DEF CountWord, Stays, block, lists
    <2>3. QED
      BY <2>1, <2>2, <1>3, <1>5
  <1>7. CASE Allocate
    <2>1. room' \in Int
      BY <1>7, <1>2, <1>3 DEF Allocate, NewLength
    <2>2. QED
      BY <2>1, <1>7, <1>3, <1>5 DEF Allocate
  <1>8. CASE CopyNewWord
    <2>1. CASE Crash
      BY <2>1, Crashed
    <2>2. CASE ~Crash
      <3>1. /\ out' = out \o input.new /\ i' = i + Len(word)
            /\ Stays /\ UNCHANGED <<j, mark, wild, n, text, room>>
        BY <1>8, <2>2 DEF CopyNewWord
      <3>2. out' \in Seq(Byte) /\ i' \in Nat \ {0}
        BY <3>1, <1>2, <1>3, <1>4
      <3>3. QED
        BY <3>1, <3>2, <1>1, <1>3, <1>5 DEF Stays
    <2>3. QED
      BY <2>1, <2>2
  <1>9. CASE CopyByte
    <2>1. i \in 1..Len(source)
      BY <1>9, <1>2, <1>3, AtIsByte DEF CopyByte
    <2>2. source[i] \in Byte
      BY <2>1, <1>2, <1>4
    <2>3. out' \in Seq(Byte) /\ i' \in Nat \ {0}
      BY <1>9, <1>3, <2>2 DEF CopyByte
    <2>4. QED
      BY <1>9, <2>3, <1>1, <1>3, <1>5 DEF CopyByte, Stays
  <1>10. CASE Replaced
    BY <1>10, <1>1, Returned DEF Replaced
  <1>11. QED
    BY <1>6, <1>7, <1>8, <1>9, <1>10 DEF Replace

LEMMA CountKeeps ==
  ASSUME IInv, CountChar \/ Counted, UNCHANGED input
  PROVE  IInv'
  <1>1. input.fn \in {"instr", "strlen"} /\ pc = "length" /\ TypeOK
    BY Owner DEF IInv, CountChar, Counted, Running
  <1>2. CASE CountChar
    <2>1. i' \in Nat \ {0} /\ n' \in Int
      BY <1>1, <1>2 DEF CountChar, TypeOK
    <2>2. TypeOK'
      BY <1>1, <1>2, <2>1 DEF CountChar, TypeOK, Stays, block, lists
    <2>3. LikeInv' /\ SearchInv' /\ CodeInv'
      BY <1>1, <1>2 DEF LikeInv, SearchInv, CodeInv, CountChar, Stays
    <2>4. ListInv' /\ TreeInv'
      BY <1>1, <1>2, ListsKept DEF CountChar, Stays
    <2>5. QED
      BY <2>2, <2>3, <2>4 DEF IInv
  <1>3. CASE Counted
    BY <1>1, <1>3, Returned DEF Counted
  <1>4. QED
    BY <1>2, <1>3

LEMMA SearchKeeps ==
  ASSUME IInv, Search, UNCHANGED input
  PROVE  IInv'
  <1>1. input.fn = "search" /\ pc \in {"search", "roll"} /\ TypeOK
    BY Owner DEF IInv, Search, SearchBegins, SearchFound, SearchEnds, Roll, Running
  <1>2. source \in Seq(Char) /\ word \in Seq(Char)
    BY <1>1, CallTyped
  <1>3. i \in Nat \ {0} /\ j \in Nat \ {0} /\ mark \in Nat /\ wild \in Nat
    BY <1>1 DEF TypeOK
  <1>4. ASSUME pc' = "roll", i' \in Nat \ {0}, Len(word) > 0, i' <= LastTry,
               j' = i' + Len(word) - 1, n' \in Int,
               UNCHANGED <<mark, wild, block, result, crashed, lists>>
        PROVE  IInv'
    <2>1. pc' \in Loops[input.fn] \cup {"done"} /\ j' \in Nat \ {0}
      BY <1>1, <1>2, <1>4 DEF Loops
    <2>2. TypeOK'
      BY <1>1, <1>4, <2>1 DEF TypeOK, block, lists
    <2>3. LikeInv' /\ SearchInv' /\ CodeInv'
      <3>1. source' = source /\ word' = word /\ LastTry' = LastTry
        BY DEF source, word, LastTry
      <3>2. i' <= Len(source) + 1
        BY <1>2, <1>4 DEF LastTry
      <3>3. SearchInv'
        BY <1>4, <3>1, <3>2 DEF SearchInv
      <3>4. LikeInv' /\ CodeInv'
        BY <1>1, <1>4 DEF LikeInv, CodeInv
      <3>5. QED
        BY <3>3, <3>4
    <2>4. ListInv' /\ TreeInv'
      BY <1>1, <1>4, ListsKept
    <2>5. QED
      BY <2>2, <2>3, <2>4 DEF IInv
  <1>5. CASE SearchBegins
    <2>1. CASE \E value : Return(value)
      BY <2>1, <1>1, Returned
    <2>2. CASE /\ Len(source) >= Len(word) /\ word # <<>>
               /\ n' = HashOf(SubSeq(source, 1, Len(word)))
               /\ j' = Len(word) /\ pc' = "roll"
               /\ UNCHANGED <<i, mark, wild, block, result, crashed, lists>>
      <3>1. i = 1
        BY <1>5 DEF SearchBegins, Running, IInv, SearchInv
      <3>2. Len(word) > 0
        BY <2>2, <1>2
      <3>3. n' \in Int
        <4>1. SubSeq(source, 1, Len(word)) \in Seq(Char)
          BY <2>2, <1>2
        <4>2. HashOf(SubSeq(source, 1, Len(word))) \in Int
          BY <4>1, HashInt
        <4>3. QED
          BY <2>2, <4>2
      <3>4. QED
        BY <2>2, <3>1, <3>2, <3>3, <1>2, <1>4 DEF LastTry
    <2>3. QED
      BY <1>5, <2>1, <2>2 DEF SearchBegins
  <1>6. CASE SearchFound \/ SearchEnds
    BY <1>1, <1>6, Returned DEF SearchFound, SearchEnds
  <1>7. CASE Roll
    <2>1. Len(word) > 0 /\ i < LastTry
      BY <1>7 DEF Roll, Running, IInv, SearchInv
    <2>2. LastTry \in Int
      BY <1>2 DEF LastTry
    <2>3. i' = i + 1 /\ j' = i + Len(word) /\ pc' = "roll"
          /\ UNCHANGED <<mark, wild, block, result, crashed, lists>>
      BY <1>7 DEF Roll, Stays, Running
    <2>4. i' \in Nat \ {0} /\ i' <= LastTry /\ j' = i' + Len(word) - 1
      BY <1>2, <1>3, <2>1, <2>2, <2>3
    <2>5. n' \in Int
      <3>1. n \in Int /\ n' = n - Signed(At(source, i)) + Signed(At(source, i + Len(word)))
        BY <1>1, <1>7 DEF Roll, TypeOK
      <3>2. At(source, i) \in Byte /\ At(source, i + Len(word)) \in Byte
        <4>1. i \in Nat /\ i + Len(word) \in Nat
          BY <1>2, <1>3
        <4>2. QED
          BY <4>1, <1>2, AtIsByte
      <3>3. Signed(At(source, i)) \in Int /\ Signed(At(source, i + Len(word))) \in Int
        BY <3>2, SignedInt
      <3>4. QED
        BY <3>1, <3>3
    <2>6. QED
      BY <1>4, <2>1, <2>3, <2>4, <2>5
  <1>8. QED
    BY <1>5, <1>6, <1>7 DEF Search

LEMMA SubstrKeeps ==
  ASSUME IInv, Substr, UNCHANGED input
  PROVE  IInv'
  <1>1. input.fn = "substr" /\ pc \in {"start", "end"} /\ TypeOK
    BY Owner DEF IInv, Substr, StartFound, StartMissing, EndFound, EndMissing, Running
  <1>2. source \in Seq(Char) /\ input.count \in Int
    BY <1>1, CallTyped
  <1>3. i \in Nat \ {0} /\ n \in Int /\ text \in Seq(Byte)
    BY <1>1 DEF TypeOK
  <1>4. ASSUME pc' \in {"start", "end"}, i' \in Nat \ {0}, n' \in Int, text' \in Seq(Byte),
               UNCHANGED <<j, mark, wild, out, room, result, crashed, lists>>
        PROVE  IInv'
    <2>1. pc' \in Loops[input.fn] \cup {"done"}
      BY <1>1, <1>4 DEF Loops
    <2>2. TypeOK'
      BY <1>1, <1>4, <2>1 DEF TypeOK, lists
    <2>3. LikeInv' /\ SearchInv' /\ CodeInv'
      BY <1>1, <1>4 DEF LikeInv, SearchInv, CodeInv
    <2>4. ListInv' /\ TreeInv'
      BY <1>1, <1>4, ListsKept
    <2>5. QED
      BY <2>2, <2>3, <2>4 DEF IInv
  <1>5. CASE Scans(source) \/ Scans(text)
    <2>1. i' \in Nat \ {0} /\ n' \in Int
      BY <1>3, <1>5 DEF Scans
    <2>2. UNCHANGED <<pc, text, j, mark, wild, out, room, result, crashed, lists>>
      BY <1>5 DEF Scans, Stays, block, lists
    <2>3. QED
      BY <2>1, <2>2, <1>1, <1>3, <1>4
  <1>6. CASE StartFound
    <2>1. CASE \E value : Return(value)
      BY <2>1, <1>1, Returned
    <2>2. CASE /\ text' = Rest(source, i) /\ i' = 1 /\ n' = CharsLeft
               /\ pc' = "end"
               /\ UNCHANGED <<j, mark, wild, out, room, result, crashed, lists>>
      <3>1. i \in 1..Len(source)
        BY <1>6, <1>2, <1>3, AtIsByte DEF StartFound, Reaches
      <3>2. text' \in Seq(Byte)
        BY <2>2, <3>1, <1>2, RestIsText
      <3>3. QED
        BY <2>2, <3>2, <1>2, <1>4 DEF CharsLeft
    <2>3. QED
      BY <1>6, <2>1, <2>2 DEF StartFound
  <1>7. CASE StartMissing \/ EndFound \/ EndMissing
    BY <1>1, <1>7, Returned, Crashed DEF StartMissing, EndFound, EndMissing
  <1>8. QED
    BY <1>5, <1>6, <1>7 DEF Substr

LEMMA EscapeEnded ==
  ASSUME EscapeEnds
  PROVE  \E tail \in Seq(Char) : Return(out \o tail) /\ (Len(out) < EscapeRoom => tail = <<>>)
  <1>1. CASE Len(out) < EscapeRoom
    <2>1. Return(out \o <<>>) /\ <<>> \in Seq(Char)
      BY <1>1 DEF EscapeEnds
    <2>2. QED
      BY <2>1
  <1>2. CASE ~(Len(out) < EscapeRoom)
    BY <1>2, BehindAssumption DEF EscapeEnds
  <1>3. QED
    BY <1>1, <1>2

LEMMA ConvertKeeps ==
  ASSUME IInv, Convert, UNCHANGED input
  PROVE  IInv'
  <1>1. /\ input.fn \in {"escape", "encode", "decode"}
        /\ pc \in {"escape", "encode", "decode"}
        /\ pc # "decode" => pc = input.fn
        /\ TypeOK
    BY Owner DEF IInv, Convert, EscapeByte, EscapeEnds, EncodeByte, EncodeEnds,
                 DecodeByte, DecodeEnds, Running
  <1>2. source \in Seq(Char) /\ Given \in Seq(Byte)
    BY <1>1, CallTyped
  <1>3. i \in Nat \ {0} /\ out \in Seq(Byte) /\ room \in Int /\ text \in Seq(Byte)
    BY <1>1 DEF TypeOK
  <1>4. source' = source
    BY DEF source
  <1>5. ASSUME NEW bytes \in Seq(Byte), Put(bytes), i' \in Nat \ {0}, room' \in Int, CodeInv'
        PROVE  IInv'
    <2>1. out' \in Seq(Byte)
      BY <1>3, <1>5 DEF Put
    <2>2. TypeOK'
      BY <1>1, <1>5, <2>1 DEF TypeOK, Put, Stays, lists
    <2>3. LikeInv' /\ SearchInv'
      BY <1>1, <1>5 DEF LikeInv, SearchInv, Put, Stays
    <2>4. ListInv' /\ TreeInv'
      BY <1>1, <1>5, ListsKept DEF Put, Stays
    <2>5. QED
      BY <1>5, <2>2, <2>3, <2>4 DEF IInv
  <1>6. CASE EscapeByte
    <2>1. pc = "escape" /\ input.fn = "escape"
      BY <1>1, <1>6 DEF EscapeByte, Running
    <2>2. i \in 1..Len(source) /\ source[i] \in Char
      BY <1>6, <1>2, <1>3, AtIsByte DEF EscapeByte
    <2>3. Escaped(source[i]) \in Seq(Byte) /\ Len(Escaped(source[i])) <= 2
      <3>1. source[i] \in Byte
        BY <2>2 DEF Char, Byte
      <3>2. BACKSLASH \in Byte /\ LETTER_N \in Byte
        BY DEF BACKSLASH, LETTER_N, Byte
      <3>3. \/ Escaped(source[i]) = <<BACKSLASH, source[i]>>
            \/ Escaped(source[i]) = <<BACKSLASH, LETTER_N>>
            \/ Escaped(source[i]) = <<source[i]>>
        BY DEF Escaped
      <3>4. /\ <<BACKSLASH, source[i]>> \in Seq(Byte) /\ Len(<<BACKSLASH, source[i]>>) <= 2
            /\ <<BACKSLASH, LETTER_N>> \in Seq(Byte) /\ Len(<<BACKSLASH, LETTER_N>>) <= 2
            /\ <<source[i]>> \in Seq(Byte) /\ Len(<<source[i]>>) <= 2
        BY <3>1, <3>2, ShortTexts
      <3>5. QED
        BY <3>3, <3>4, Zenon
    <2>4. /\ out' = out \o Escaped(source[i]) /\ i' = i + 1 /\ room' = 2 * Len(source)
          /\ pc' = pc
      BY <1>6, <2>2, <1>2 DEF EscapeByte, EscapeRoom, Put, Stays
    <2>5. /\ Len(out') <= 2 * (i' - 1)
          /\ PlainUpTo(i' - 1) => Len(out') < 2 * (i' - 1)
      <3>1. Len(out) <= 2 * (i - 1) /\ (PlainUpTo(i - 1) => Len(out) < 2 * (i - 1))
        BY <2>1 DEF IInv, CodeInv
      <3>2. Len(out') = Len(out) + Len(Escaped(source[i]))
        BY <2>3, <2>4, <1>3
      <3>3. source[i] \notin ToEscape => Len(Escaped(source[i])) = 1
        <4>1. source[i] \notin ToEscape => Escaped(source[i]) = <<source[i]>>
          BY DEF Escaped, ToEscape
        <4>2. Len(<<source[i]>>) = 1
          OBVIOUS
        <4>3. QED
          BY <4>1, <4>2
      <3>4. PlainUpTo(i' - 1) => PlainUpTo(i - 1) \/ source[i] \notin ToEscape
        BY <2>4, <1>3 DEF PlainUpTo
      <3>5. PICK more \in Nat : more = Len(Escaped(source[i])) /\ more <= 2
        <4>1. \A x \in Seq(Byte) : Len(x) \in Nat
          OBVIOUS
        <4>2. QED
          BY <2>3, <4>1
      <3>6. PICK k \in Nat, l \in Nat : k = i - 1 /\ l = Len(out)
        <4>1. i - 1 \in Nat /\ Len(out) \in Nat
          BY <1>3
        <4>2. QED
          BY <4>1, Zenon
      <3>7. /\ l <= 2 * k /\ (PlainUpTo(i - 1) => l < 2 * k)
            /\ Len(out') = l + more /\ (source[i] \notin ToEscape => more = 1)
            /\ i' - 1 = k + 1
        BY <3>1, <3>2, <3>3, <3>5, <3>6, <2>4, <1>3
      <3>8. PICK plain \in BOOLEAN, byte \in BOOLEAN :
              /\ plain = PlainUpTo(i - 1) /\ byte = (source[i] \notin ToEscape)
        BY DEF PlainUpTo
      <3>9. l + more <= 2 * (k + 1) /\ (plain \/ byte => l + more < 2 * (k + 1))
        <4>1. /\ more <= 2 /\ l <= 2 * k
              /\ plain => l < 2 * k
              /\ byte => more = 1
          BY <3>5, <3>7, <3>8, Zenon
        <4>2. l + more <= 2 * (k + 1)
          BY <4>1
        <4>3. plain => l + more < 2 * (k + 1)
          BY <4>1
        <4>4. byte => l + more < 2 * (k + 1)
          BY <4>1
        <4>5. QED
          BY <4>2, <4>3, <4>4
      <3>10. QED
        BY <3>4, <3>7, <3>8, <3>9
    <2>6. CodeInv'
      <3>1. PlainUpTo(i' - 1) <=> PlainUpTo(i - 1)'
        BY <1>4 DEF PlainUpTo
      <3>2. QED
        BY <2>1, <2>2, <2>4, <2>5, <3>1, <1>2, <1>3, <1>4 DEF CodeInv
    <2>7. Put(Escaped(source[i])) /\ i' \in Nat \ {0} /\ room' \in Int
      BY <1>6, <1>2, <1>3, <2>4 DEF EscapeByte
    <2>8. QED
      BY <1>5, <2>3, <2>6, <2>7
  <1>7. CASE EncodeByte
    <2>1. pc = "encode" /\ input.fn = "encode"
      BY <1>1, <1>7 DEF EncodeByte, Running
    <2>2. i \in 1..Len(source) /\ source[i] \in Byte
      <3>1. i \in 1..Len(source) /\ source[i] \in Char
        BY <1>7, <1>2, <1>3, AtIsByte DEF EncodeByte
      <3>2. QED
        BY <3>1 DEF Char, Byte
    <2>3. PICK bytes \in Coded(source[i]) : Put(bytes)
      BY <1>7 DEF EncodeByte
    <2>4. bytes \in Seq(Byte) /\ Len(bytes) <= 3
      <3>1. \A d \in 0..15 : Hex(d) \in Byte
        BY DEF Hex, Byte
      <3>2. Hex(source[i] \div 16) \in Byte /\ Hex(source[i] % 16) \in Byte
        <4>1. source[i] \div 16 \in 0..15 /\ source[i] % 16 \in 0..15
          BY <2>2, Nibbles
        <4>2. QED
          BY <4>1, <3>1
      <3>3. PLUS \in Byte /\ PERCENT \in Byte
        BY DEF PLUS, PERCENT, Byte
      <3>4. \/ bytes = <<source[i]>>
            \/ bytes = <<PLUS>>
            \/ bytes = <<PERCENT, Hex(source[i] \div 16), Hex(source[i] % 16)>>
        BY <2>3 DEF Coded
      <3>5. \A a, b, c \in Byte : /\ <<a>> \in Seq(Byte) /\ Len(<<a>>) <= 3
                                  /\ <<a, b, c>> \in Seq(Byte) /\ Len(<<a, b, c>>) <= 3
        BY ShortTexts
      <3>6. QED
        BY <2>2, <3>2, <3>3, <3>4, <3>5, Zenon
    <2>5. out' = out \o bytes /\ i' = i + 1 /\ room' = 3 * Len(source) + 1 /\ pc' = pc
      BY <1>7, <2>3 DEF EncodeByte, Put, Stays
    <2>6. Len(out') <= 3 * (i' - 1)
      <3>1. Len(out) <= 3 * (i - 1)
        BY <2>1 DEF IInv, CodeInv
      <3>2. Len(out') = Len(out) + Len(bytes)
        BY <2>4, <2>5, <1>3
      <3>3. QED
        BY <3>1, <3>2, <2>4, <2>5, <1>3
    <2>7. CodeInv'
      BY <2>1, <2>2, <2>5, <2>6, <1>2, <1>3, <1>4 DEF CodeInv
    <2>8. QED
      BY <1>5, <1>2, <1>3, <2>3, <2>4, <2>5, <2>7
  <1>8. CASE EncodeEnds
    <2>1. pc = "encode" /\ input.fn = "encode"
      BY <1>1, <1>8 DEF EncodeEnds, Running
    <2>2. /\ text' = out /\ out' = <<>> /\ room' = 0 /\ i' = 1 /\ pc' = "decode"
          /\ UNCHANGED <<j, mark, wild, n, result, crashed, lists>>
      BY <1>8 DEF EncodeEnds
    <2>3. TypeOK'
      <3>1. pc' \in Loops[input.fn] \cup {"done"}
        BY <2>1, <2>2 DEF Loops
      <3>2. out' \in Seq(Byte) /\ room' \in Int /\ i' \in Nat \ {0} /\ text' \in Seq(Byte)
        BY <2>2, <1>3
      <3>3. QED
        BY <2>1, <2>2, <3>1, <3>2, <1>1 DEF TypeOK, lists
    <2>4. CodeInv'
      BY <2>1, <2>2, <1>3 DEF CodeInv, Given
    <2>5. LikeInv' /\ SearchInv'
      BY <2>1, <2>2 DEF LikeInv, SearchInv
    <2>6. ListInv' /\ TreeInv'
      BY <2>1, <2>2, ListsKept
    <2>7. QED
      BY <2>3, <2>4, <2>5, <2>6 DEF IInv
  <1>9. CASE DecodeByte
    <2>1. pc = "decode" /\ input.fn \in {"encode", "decode"}
      BY <1>1, <1>9, Owner DEF DecodeByte, Running
    <2>2. Given' = Given
      BY <1>9 DEF DecodeByte, Put, Given, source
    <2>3. i \in 1..Len(Given)
      BY <1>9, <1>2, <1>3, AtOfBytes DEF DecodeByte
    <2>4. i + 1 \in Nat /\ i + 2 \in Nat
      BY <1>3
    <2>5. Len(out) <= i - 1
      BY <2>1 DEF IInv, CodeInv
    <2>6. ASSUME NEW bytes \in Seq(Byte), Put(bytes), Len(bytes) <= 1,
                 i' \in (i + 1)..(Len(Given) + 1)
          PROVE  IInv'
      <3>1. room' = Len(Given) + 1 /\ pc' = pc
        BY <1>9, <2>6 DEF DecodeByte, Put, Stays
      <3>2. Len(out') = Len(out) + Len(bytes)
        BY <1>3, <2>6 DEF Put
      <3>3. Len(out') <= i' - 1
        BY <3>2, <2>5, <2>6, <1>2, <1>3
      <3>4. CodeInv'
        BY <2>1, <2>2, <2>6, <3>1, <3>3, <1>1 DEF CodeInv
      <3>5. i' \in Nat \ {0} /\ room' \in Int
        BY <2>6, <3>1, <1>2, <1>3
      <3>6. QED
        BY <1>5, <2>6, <3>4, <3>5
    <2>7. CASE /\ At(Given, i + 2) # 0
               /\ Put(<<Or8((FromHex(At(Given, i + 1)) * 16) % 256, FromHex(At(Given, i + 2)) % 256)>>)
               /\ i' = i + 3
      <3>1. i + 2 \in 1..Len(Given)
        BY <2>7, <2>4, <1>2, AtOfBytes
      <3>2. \A b \in Byte : FromHex(b) \in Int
        BY DEF FromHex, Signed, Byte
      <3>3. At(Given, i + 1) \in Byte /\ At(Given, i + 2) \in Byte
        BY <2>4, <1>2, AtOfBytes
      <3>4. /\ (FromHex(At(Given, i + 1)) * 16) % 256 \in Int
            /\ FromHex(At(Given, i + 2)) % 256 \in Int
        BY <3>2, <3>3
      <3>5. Or8((FromHex(At(Given, i + 1)) * 16) % 256, FromHex(At(Given, i + 2)) % 256) \in Byte
        BY <3>4, Or8IsByte
      <3>6. i' \in (i + 1)..(Len(Given) + 1)
        BY <2>7, <3>1, <1>2, <1>3
      <3>7. PICK b \in Byte : Put(<<b>>)
        BY <2>7, <3>5
      <3>8. <<b>> \in Seq(Byte) /\ Len(<<b>>) <= 1
        BY ShortTexts
      <3>9. QED
        BY <2>6, <3>6, <3>7, <3>8
    <2>8. CASE Put(<<>>) /\ i' = i + 1
      <3>1. i' \in (i + 1)..(Len(Given) + 1)
        BY <2>8, <2>3, <1>2, <1>3
      <3>2. <<>> \in Seq(Byte) /\ Len(<<>>) <= 1
        OBVIOUS
      <3>3. QED
        BY <2>6, <2>8, <3>1, <3>2
    <2>9. CASE /\ Put(<<IF At(Given, i) = PLUS THEN SPACE ELSE At(Given, i)>>)
               /\ i' = i + 1
      <3>1. At(Given, i) \in Byte /\ SPACE \in Byte
        <4>1. SPACE \in Byte
          BY DEF SPACE, Byte
        <4>2. QED
          BY <4>1, <1>2, <1>3, AtOfBytes
      <3>2. i' \in (i + 1)..(Len(Given) + 1)
        BY <2>9, <2>3, <1>2, <1>3
      <3>3. PICK b \in Byte : Put(<<b>>)
        BY <2>9, <3>1
      <3>4. <<b>> \in Seq(Byte) /\ Len(<<b>>) <= 1
        BY ShortTexts
      <3>5. QED
        BY <2>6, <3>2, <3>3, <3>4
    <2>10. QED
      BY <1>9, <2>7, <2>8, <2>9 DEF DecodeByte
  <1>10. CASE EscapeEnds \/ DecodeEnds
    <2>1. CASE DecodeEnds
      BY <1>1, <2>1, Owner, Returned DEF DecodeEnds, Running
    <2>2. CASE EscapeEnds
      <3>0. input.fn = "escape" /\ At(source, i) = 0
        BY <2>2, <1>1, Owner DEF EscapeEnds, Running
      <3>1. PICK tail \in Seq(Char) : /\ Return(out \o tail)
                                      /\ Len(out) < EscapeRoom => tail = <<>>
        BY <2>2, EscapeEnded
      <3>2. ASSUME PlainUpTo(Len(source)) PROVE Len(out \o tail) < room
        <4>1. source # <<>> /\ Len(source) > 0 /\ Len(source) \in Nat
          BY <3>2, <1>2 DEF PlainUpTo
        <4>2. i \notin 1..Len(source) /\ input.fn = "escape"
          BY <3>0, <1>2, <1>3, AtIsByte
        <4>3. i = Len(source) + 1 /\ i > 1 /\ i - 1 = Len(source)
          BY <4>1, <4>2, <1>2, <1>3 DEF IInv, CodeInv
        <4>4. Len(out) < 2 * Len(source) /\ room = 2 * Len(source)
          BY <3>2, <4>2, <4>3 DEF IInv, CodeInv
        <4>5. EscapeRoom = 2 * Len(source)
          BY <4>1 DEF EscapeRoom
        <4>6. tail = <<>>
          <5>1. Len(out) < EscapeRoom
            BY <4>4, <4>5, Zenon
          <5>2. QED
            BY <3>1, <5>1, Zenon
        <4>7. out \o tail = out
          BY <4>6, <1>3
        <4>8. QED
          BY <4>4, <4>7
      <3>3. PICK value : value = out \o tail
        OBVIOUS
      <3>4. Return(value) /\ (PlainUpTo(Len(source)) => Len(value) < room)
        BY <3>1, <3>2, <3>3, Zenon
      <3>5. input.fn # "tree"
        BY <3>0
      <3>6. QED
        BY <3>4, <3>5, Returned
    <2>3. QED
      BY <1>10, <2>1, <2>2
  <1>11. QED
    BY <1>6, <1>7, <1>8, <1>9, <1>10 DEF Convert

LEMMA ListsKeep ==
  ASSUME IInv, Lists, UNCHANGED input
  PROVE  IInv'
  <1>1. TypeOK /\ input.fn \in {"options", "tree"}
    BY Owner DEF IInv, Lists, AddOption, OptionsSent, AddNode, TreeSent, Running
  <1>2. /\ input.rows \in Seq(Row) /\ i \in Nat \ {0}
    BY <1>1, CallTyped DEF TypeOK
  <1>3. LikeInv' /\ SearchInv' /\ CodeInv'
    <2>1. pc' \in {"options", "tree", "done"}
      BY Owner, <1>1 DEF Lists, AddOption, OptionsSent, AddNode, TreeSent, Running, Return
    <2>2. QED
      BY <1>1, <2>1 DEF LikeInv, SearchInv, CodeInv
  <1>4. CASE AddOption
    <2>1. input.fn = "options" /\ pc' = pc
      BY <1>1, <1>4, Owner DEF AddOption, Running
    <2>2. i \in 1..Len(input.rows) /\ input.rows[i] \in Row
      BY <1>2, <1>4 DEF AddOption
    <2>3. PICK size \in Nat : size = input.rows[i].size
      BY <2>2 DEF Row
    <2>4. list \in [kept : Nat, used : Nat, reserved : Nat, cut : BOOLEAN]
      BY <1>1 DEF TypeOK
    <2>5. list' = [Grown(list, size) EXCEPT !.kept = @ + size]
      BY <1>4, <2>3 DEF AddOption
    <2>6. /\ list'.used = list.used + size
          /\ list.used + size > list.reserved - 10 =>
               /\ list'.reserved = list.reserved * 2
               /\ list'.cut = (list.cut \/ list.kept >= list.reserved * 2)
               /\ list'.kept = (IF list.kept < list.reserved * 2
                                  THEN list.kept ELSE list.reserved * 2) + size
          /\ ~(list.used + size > list.reserved - 10) =>
               /\ list'.reserved = list.reserved /\ list'.cut = list.cut
               /\ list'.kept = list.kept + size
      BY <2>3, <2>4, <2>5 DEF Grown
    <2>7. list' \in [kept : Nat, used : Nat, reserved : Nat, cut : BOOLEAN]
      <3>1. Grown(list, size) \in [kept : Nat, used : Nat, reserved : Nat, cut : BOOLEAN]
        <4>1. CASE list.used + size > list.reserved - 10
          <5>1. Grown(list, size) =
                  [kept |-> IF list.kept < list.reserved * 2 THEN list.kept
                                                             ELSE list.reserved * 2,
                   used |-> list.used + size, reserved |-> list.reserved * 2,
                   cut |-> list.cut \/ list.kept >= list.reserved * 2]
            BY <4>1 DEF Grown
          <5>2. /\ (IF list.kept < list.reserved * 2 THEN list.kept
                                                     ELSE list.reserved * 2) \in Nat
                /\ list.used + size \in Nat /\ list.reserved * 2 \in Nat
                /\ (list.cut \/ list.kept >= list.reserved * 2) \in BOOLEAN
            BY <2>3, <2>4
          <5>3. QED
            BY <5>1, <5>2
        <4>2. CASE ~(list.used + size > list.reserved - 10)
          BY <4>2, <2>3, <2>4 DEF Grown
        <4>3. QED
          BY <4>1, <4>2
      <3>2. QED
        BY <2>3, <2>5, <3>1
    <2>8. TypeOK'
      BY <1>1, <1>2, <1>4, <2>1, <2>7 DEF AddOption, TypeOK, block
    <2>9. ListInv'
      <3>1. SUFFICES ASSUME Small PROVE ListInv'
        BY DEF ListInv, Small
      <3>2. size < 500
        BY <2>2, <2>3, <3>1 DEF Small
      <3>3. ~list.cut /\ list.kept = list.used /\ 250 <= list.reserved
            /\ list.used < 2 * list.reserved
        BY <3>1 DEF IInv, ListInv
      <3>4. QED
        BY <2>3, <2>4, <2>6, <3>2, <3>3 DEF ListInv
    <2>10. TreeInv'
      BY <1>4, <2>1 DEF IInv, TreeInv, AddOption
    <2>11. QED
      BY <1>3, <2>8, <2>9, <2>10 DEF IInv
  <1>5. CASE AddNode
    <2>1. input.fn = "tree" /\ pc' = pc /\ pc # "done"
      BY <1>1, <1>5, Owner DEF AddNode, Running
    <2>2. i \in 1..Len(input.rows) /\ input.rows[i] \in Row
      BY <1>2, <1>5 DEF AddNode
    <2>3. out \in Seq(SUBSET (Names \cup Columns)) /\ strings \in [Columns -> {"null", "live", "freed"}]
      BY <1>1, <2>1 DEF TypeOK
    <2>4. PICK held : held = Pointers(input.rows[i])
      OBVIOUS
    <2>5. /\ out' = Append(out, Shown(input.rows[i], held))
          /\ misused' = (misused \/ \E c \in Columns : held[c] = "freed")
          /\ strings' = [c \in Columns |-> IF held[c] = "null" THEN "null" ELSE "freed"]
          /\ i' = i + 1
          /\ UNCHANGED <<pc, result, crashed, j, mark, wild, n, text, room, list>>
      BY <1>5, <2>4 DEF AddNode
    <2>6. TypeOK'
      <3>1. out' \in Seq(SUBSET (Names \cup Columns))
        <4>1. Shown(input.rows[i], held) \in SUBSET (Names \cup Columns)
          BY <2>2 DEF Shown, Row
        <4>2. QED
          BY <4>1, <2>3, <2>5
      <3>2. strings' \in [Columns -> {"null", "live", "freed"}]
        BY <2>5
      <3>3. misused' \in BOOLEAN
        BY <2>5, <1>1 DEF TypeOK
      <3>4. QED
        BY <1>1, <1>2, <2>1, <2>5, <3>1, <3>2, <3>3 DEF TypeOK
    <2>7. ListInv'
      BY <2>5 DEF IInv, ListInv, Small
    <2>8. TreeInv'
      <3>1. SUFFICES ASSUME Even PROVE TreeInv'
        BY <2>1 DEF TreeInv, Even
      <3>2. input.rows[i].has = input.rows[1].has /\ input.rows[1].has \subseteq Columns
        BY <2>2, <3>1 DEF Even, Row
      <3>3. /\ ~misused
            /\ i = 1 => strings = [c \in Columns |-> "null"]
            /\ i > 1 => strings = [c \in Columns |->
                                     IF c \in input.rows[1].has THEN "freed" ELSE "null"]
            /\ Len(out) = i - 1
            /\ \A r \in 1..Len(out) :
                 /\ out[r] \subseteq Own(input.rows[r])
                 /\ Names \subseteq Own(input.rows[r]) => out[r] = Own(input.rows[r])
        BY <2>1, <3>1 DEF IInv, TreeInv
      <3>4. \A c \in Columns : strings[c] = IF i > 1 /\ c \in input.rows[1].has
                                              THEN "freed" ELSE "null"
        BY <1>2, <3>3
      <3>5. \A c \in Columns : held[c] = IF c \in input.rows[1].has THEN "live" ELSE "null"
        BY <2>4, <3>2, <3>4 DEF Pointers
      <3>6. ~misused'
        BY <2>5, <3>3, <3>5
      <3>7. strings' = [c \in Columns |-> IF c \in input.rows[1].has THEN "freed" ELSE "null"]
        BY <2>5, <3>5
      <3>8. PICK shown : shown = Shown(input.rows[i], held)
        OBVIOUS
      <3>9. /\ shown \subseteq Own(input.rows[i])
            /\ Names \subseteq Own(input.rows[i]) => shown = Own(input.rows[i])
        <4>1. {d \in Columns : held[d] # "null"} = input.rows[i].has
          BY <3>2, <3>5
        <4>2. input.rows[i].names \subseteq Names /\ input.rows[i].has \subseteq Columns
          BY <2>2 DEF Row
        <4>3. shown = {c \in Own(input.rows[i]) : Preceding[c] \subseteq input.rows[i].names}
          BY <3>8, <4>1 DEF Shown, Own
        <4>4. \A c \in Names \cup Columns : Preceding[c] \subseteq Names
          BY DEF Preceding, Names, Columns
        <4>5. Names \subseteq Own(input.rows[i]) => input.rows[i].names = Names
          BY <4>2 DEF Own, Names, Columns
        <4>6. Own(input.rows[i]) \subseteq Names \cup Columns
          BY <4>2 DEF Own
        <4>7. QED
          BY <4>3, <4>4, <4>5, <4>6
      <3>10. out' = Append(out, shown)
        BY <2>5, <3>8
      <3>11. Len(out') = i /\ \A r \in 1..i : out'[r] = IF r = i THEN shown ELSE out[r]
        BY <2>3, <3>3, <3>10, <1>2
      <3>12. i' # 1 /\ Len(out') = i' - 1 /\ Len(out') <= Len(input.rows) /\ pc' # "done"
        BY <1>2, <2>1, <2>2, <2>5, <3>11
      <3>13. \A r \in 1..Len(out') :
               /\ out'[r] \subseteq Own(input.rows[r])
               /\ Names \subseteq Own(input.rows[r]) => out'[r] = Own(input.rows[r])
        <4>1. \A r \in 1..i : r = i \/ r \in 1..Len(out)
          BY <3>3, <1>2
        <4>2. QED
          BY <3>3, <3>9, <3>11, <4>1
      <3>14. QED
        BY <2>1, <3>6, <3>7, <3>12, <3>13 DEF TreeInv
    <2>9. QED
      BY <1>3, <2>6, <2>7, <2>8 DEF IInv
  <1>6. CASE OptionsSent \/ TreeSent
    <2>1. CASE OptionsSent
      BY <1>1, <2>1, Owner, Returned DEF OptionsSent, Running
    <2>2. CASE TreeSent
      BY <1>1, <2>2, Owner, Returned DEF TreeSent, Running
    <2>3. QED
      BY <1>6, <2>1, <2>2
  <1>7. QED
    BY <1>4, <1>5, <1>6 DEF Lists

LEMMA Unchanged ==
  ASSUME IInv, UNCHANGED vars
  PROVE  IInv'
  <1> USE DEF IInv, vars, place, block, lists
  <1>1. TypeOK'
    BY DEF TypeOK
  <1>2. LikeInv' /\ SearchInv' /\ CodeInv'
    BY DEF LikeInv, SearchInv, CodeInv, source, word, LastTry, Given, PlainUpTo
  <1>3. ListInv' /\ TreeInv'
    BY DEF ListInv, TreeInv, Small, Even
  <1>4. QED
    BY <1>1, <1>2, <1>3

LEMMA Inductive == Spec => []IInv
  <1>1. IInv /\ [Next]_vars => IInv'
    <2>1. ASSUME IInv, Step, UNCHANGED input PROVE IInv'
      BY <2>1, LikeKeeps, ReplaceKeeps, CountKeeps, SearchKeeps, SubstrKeeps,
         ConvertKeeps, ListsKeep DEF Step
    <2>2. QED
      BY <2>1, Unchanged DEF Next, Over
  <1>2. QED
    BY Initially, <1>1, PTL DEF Spec

-----------------------------------------------------------------------------
(* The locals of the routines keep their types, whatever the texts.         *)
THEOREM Typed == Spec => []TypeOK
  BY Inductive, PTL DEF IInv

(* mkLike and mkMemmem never read beyond their texts (like.c, memmem.c),    *)
(* whatever the lengths of the texts.                                      *)
THEOREM ReadsStayInside == Spec => []ReadsInside
  <1>1. IInv => ReadsInside
    <2> SUFFICES ASSUME IInv PROVE ReadsInside
      OBVIOUS
    <2>1. TypeOK
      BY DEF IInv
    <2>2. source \in Seq(Char) /\ word \in Seq(Char) /\ i \in Nat
      BY <2>1, CallTyped DEF TypeOK
    <2>3. input.fn \in {"like", "search", "escape"} => i <= Len(source) + 1
      BY DEF IInv, LikeInv, SearchInv, CodeInv
    <2>4. pc = "roll" => j <= Len(source) + 1
      BY <2>2 DEF IInv, SearchInv, LastTry
    <2>5. QED
      BY <2>3, <2>4 DEF IInv, LikeInv, CodeInv, ReadsInside
  <1>2. QED
    BY Inductive, <1>1, PTL

(* Escaping and URL coding write inside the blocks they allocate, and the   *)
(* URL routines have room for the terminator (mkUtils.c).                  *)
THEOREM WritesStayInside == Spec => []WritesInside
  <1>1. IInv => WritesInside
    <2> SUFFICES ASSUME IInv PROVE WritesInside
      OBVIOUS
    <2>1. TypeOK
      BY DEF IInv
    <2>2. source \in Seq(Char) /\ Given \in Seq(Byte) /\ i \in Nat \ {0}
      BY <2>1, CallTyped DEF TypeOK
    <2>3. input.fn \in {"escape"} \/ pc \in {"encode", "decode"} => out \in Seq(Byte)
      BY <2>1, Owner DEF TypeOK
    <2>4. input.fn = "escape" => Len(out) <= room
      BY <2>2, <2>3 DEF IInv, CodeInv
    <2>5. pc \in {"encode", "decode"} /\ i > 1 => Len(out) < room
      BY <2>2, <2>3 DEF IInv, CodeInv
    <2>6. Done("escape") /\ PlainUpTo(Len(source)) => Len(result) < room
      BY DEF IInv, CodeInv, Done
    <2>7. QED
      BY <2>4, <2>5, <2>6 DEF WritesInside
  <1>2. QED
    BY Inductive, <1>1, PTL

(* A data list of any length is sent whole if no option has 500 bytes.      *)
THEOREM OptionsStayWhole == Spec => []OptionsKept
  <1>1. IInv => OptionsKept
    BY DEF IInv, ListInv, Small, OptionsKept
  <1>2. QED
    BY Inductive, <1>1, PTL

(* The nodes of a tree of any size have their own columns and no string is  *)
(* used after it was freed, if all rows have the same columns.             *)
THEOREM NodesStayOwn == Spec => []TreeRowsOwn
  <1>1. IInv => TreeRowsOwn
    <2> SUFFICES ASSUME IInv, Even PROVE ~misused /\ (Done("tree") => TreeRowsOwn)
      BY DEF TreeRowsOwn, Even
    <2>1. ~misused
      BY DEF IInv, TreeInv
    <2>2. ASSUME Done("tree") PROVE TreeRowsOwn
      <3>1. /\ result = out /\ Len(out) = i - 1 /\ i \in Nat \ {0}
            /\ i <= Len(input.rows) => input.rows[i].names = {}
            /\ \A r \in 1..Len(out) :
                 /\ out[r] \subseteq Own(input.rows[r])
                 /\ Names \subseteq Own(input.rows[r]) => out[r] = Own(input.rows[r])
        BY <2>2 DEF IInv, TreeInv, TypeOK, Done
      <3>2. ASSUME NEW r \in 1..Len(input.rows),
                   \A q \in 1..r : input.rows[q].names # {}
            PROVE  r <= Len(result)
        <4>1. Len(input.rows) \in Nat
          <5>1. input.rows \in Seq(Row)
            BY CallTyped DEF IInv
          <5>2. QED
            BY <5>1
        <4>2. ~(i <= r)
          BY <3>1, <3>2, <4>1
        <4>3. QED
          BY <3>1, <4>1, <4>2
      <3>3. QED
        BY <2>1, <3>1, <3>2 DEF TreeRowsOwn
    <2>3. QED
      BY <2>1, <2>2
  <1>2. QED
    BY Inductive, <1>1, PTL

(* No call of a string routine reads or writes outside the memory it was   *)
(* given, whatever the texts.                                              *)
THEOREM CallsStayInside == Spec => []StaysInside
  BY ReadsStayInside, WritesStayInside, PTL DEF StaysInside

(* Options and nodes are printed whole and with their own columns, whatever*)
(* the record set.                                                         *)
THEOREM RowsArePrinted == Spec => []RowsPrinted
  BY OptionsStayWhole, NodesStayOwn, PTL DEF RowsPrinted

-----------------------------------------------------------------------------
(* Least and greatest members, and counting.                               *)
LEMMA MinIs ==
  ASSUME NEW T \in SUBSET Nat, T # {}
  PROVE  Min(T) \in T /\ \A k \in T : Min(T) <= k
  <1>1. \E m \in T : \A k \in T : m <= k
    BY Least
  <1>2. QED
    BY <1>1 DEF Min

LEMMA MaxIs ==
  ASSUME NEW m \in Nat, NEW T \in SUBSET (0..m), T # {}
  PROVE  Max(T) \in T /\ \A k \in T : k <= Max(T)
  <1> DEFINE U == {m - k : k \in T}
  <1>1. U \in SUBSET Nat /\ U # {}
    <2>1. \A k \in T : m - k \in Nat
      OBVIOUS
    <2>2. QED
      BY <2>1
  <1>2. PICK a \in U : \A b \in U : a <= b
    <2> HIDE DEF U
    <2>1. QED
      BY <1>1, Least
  <1>3. PICK k \in T : a = m - k
    BY <1>2
  <1>4. ASSUME NEW c \in T PROVE c <= k
    <2>1. m - c \in U /\ c \in Int /\ k \in Int
      OBVIOUS
    <2>2. m - k <= m - c
      BY <2>1, <1>2, <1>3
    <2>3. QED
      BY <2>1, <2>2
  <1>5. QED
    BY <1>4 DEF Max

LEMMA CharNoStep ==
  ASSUME NEW x, NEW k \in Nat
  PROVE  /\ CharNo(x, 0) = 0 /\ CharNo(x, k) \in Nat
         /\ CharNo(x, k + 1) = CharNo(x, k) + (IF Lead(x[k + 1]) THEN 1 ELSE 0)
  <1> DEFINE C(m) == {a \in 1..m : Lead(x[a])}
  <1>1. IsFiniteSet(C(k)) /\ C(k) \in SUBSET (1..k)
    <2>1. IsFiniteSet(1..k)
      BY FS_Interval
    <2>2. QED
      BY <2>1, FS_Subset
  <1>2. C(0) = {}
    OBVIOUS
  <1>3. C(k + 1) = IF Lead(x[k + 1]) THEN C(k) \cup {k + 1} ELSE C(k)
    <2>1. 1..(k + 1) = (1..k) \cup {k + 1}
      OBVIOUS
    <2>2. QED
      BY <2>1
  <1>4. k + 1 \notin C(k)
    OBVIOUS
  <1>5. CharNo(x, 0) = Cardinality(C(0)) /\ CharNo(x, k) = Cardinality(C(k))
        /\ CharNo(x, k + 1) = Cardinality(C(k + 1))
    BY DEF CharNo
  <1> HIDE DEF C
  <1>6. Cardinality(C(k)) \in Nat /\ Cardinality({}) = 0
    BY <1>1, FS_CardinalityType, FS_EmptySet
  <1>7. Cardinality(C(k) \cup {k + 1}) = Cardinality(C(k)) + 1
    BY <1>1, <1>4, FS_AddElement
  <1>8. QED
    BY <1>2, <1>3, <1>5, <1>6, <1>7

(* CharNo never falls.                                                     *)
LEMMA CharNoAtMost ==
  ASSUME NEW x, NEW k \in Nat
  PROVE  CharNo(x, k) \in Nat /\ CharNo(x, k) <= k
  <1>1. {m \in 1..k : Lead(x[m])} \in SUBSET (1..k)
    OBVIOUS
  <1>2. IsFiniteSet(1..k) /\ Cardinality(1..k) = k
    BY FS_Interval
  <1>3. CharNo(x, k) <= Cardinality(1..k)
    BY <1>1, <1>2, FS_Subset DEF CharNo
  <1>4. QED
    BY <1>2, <1>3, CharNoStep

LEMMA CharNoGrows ==
  ASSUME NEW x, NEW a \in Nat, NEW b \in Nat, a <= b
  PROVE  CharNo(x, a) <= CharNo(x, b)
  <1> DEFINE P == {m \in Nat : CharNo(x, a) <= CharNo(x, a + m)}
  <1>1. \A k \in Nat : CharNo(x, k) \in Nat /\ CharNo(x, k) <= CharNo(x, k + 1)
    <2>1. ASSUME NEW k \in Nat PROVE CharNo(x, k) \in Nat
                 /\ CharNo(x, k) <= CharNo(x, k + 1)
      BY CharNoStep
    <2>2. QED
      BY <2>1
  <1>2. 0 \in P
    BY <1>1
  <1>3. ASSUME NEW m \in P \cap Nat PROVE m + 1 \in P
    <2>1. CharNo(x, a + m) <= CharNo(x, (a + m) + 1) /\ a + (m + 1) = (a + m) + 1
      BY <1>1
    <2>2. CharNo(x, a) \in Nat /\ CharNo(x, a + m) \in Nat
          /\ CharNo(x, (a + m) + 1) \in Nat
      BY <1>1
    <2>3. CharNo(x, a) <= CharNo(x, a + m)
      BY <1>3
    <2>4. CharNo(x, a) <= CharNo(x, a + (m + 1))
      BY <2>1, <2>2, <2>3
    <2>5. QED
      BY <2>4
  <1>4. Nat \subseteq P
    <2> HIDE DEF P
    <2>1. QED
      BY <1>2, <1>3, NatInd
  <1>5. b - a \in P /\ a + (b - a) = b
    BY <1>4
  <1>6. QED
    BY <1>5

(* Which of the routines a step belongs to.                                *)
LEMMA StepOf ==
  ASSUME TypeOK, Step
  PROVE  /\ input.fn = "like" => Like
         /\ input.fn = "replace" => Replace
         /\ input.fn \in {"instr", "strlen"} => CountChar \/ Counted
         /\ input.fn = "search" => Search
         /\ input.fn = "substr" => Substr
         /\ input.fn = "escape" => EscapeByte \/ EscapeEnds
         /\ input.fn = "encode" => EncodeByte \/ EncodeEnds \/ DecodeByte
            \/ DecodeEnds
  <1>1. Like => input.fn = "like"
    BY Owner DEF Like, TextEnds, TextMatches, TextDiffers, Running
  <1>2. Replace => input.fn = "replace"
    BY Owner DEF Replace, CountWord, Allocate, CopyNewWord, CopyByte, Replaced,
       Running
  <1>3. CountChar \/ Counted => input.fn \in {"instr", "strlen"}
    BY Owner DEF CountChar, Counted, Running
  <1>4. Search => input.fn = "search"
    BY Owner DEF Search, SearchBegins, SearchFound, SearchEnds, Roll, Running
  <1>5. Substr => input.fn = "substr"
    BY Owner DEF Substr, Scans, StartFound, StartMissing, EndFound, EndMissing,
       Running
  <1>6. EscapeByte \/ EscapeEnds => input.fn = "escape"
    BY Owner DEF EscapeByte, EscapeEnds, Running
  <1>7. EncodeByte \/ EncodeEnds => input.fn = "encode"
    BY Owner DEF EncodeByte, EncodeEnds, Running
  <1>8. DecodeByte \/ DecodeEnds => input.fn \in {"encode", "decode"}
    BY Owner DEF DecodeByte, DecodeEnds, Running
  <1>9. Lists => input.fn \in {"options", "tree"}
    BY Owner DEF Lists, AddOption, OptionsSent, AddNode, TreeSent, Running
  <1>10. QED
    BY <1>1, <1>2, <1>3, <1>4, <1>5, <1>6, <1>7, <1>8, <1>9 DEF Step, Convert

LEMMA OccurrencesAreNat ==
  ASSUME TypeOK
  PROVE  /\ Occurrences \in SUBSET (1..(Len(source) + 1))
         /\ Occurrences # {} =>
              /\ Min(Occurrences) \in Occurrences
              /\ \A k \in Occurrences : Min(Occurrences) <= k
         /\ UpTo \in 1..(Len(source) + 1)
  <1>1. Len(source) \in Nat
    BY CallTyped
  <1>2. Occurrences \in SUBSET (1..(Len(source) + 1))
    BY DEF Occurrences
  <1>3. Occurrences \in SUBSET Nat
    BY <1>1, <1>2
  <1>4. Occurrences # {} => /\ Min(Occurrences) \in Occurrences
                            /\ \A k \in Occurrences : Min(Occurrences) <= k
    BY <1>3, MinIs
  <1>5. UpTo \in 1..(Len(source) + 1)
    <2>1. Len(source) + 1 \in 1..(Len(source) + 1)
      BY <1>1
    <2>2. Occurrences # {} => Min(Occurrences) \in 1..(Len(source) + 1)
      BY <1>2, <1>4
    <2>3. QED
      BY <2>1, <2>2 DEF UpTo
  <1>6. QED
    BY <1>2, <1>4, <1>5

-----------------------------------------------------------------------------
(* A number is printed exactly if it is short, and else within half a unit  *)
(* of the last digit that is kept.                                         *)
LEMMA Monotone ==
  ASSUME NEW e \in Nat, NEW a \in Int, NEW b \in Int, a <= b
  PROVE  e * a <= e * b
  OBVIOUS

LEMMA PrintedIsNear ==
  ASSUME NEW k \in Nat, k < Exact * 1000000, NEW r \in Printed(k)
  PROVE  /\ k < Exact => r = k
         /\ 2 * Exact * (r - k) \in (-10 * k)..(10 * k)
  <1>1. PICK e \in Nat : e = Exact
    BY ExactAssumption
  <1> DEFINE T == {t \in Tens : k < Exact * t}
  <1>2. T \in SUBSET Nat /\ 1000000 \in T
    BY DEF Tens
  <1>3. Unit(k) \in T /\ \A t \in T : Unit(k) <= t
    <2>1. Unit(k) = Min(T)
      BY DEF Unit
    <2> HIDE DEF T
    <2>2. QED
      BY <1>2, <2>1, MinIs
  <1>4. PICK u \in Tens : u = Unit(k) /\ \A t \in Tens : k < e * t => u <= t
    BY <1>1, <1>3
  <1>5. PICK d \in Int : d = r - k /\ 2 * d \in (-u)..u /\ r \in Nat
    BY <1>4 DEF Printed, Tens
  <1>6. CASE u = 1
    BY <1>1, <1>5, <1>6
  <1>7. CASE u # 1
    <2>1. PICK s \in Tens : u = 10 * s
      BY <1>4, <1>7 DEF Tens
    <2>2. s \in Nat \ {0} /\ s < u
      BY <2>1 DEF Tens
    <2>3. e * s <= k
      BY <1>1, <1>4, <2>2
    <2>4. ~(k < Exact)
      BY <1>1, <1>4, <1>7 DEF Tens
    <2>5. /\ d <= 5 * s /\ -(5 * s) <= d
          /\ 5 * s \in Int /\ -(5 * s) \in Int
      BY <1>5, <2>1, <2>2
    <2>6. e * d <= e * (5 * s) /\ e * (-(5 * s)) <= e * d
      BY <2>5, Monotone
    <2>7. e * (5 * s) = 5 * (e * s) /\ e * (-(5 * s)) = -(5 * (e * s))
      BY <2>2
    <2>8. 2 * (e * d) <= 10 * k /\ -10 * k <= 2 * (e * d)
      <3>1. PICK f \in Int, g \in Int : f = e * s /\ g = e * d
        BY <2>2
      <3>2. QED
        BY <2>3, <2>6, <2>7, <3>1
    <2>9. QED
      BY <1>1, <1>5, <2>4, <2>8
  <1>8. QED
    BY <1>6, <1>7

(* instr and strlen: n is the number of characters that begin before i.    *)
CountInv ==
  /\ pc = "length" => i <= UpTo /\ n = CharNo(source, i - 1)
  /\ Done("instr") =>
       IF Occurrences = {} THEN result = 0
       ELSE result \in Printed(CharNo(source, Min(Occurrences) - 1) + 1)
  /\ Done("strlen") => result = CharNo(source, Len(source))

LEMMA CountAgrees ==
  ASSUME TypeOK, CountInv, CountChar \/ Counted, UNCHANGED input
  PROVE  CountInv'
  <1>1. pc = "length" /\ i <= UpTo /\ n = CharNo(source, i - 1)
    BY DEF CountChar, Counted, Running, CountInv
  <1>2. input.fn \in {"instr", "strlen"}
    BY <1>1, Owner
  <1>3. i \in Nat \ {0} /\ i - 1 \in Nat
    BY DEF TypeOK
  <1>4. /\ Occurrences \in SUBSET (1..(Len(source) + 1))
           /\ UpTo \in 1..(Len(source) + 1)
        /\ Occurrences # {} => Min(Occurrences) \in Occurrences
    BY OccurrencesAreNat
  <1>5. source' = source /\ Occurrences' = Occurrences /\ UpTo' = UpTo
    BY DEF source, word, Occurrences, UpTo
  <1>6. CASE CountChar
    <2>1. i < UpTo /\ i' = i + 1 /\ n' = (IF Lead(source[i]) THEN n + 1 ELSE n)
          /\ pc' = pc
      BY <1>6 DEF CountChar, Stays
    <2>2. CharNo(source, (i - 1) + 1) = CharNo(source, i - 1) + (IF Lead(source[(i - 1) + 1]) THEN 1 ELSE 0)
          /\ CharNo(source, i - 1) \in Nat
      BY <1>3, CharNoStep
    <2>3. (i - 1) + 1 = i /\ i' - 1 = i
      BY <1>3, <2>1
    <2>4. n' = CharNo(source, i' - 1)
      BY <1>1, <2>1, <2>2, <2>3
    <2>5. i' <= UpTo
      BY <1>3, <1>4, <2>1
    <2>6. QED
      BY <1>1, <1>5, <2>1, <2>4, <2>5 DEF CountInv, Done
  <1>7. CASE Counted
    <2>1. CASE input.fn = "strlen" /\ i = UpTo /\ Return(n)
      <3>1. UpTo = Len(source) + 1 /\ Len(source) \in Nat
        BY <2>1, CallTyped DEF UpTo
      <3>2. result' = CharNo(source, Len(source)) /\ pc' = "done"
        BY <1>1, <2>1, <3>1 DEF Return
      <3>3. QED
        BY <1>5, <2>1, <3>2 DEF CountInv, Done
    <2>2. CASE /\ input.fn = "instr" /\ Occurrences # {} /\ i = UpTo
               /\ \E r \in Printed(n + 1) : Return(r)
      <3>1. UpTo = Min(Occurrences)
        BY <2>2 DEF UpTo
      <3>2. result' \in Printed(CharNo(source, Min(Occurrences) - 1) + 1) /\ pc' = "done"
        BY <1>1, <2>2, <3>1 DEF Return
      <3>3. QED
        BY <1>5, <2>2, <3>2 DEF CountInv, Done
    <2>3. CASE input.fn = "instr" /\ Occurrences = {} /\ Return(0)
      BY <1>5, <2>3 DEF CountInv, Done, Return
    <2>4. QED
      BY <1>7, <2>1, <2>2, <2>3 DEF Counted
  <1>8. QED
    BY <1>6, <1>7

(* The hash of a window is a difference of sums.                           *)
LEMMA HashWindow ==
  ASSUME NEW x \in Seq(Char), NEW h \in [0..Len(x) -> Int],
         h[0] = 0, \A k \in 1..Len(x) : h[k] = h[k - 1] + Signed(x[k]),
         NEW a \in Nat, NEW b \in Nat, a <= b, b <= Len(x)
  PROVE  HashOf(SubSeq(x, a + 1, b)) = h[b] - h[a]
  <1> DEFINE y == SubSeq(x, a + 1, b)
  <1>1. y \in Seq(Char) /\ Len(y) = b - a /\ \A k \in 1..(b - a) : y[k] = x[a + k]
    OBVIOUS
  <1> HIDE DEF y
  <1>2. PICK g \in [0..Len(y) -> Int] :
          g[0] = 0 /\ (\A k \in 1..Len(y) : g[k] = g[k - 1] + Signed(y[k]))
          /\ HashOf(y) = g[Len(y)]
    BY <1>1, HashIs
  <1> DEFINE P == {k \in Nat : k <= b - a => g[k] = h[a + k] - h[a]}
  <1>3. 0 \in P
    <2>1. a \in 0..Len(x) /\ a + 0 = a
      OBVIOUS
    <2>2. h[a] \in Int
      BY <2>1
    <2>3. QED
      BY <1>2, <2>1, <2>2
  <1>4. ASSUME NEW k \in P \cap Nat PROVE k + 1 \in P
    <2>1. SUFFICES ASSUME k + 1 <= b - a PROVE g[k + 1] = h[a + (k + 1)] - h[a]
      OBVIOUS
    <2>2. k + 1 \in 1..Len(y) /\ (k + 1) - 1 = k /\ k + 1 \in 1..(b - a)
      BY <1>1, <2>1
    <2>3. g[k + 1] = g[k] + Signed(y[k + 1]) /\ y[k + 1] = x[a + (k + 1)]
      BY <1>1, <1>2, <2>2
    <2>4. a + (k + 1) \in 1..Len(x) /\ a + (k + 1) - 1 = a + k
      BY <2>1
    <2>5. h[a + (k + 1)] = h[a + k] + Signed(x[a + (k + 1)])
      BY <2>4
    <2>6. k <= b - a
      BY <2>1
    <2>7. g[k] = h[a + k] - h[a]
      BY <1>4, <2>6
    <2>8. Signed(x[a + (k + 1)]) \in Int
      <3>1. x[a + (k + 1)] \in Char
        BY <2>4
      <3>2. \A c \in Char : c \in Byte
        BY DEF Char, Byte
      <3>3. QED
        BY <3>1, <3>2, SignedInt
    <2>9. h[a + k] \in Int /\ h[a] \in Int
      <3>1. a + k \in 0..Len(x) /\ a \in 0..Len(x)
        BY <2>1
      <3>2. QED
        BY <3>1
    <2>10. QED
      BY <2>3, <2>5, <2>7, <2>8, <2>9
  <1>5. b - a \in P
    <2> HIDE DEF P
    <2>1. Nat \subseteq P
      BY <1>3, <1>4, NatInd
    <2>2. QED
      BY <2>1
  <1>6. g[b - a] = h[a + (b - a)] - h[a] /\ a + (b - a) = b
    BY <1>5
  <1>7. HashOf(y) = h[b] - h[a]
    BY <1>1, <1>2, <1>6
  <1>8. QED
    BY <1>7 DEF y

(* Rolling the sum on by one byte.                                         *)
LEMMA HashRolls ==
  ASSUME NEW x \in Seq(Char), NEW a \in Nat, NEW b \in Nat, a < b, b < Len(x)
  PROVE  HashOf(SubSeq(x, a + 2, b + 1)) =
           HashOf(SubSeq(x, a + 1, b)) - Signed(x[a + 1]) + Signed(x[b + 1])
  <1>1. PICK h \in [0..Len(x) -> Int] :
          h[0] = 0 /\ (\A k \in 1..Len(x) : h[k] = h[k - 1] + Signed(x[k]))
    BY HashIs
  <1>2. HashOf(SubSeq(x, a + 1, b)) = h[b] - h[a]
    <2>1. a <= b /\ b <= Len(x)
      OBVIOUS
    <2>2. QED
      BY <1>1, <2>1, HashWindow
  <1>3. HashOf(SubSeq(x, (a + 1) + 1, b + 1)) = h[b + 1] - h[a + 1]
    <2>1. a + 1 <= b + 1 /\ b + 1 <= Len(x) /\ a + 1 \in Nat /\ b + 1 \in Nat
      OBVIOUS
    <2>2. PICK aa \in Nat, bb \in Nat : aa = a + 1 /\ bb = b + 1
      BY <2>1
    <2>3. HashOf(SubSeq(x, aa + 1, bb)) = h[bb] - h[aa]
      BY <1>1, <2>1, <2>2, HashWindow
    <2>4. QED
      BY <2>2, <2>3
  <1>4. h[a + 1] = h[a] + Signed(x[a + 1]) /\ h[b + 1] = h[b] + Signed(x[b + 1])
    <2>1. a + 1 \in 1..Len(x) /\ b + 1 \in 1..Len(x) /\ (a + 1) - 1 = a
          /\ (b + 1) - 1 = b
      OBVIOUS
    <2>2. QED
      BY <1>1, <2>1
  <1>5. h[a] \in Int /\ h[b] \in Int /\ Signed(x[a + 1]) \in Int
        /\ Signed(x[b + 1]) \in Int
    <2>1. a \in 0..Len(x) /\ b \in 0..Len(x) /\ a + 1 \in 1..Len(x)
          /\ b + 1 \in 1..Len(x)
      OBVIOUS
    <2>2. x[a + 1] \in Char /\ x[b + 1] \in Char
      BY <2>1
    <2>3. \A c \in Char : c \in Byte
      BY DEF Char, Byte
    <2>4. QED
      BY <2>1, <2>2, <2>3, SignedInt
  <1>6. (a + 1) + 1 = a + 2
    OBVIOUS
  <1>7. QED
    BY <1>2, <1>3, <1>4, <1>5, <1>6

(* mkMemmem: n is the hash of the window that begins at i, and nothing      *)
(* before i is an occurrence.                                              *)
RollInv ==
  /\ pc = "roll" =>
       /\ Len(word) <= Len(source)
       /\ i < LastTry => n = HashOf(SubSeq(source, i, i + Len(word) - 1))
       /\ \A k \in 1..(i - 1) : ~Occurs(source, word, k)
  /\ Done("search") => result = IF Occurrences = {} THEN 0 ELSE Min(Occurrences)

(* A match of the sums and of the first byte is asked for besides.          *)
LEMMA HitIsOccurrence ==
  ASSUME NEW x \in Seq(Char), NEW w \in Seq(Char), NEW k \in Nat \ {0},
         Len(w) > 0, Occurs(x, w, k)
  PROVE  HashOf(SubSeq(x, k, k + Len(w) - 1)) = HashOf(w) /\ At(x, k) = At(w, 1)
  <1>1. k + Len(w) - 1 <= Len(x) /\ \A m \in 1..Len(w) : x[k + m - 1] = w[m]
    BY DEF Occurs
  <1> DEFINE y == SubSeq(x, k, k + Len(w) - 1)
  <1>2. y \in Seq(Char) /\ Len(y) = Len(w)
        /\ \A m \in 1..Len(w) : y[m] = x[k + m - 1]
    BY <1>1
  <1>3. y = w
    BY <1>1, <1>2
  <1>4. k \in 1..Len(x) /\ 1 \in 1..Len(w) /\ k + 1 - 1 = k
    BY <1>1
  <1>5. x[k] = w[1]
    BY <1>1, <1>4
  <1>6. QED
    BY <1>3, <1>4, <1>5 DEF At

LEMMA SearchAgreesKept ==
  ASSUME TypeOK, SearchInv, RollInv, Search, UNCHANGED input
  PROVE  RollInv'
  <1>1. input.fn = "search" /\ pc \in {"search", "roll"}
    BY Owner DEF Search, SearchBegins, SearchFound, SearchEnds, Roll, Running
  <1>2. source \in Seq(Char) /\ word \in Seq(Char) /\ i \in Nat \ {0} /\ n \in Int
    BY CallTyped DEF TypeOK
  <1>3. Len(source) \in Nat /\ Len(word) \in Nat
    BY <1>2
  <1>4. source' = source /\ word' = word /\ Occurrences' = Occurrences
        /\ LastTry' = LastTry
    BY DEF source, word, Occurrences, LastTry
  <1>5. /\ Occurrences \in SUBSET (1..(Len(source) + 1))
        /\ Occurrences # {} => /\ Min(Occurrences) \in Occurrences
                               /\ \A k \in Occurrences : Min(Occurrences) <= k
    BY OccurrencesAreNat
  <1>6. ASSUME NEW value, Return(value),
               value = IF Occurrences = {} THEN 0 ELSE Min(Occurrences)
        PROVE  RollInv'
    BY <1>4, <1>6 DEF Return, RollInv, Done
  <1>7. CASE SearchBegins
    <2>1. i = 1
      BY <1>7 DEF SearchBegins, Running, SearchInv
    <2>2. CASE Len(source) < Len(word) /\ Return(0)
      <3>1. Occurrences = {}
        BY <2>2, <1>3 DEF Occurrences, Occurs
      <3>2. QED
        BY <2>2, <3>1, <1>6
    <2>3. CASE Len(source) >= Len(word) /\ word = <<>> /\ Return(1)
      <3>1. 1 \in Occurrences
        BY <2>3, <1>3 DEF Occurrences, Occurs
      <3>2. Min(Occurrences) = 1
        <4>1. Min(Occurrences) \in 1..(Len(source) + 1) /\ Min(Occurrences) <= 1
          BY <3>1, <1>5
        <4>2. QED
          BY <4>1, <1>3
      <3>3. QED
        BY <2>3, <3>1, <3>2, <1>6
    <2>4. CASE /\ Len(source) >= Len(word) /\ word # <<>>
               /\ n' = HashOf(SubSeq(source, 1, Len(word))) /\ pc' = "roll"
                  /\ UNCHANGED <<i, result>>
      <3>1. 1 + Len(word) - 1 = Len(word) /\ i' = 1
        BY <1>3, <2>1, <2>4
      <3>2. n' = HashOf(SubSeq(source, i', i' + Len(word) - 1))
            /\ 1..(i' - 1) = {}
        BY <2>4, <3>1
      <3>3. QED
        BY <1>3, <1>4, <2>4, <3>2 DEF RollInv, Done
    <2>5. QED
      BY <1>7, <2>2, <2>3, <2>4 DEF SearchBegins
  <1>8. ASSUME pc = "roll"
        PROVE  /\ Len(word) > 0 /\ i <= LastTry /\ Len(word) <= Len(source)
               /\ i < LastTry => n = HashOf(SubSeq(source, i, i + Len(word) - 1))
               /\ \A k \in 1..(i - 1) : ~Occurs(source, word, k)
    BY <1>8 DEF RollInv, SearchInv
  <1>9. CASE SearchFound
    <2>1. pc = "roll" /\ Occurs(source, word, i) /\ Return(i)
      BY <1>9 DEF SearchFound, Running, Hit
    <2>2. i \in Occurrences
      BY <2>1, <1>2, <1>3, <1>8 DEF Occurrences, Occurs
    <2>3. \A k \in Occurrences : ~(k < i)
      BY <2>1, <1>2, <1>3, <1>8 DEF Occurrences
    <2>4. Min(Occurrences) = i
      <3>1. Min(Occurrences) \in Occurrences /\ Min(Occurrences) <= i
        BY <2>2, <1>5
      <3>2. Min(Occurrences) \in 1..(Len(source) + 1) /\ ~(Min(Occurrences) < i)
        BY <3>1, <2>3, <1>5
      <3>3. QED
        BY <3>1, <3>2, <1>2, <1>3
    <2>5. QED
      BY <2>1, <2>2, <2>4, <1>6
  <1>10. CASE SearchEnds
    <2>1. pc = "roll" /\ i = LastTry /\ Return(0)
      BY <1>10 DEF SearchEnds, Running
    <2>2. Occurrences = {}
      <3>1. ASSUME NEW k \in Occurrences PROVE FALSE
        <4>1. k \in 1..(Len(source) + 1) /\ Occurs(source, word, k)
              /\ k + Len(word) - 1 <= Len(source)
          BY <3>1 DEF Occurrences, Occurs
        <4>2. k \in 1..(i - 1)
          BY <4>1, <2>1, <1>2, <1>3 DEF LastTry
        <4>3. QED
          BY <4>1, <4>2, <2>1, <1>8
      <3>2. QED
        BY <3>1
    <2>3. QED
      BY <2>1, <2>2, <1>6
  <1>11. CASE Roll
    <2>1. /\ pc = "roll" /\ i < LastTry /\ ~Hit /\ i' = i + 1 /\ pc' = pc
          /\ n' = n - Signed(At(source, i)) + Signed(At(source, i + Len(word)))
          /\ result' = result
      BY <1>11 DEF Roll, Running, Stays
    <2>2. i + Len(word) - 1 <= Len(source)
      BY <2>1, <1>2, <1>3 DEF LastTry
    <2>3. ~Occurs(source, word, i)
      <3>1. SUFFICES ASSUME Occurs(source, word, i) PROVE Hit
        BY <2>1
      <3>2. HashOf(SubSeq(source, i, i + Len(word) - 1)) = HashOf(word)
            /\ At(source, i) = At(word, 1)
        BY <3>1, <2>1, <1>2, <1>8, HitIsOccurrence
      <3>3. QED
        BY <3>1, <3>2, <2>1, <1>8 DEF Hit
    <2>4. \A k \in 1..(i' - 1) : ~Occurs(source, word, k)
      <3>1. \A k \in 1..(i' - 1) : k = i \/ k \in 1..(i - 1)
        BY <2>1, <1>2
      <3>2. QED
        BY <3>1, <2>1, <2>3, <1>8
    <2>5. i' < LastTry => n' = HashOf(SubSeq(source, i', i' + Len(word) - 1))
      <3>1. SUFFICES ASSUME i' < LastTry
                     PROVE  n' = HashOf(SubSeq(source, i', i' + Len(word) - 1))
        OBVIOUS
      <3>2. PICK a \in Nat, b \in Nat : a = i - 1 /\ b = i + Len(word) - 1
        <4>1. i - 1 \in Nat /\ i + Len(word) - 1 \in Nat
          BY <1>2, <1>3
        <4>2. QED
          BY <4>1
      <3>3. a < b /\ b < Len(source)
        BY <3>1, <3>2, <2>1, <1>2, <1>3, <1>8 DEF LastTry
      <3>4. HashOf(SubSeq(source, a + 2, b + 1)) =
              HashOf(SubSeq(source, a + 1, b)) - Signed(source[a + 1]) + Signed(source[b + 1])
        BY <3>3, <1>2, HashRolls
      <3>5. a + 1 = i /\ b + 1 = i + Len(word) /\ a + 2 = i'
            /\ b + 1 = i' + Len(word) - 1
        BY <3>2, <2>1, <1>2, <1>3
      <3>6. At(source, i) = source[i]
            /\ At(source, i + Len(word)) = source[i + Len(word)]
        BY <3>2, <3>3, <3>5, <1>2, <1>3 DEF At
      <3>7. n = HashOf(SubSeq(source, a + 1, b))
        BY <3>2, <3>5, <2>1, <1>8
      <3>8. QED
        BY <3>4, <3>5, <3>6, <3>7, <2>1
    <2>6. QED
      BY <1>1, <1>4, <2>1, <2>4, <2>5, <1>8 DEF RollInv, Done
  <1>12. QED
    BY <1>7, <1>9, <1>10, <1>11 DEF Search

(* mkSubstr: the byte s its first scan stops at, and how far the second is. *)
Begins(s) ==
  /\ s \in 1..Len(source) /\ CharNo(source, s) = input.from
  /\ \A k \in 1..(s - 1) : CharNo(source, k) # input.from

SubstrInv ==
  /\ pc = "start" => /\ i <= Len(source) + 1
     /\ n = input.from - CharNo(source, i - 1)
                     /\ \A k \in 1..(i - 1) : CharNo(source, k) # input.from
  /\ pc = "end" =>
       \E s \in 1..Len(source) :
         /\ Begins(s) /\ input.count > 0 /\ text = Rest(source, s)
            /\ i <= Len(text) + 1
         /\ n = input.count + 1 - (CharNo(source, s + i - 2) - CharNo(source, s - 1))
         /\ \A k \in 1..(i - 1) :
              CharNo(source, s + k - 1) - CharNo(source, s - 1) # input.count + 1
  /\ SubstrAgrees

Wanted == {k \in 1..Len(source) :
             /\ CharNo(source, k) >= input.from
             /\ input.count > 0 => CharNo(source, k) < input.from + input.count}

LEMMA CharNoNat ==
  ASSUME NEW x
  PROVE  \A k \in Nat : CharNo(x, k) \in Nat
  <1>1. ASSUME NEW k \in Nat PROVE CharNo(x, k) \in Nat
    BY CharNoStep
  <1>2. QED
    BY <1>1

LEMMA BeginsAt ==
  ASSUME TypeOK, NEW s, Begins(s)
  PROVE  /\ input.from >= 1 =>
              /\ CharNo(source, s - 1) = input.from - 1
              /\ \A k \in 1..(s - 1) : CharNo(source, k) < input.from
         /\ input.from < 1 => ~Lead(At(source, 1))
  <1>1. source \in Seq(Char) /\ input.from \in Int /\ Len(source) \in Nat
    BY CallTyped
  <1>2. s \in 1..Len(source) /\ s \in Nat /\ s - 1 \in Nat
        /\ CharNo(source, s) = input.from
    BY <1>1 DEF Begins
  <1>3. \A k \in 0..(s - 1) : CharNo(source, k) \in Nat
        /\ CharNo(source, k) <= input.from
    <2>1. ASSUME NEW k \in 0..(s - 1) PROVE CharNo(source, k) \in Nat
                 /\ CharNo(source, k) <= input.from
      <3>1. k \in Nat /\ k <= s
        BY <1>2
      <3>2. QED
        BY <3>1, <1>2, CharNoStep, CharNoGrows
    <2>2. QED
      BY <2>1
  <1>4. \A k \in 1..(s - 1) : CharNo(source, k) < input.from
    <2>1. ASSUME NEW k \in 1..(s - 1) PROVE CharNo(source, k) < input.from
      <3>1. CharNo(source, k) # input.from /\ k \in 0..(s - 1)
        BY DEF Begins
      <3>2. CharNo(source, k) \in Nat /\ CharNo(source, k) <= input.from
        BY <3>1, <1>3
      <3>3. QED
        BY <3>1, <3>2, <1>1
    <2>2. QED
      BY <2>1
  <1>5. CharNo(source, 0) = 0
    BY CharNoStep, 0 \in Nat
  <1>6. CharNo(source, (s - 1) + 1) = CharNo(source, s - 1) + (IF Lead(source[(s - 1) + 1]) THEN 1 ELSE 0)
        /\ (s - 1) + 1 = s /\ CharNo(source, s - 1) \in Nat
    <2>1. PICK k \in Nat : k = s - 1
      BY <1>2
    <2>2. CharNo(source, k + 1) = CharNo(source, k) + (IF Lead(source[k + 1]) THEN 1 ELSE 0)
          /\ CharNo(source, k) \in Nat
      BY CharNoStep
    <2>3. k + 1 = s
      BY <1>2, <2>1
    <2>4. QED
      BY <2>1, <2>2, <2>3
  <1>7. input.from >= 1 => CharNo(source, s - 1) = input.from - 1
    <2>1. SUFFICES ASSUME input.from >= 1 PROVE CharNo(source, s - 1) < input.from
      BY <1>1, <1>2, <1>6
    <2>2. CASE s = 1
      BY <2>1, <2>2, <1>1, <1>5
    <2>3. CASE s # 1
      <3>1. s - 1 \in 1..(s - 1)
        BY <2>3, <1>2
      <3>2. QED
        BY <3>1, <1>4
    <2>4. QED
      BY <2>2, <2>3
  <1>8. input.from < 1 => ~Lead(At(source, 1))
    <2>1. SUFFICES ASSUME input.from < 1 PROVE ~Lead(At(source, 1))
      OBVIOUS
    <2>2. s = 1
      <3>1. SUFFICES ASSUME s # 1 PROVE FALSE
        OBVIOUS
      <3>2. 1 \in 1..(s - 1) /\ 1 \in 0..(s - 1)
        BY <3>1, <1>2
      <3>3. CharNo(source, 1) < input.from /\ CharNo(source, 1) \in Nat
        BY <3>2, <1>3, <1>4
      <3>4. QED
        BY <3>3, <2>1, <1>1
    <2>3. CharNo(source, 1) = (IF Lead(source[1]) THEN 1 ELSE 0)
      BY <2>2, <1>5, <1>6
    <2>4. ~Lead(source[1])
      BY <2>1, <2>2, <2>3, <1>1, <1>2
    <2>5. QED
      BY <2>2, <2>4, <1>2 DEF At
  <1>9. QED
    BY <1>4, <1>7, <1>8

(* The bytes from s to e are those of the characters that are wanted.       *)
LEMMA SubstrIs ==
  ASSUME TypeOK, NEW s, Begins(s), input.from >= 1, NEW e \in s..Len(source),
         input.count > 0 => CharNo(source, e) < input.from + input.count,
         e # Len(source) => input.count > 0
         /\ CharNo(source, e + 1) >= input.from + input.count
  PROVE  Min(Wanted) = s /\ Max(Wanted) = e
  <1>1. source \in Seq(Char) /\ input.from \in Int /\ input.count \in Int
        /\ Len(source) \in Nat
    BY CallTyped
  <1>2. s \in 1..Len(source) /\ s \in Nat /\ CharNo(source, s) = input.from
    BY <1>1 DEF Begins
  <1>3. e \in 1..Len(source) /\ e \in Nat
    BY <1>1, <1>2
  <1>4. Wanted \in SUBSET Nat /\ Wanted \in SUBSET (0..Len(source))
    BY <1>1 DEF Wanted
  <1>5. \A k \in Nat : CharNo(source, k) \in Nat
    BY CharNoNat
  <1>6. e \in Wanted
    <2>1. CharNo(source, s) <= CharNo(source, e)
      BY <1>2, <1>3, CharNoGrows
    <2>2. CharNo(source, e) >= input.from
      BY <2>1, <1>1, <1>2, <1>3, <1>5
    <2>3. QED
      BY <2>2, <1>3 DEF Wanted
  <1>7. s \in Wanted
    <2>1. input.count > 0 => input.from < input.from + input.count
      BY <1>1
    <2>2. QED
      BY <2>1, <1>1, <1>2 DEF Wanted
  <1>8. \A k \in Wanted : s <= k /\ k <= e
    <2>1. ASSUME NEW k \in Wanted PROVE s <= k /\ k <= e
      <3>1. k \in 1..Len(source) /\ CharNo(source, k) >= input.from
            /\ (input.count > 0 => CharNo(source, k) < input.from + input.count)
        BY DEF Wanted
      <3>2. k \in Nat /\ CharNo(source, k) \in Nat
            /\ CharNo(source, e + 1) \in Nat
        <4>1. k \in Nat /\ e + 1 \in Nat
          BY <3>1, <1>1, <1>3
        <4>2. QED
          BY <4>1, <1>5
      <3>3. s <= k
        <4>1. SUFFICES ASSUME ~(s <= k) PROVE FALSE
          OBVIOUS
        <4>2. k \in 1..(s - 1)
          BY <4>1, <3>1, <1>1, <1>2
        <4>3. CharNo(source, k) < input.from
          BY <4>2, BeginsAt
        <4>4. QED
          BY <4>3, <3>1, <3>2, <1>1
      <3>4. k <= e
        <4>1. SUFFICES ASSUME ~(k <= e) PROVE FALSE
          OBVIOUS
        <4>2. e # Len(source) /\ e + 1 \in Nat /\ e + 1 <= k /\ k \in Nat
          BY <4>1, <3>1, <1>1, <1>3
        <4>3. CharNo(source, e + 1) <= CharNo(source, k)
          BY <4>2, CharNoGrows
        <4>4. input.count > 0 /\ CharNo(source, e + 1) >= input.from + input.count
          BY <4>2
        <4>5. QED
          BY <4>3, <4>4, <3>1, <3>2, <1>1
      <3>5. QED
        BY <3>3, <3>4
    <2>2. QED
      BY <2>1
  <1>9. Min(Wanted) \in Wanted /\ Min(Wanted) <= s
    BY <1>4, <1>7, MinIs
  <1>10. Max(Wanted) \in Wanted /\ e <= Max(Wanted)
    BY <1>1, <1>4, <1>6, MaxIs
  <1>11. Min(Wanted) \in Nat /\ Max(Wanted) \in Nat /\ s <= Min(Wanted)
         /\ Max(Wanted) <= e
    BY <1>4, <1>8, <1>9, <1>10
  <1>12. QED
    BY <1>2, <1>3, <1>9, <1>10, <1>11

LEMMA SubstrAgreesKept ==
  ASSUME TypeOK, TypeOK', SubstrInv, Substr, UNCHANGED input
  PROVE  SubstrInv'
  <1>1. input.fn = "substr" /\ pc \in {"start", "end"}
    BY Owner DEF Substr, Scans, StartFound, StartMissing, EndFound, EndMissing,
       Running
  <1>2. source \in Seq(Char) /\ input.from \in Int /\ input.count \in Int
        /\ i \in Nat \ {0}
        /\ n \in Int /\ text \in Seq(Byte)
    BY CallTyped DEF TypeOK
  <1>3. Len(source) \in Nat /\ Len(text) \in Nat
    BY <1>2
  <1>4. source' = source
    BY DEF source
  <1>5. \A k \in Nat : CharNo(source, k) \in Nat
    BY CharNoNat
  <1>6. ASSUME NEW value, Return(value), value # NULL,
               input.from >= 1 \/ Lead(At(source, 1)) =>
                 value = SubSeq(source, Min(Wanted), Max(Wanted))
        PROVE  SubstrInv'
    <2>1. pc' = "done" /\ result' = value /\ crashed' = crashed
          /\ Wanted' = Wanted
          /\ UNCHANGED <<source, input>>
      BY <1>6, <1>4 DEF Return, Wanted
    <2>2. ~crashed
      BY <1>1 DEF Substr, Scans, StartFound, StartMissing, EndFound,
         EndMissing, Running
    <2>3. SubstrAgrees'
      BY <1>6, <2>1, <2>2 DEF SubstrAgrees, Wanted
    <2>4. QED
      BY <2>1, <2>3 DEF SubstrInv
  <1>7. ASSUME Return(NULL),
               input.count < 0 \/ input.from < 1
               \/ input.from > CharNo(source, Len(source))
        PROVE  SubstrInv'
    <2>1. pc' = "done" /\ result' = NULL /\ crashed' = crashed
          /\ UNCHANGED <<source, input>>
      BY <1>7, <1>4 DEF Return
    <2>2. ~crashed
      BY <1>1 DEF Substr, Scans, StartFound, StartMissing, EndFound,
         EndMissing, Running
    <2>3. SubstrAgrees'
      BY <1>7, <2>1, <2>2 DEF SubstrAgrees
    <2>4. QED
      BY <2>1, <2>3 DEF SubstrInv
  <1>8. ASSUME pc' \in {"start", "end"}, crashed' =>
                 input.count > 0
                 /\ (input.from < 1 \/ input.from + input.count > CharNo(source, Len(source)))
        PROVE  SubstrAgrees'
    BY <1>8, <1>4 DEF SubstrAgrees
  <1>9. ASSUME NEW x \in Seq(Byte), pc \in {"start", "end"}, At(x, i) # 0
        PROVE  i \in 1..Len(x) /\ At(x, i) = x[i]
    BY <1>9, <1>2, AtOfBytes DEF At
  <1>10. source \in Seq(Byte)
    BY <1>2, TextsAreBytes
  <1>11. i \in 1..Len(source) => CharNo(source, i) =
           CharNo(source, i - 1) + (IF Lead(source[i]) THEN 1 ELSE 0)
    <2>1. PICK k \in Nat : i = k + 1 /\ k = i - 1
      BY <1>2
    <2>2. CharNo(source, k + 1) = CharNo(source, k) + (IF Lead(source[k + 1]) THEN 1 ELSE 0)
      BY CharNoStep
    <2>3. QED
      BY <2>1, <2>2
  <1>12. ASSUME pc = "start"
         PROVE  /\ i <= Len(source) + 1 /\ n = input.from - CharNo(source, i - 1)
                /\ \A k \in 1..(i - 1) : CharNo(source, k) # input.from
                /\ CharNo(source, i - 1) \in Nat /\ CharNo(source, i) \in Nat
                /\ At(source, i) # 0 =>
                     /\ i \in 1..Len(source)
                     /\ (IF Lead(At(source, i)) THEN n - 1 ELSE n) = input.from - CharNo(source, i)
                /\ At(source, i) = 0 => i = Len(source) + 1
    <2>1. i <= Len(source) + 1 /\ n = input.from - CharNo(source, i - 1)
          /\ \A k \in 1..(i - 1) : CharNo(source, k) # input.from
      BY <1>12 DEF SubstrInv
    <2>2. CharNo(source, i - 1) \in Nat /\ CharNo(source, i) \in Nat
      <3>1. i - 1 \in Nat /\ i \in Nat
        BY <1>2
      <3>2. QED
        BY <3>1, <1>5
    <2>3. ASSUME At(source, i) # 0
          PROVE  /\ i \in 1..Len(source)
                 /\ (IF Lead(At(source, i)) THEN n - 1 ELSE n) = input.from - CharNo(source, i)
      <3>1. i \in 1..Len(source) /\ At(source, i) = source[i]
        BY <1>9, <1>10, <1>12, <2>3
      <3>2. CASE Lead(source[i])
        <4>1. CharNo(source, i) = CharNo(source, i - 1) + 1
          BY <3>1, <3>2, <1>11
        <4>2. QED
          BY <4>1, <3>1, <3>2, <2>1, <2>2, <1>2
      <3>3. CASE ~Lead(source[i])
        <4>1. CharNo(source, i) = CharNo(source, i - 1) + 0
          BY <3>1, <3>3, <1>11
        <4>2. QED
          BY <4>1, <3>1, <3>3, <2>1, <2>2, <1>2
      <3>4. QED
        BY <3>2, <3>3
    <2>4. ASSUME At(source, i) = 0 PROVE i = Len(source) + 1
      <3>1. i \notin 1..Len(source)
        BY <1>2, <2>4, AtIsByte
      <3>2. QED
        BY <3>1, <2>1, <1>2, <1>3
    <2>5. QED
      BY <2>1, <2>2, <2>3, <2>4
  <1>13. ASSUME pc = "start", At(source, i) # 0,
                (IF Lead(At(source, i)) THEN n - 1 ELSE n) = 0
         PROVE  Begins(i)
    <2>1. CharNo(source, i) = input.from
      BY <1>12, <1>13, <1>2
    <2>2. QED
      BY <2>1, <1>12, <1>13 DEF Begins
  <1>14. CASE Running("start") /\ Scans(source)
    <2>1. pc = "start" /\ pc' = pc /\ crashed' = crashed /\ ~crashed /\ i' = i + 1
          /\ n' = (IF Lead(At(source, i)) THEN n - 1 ELSE n) /\ n' # 0
             /\ At(source, i) # 0
      BY <1>14 DEF Scans, Running, Stays
    <2>2. n' = input.from - CharNo(source, i) /\ i \in 1..Len(source)
          /\ i' - 1 = i
      BY <2>1, <1>2, <1>12
    <2>3. \A k \in 1..(i' - 1) : CharNo(source, k) # input.from
      <3>1. \A k \in 1..(i' - 1) : k = i \/ k \in 1..(i - 1)
        BY <2>2, <1>2
      <3>2. CharNo(source, i) # input.from
        BY <2>1, <2>2, <1>2, <1>12
      <3>3. QED
        BY <3>1, <3>2, <2>1, <1>12
    <2>4. SubstrAgrees'
      BY <2>1, <1>8
    <2>5. i' <= Len(source) + 1
      BY <2>1, <2>2, <1>2, <1>3
    <2>6. QED
      BY <2>1, <2>2, <2>3, <2>4, <2>5, <1>4 DEF SubstrInv
  <1>15. CASE StartFound
    <2>1. pc = "start" /\ ~crashed /\ Begins(i) /\ i \in 1..Len(source)
      BY <1>12, <1>13, <1>15 DEF StartFound, Reaches, Running
    <2>2. CASE input.count = 0 /\ Return(Rest(source, i))
      <3>1. Rest(source, i) \in Seq(Byte)
        BY <1>2, <2>1, RestIsText
      <3>2. Rest(source, i) # NULL
        BY <3>1, NullAssumption
      <3>3. ASSUME input.from >= 1 \/ Lead(At(source, 1))
            PROVE  Rest(source, i) = SubSeq(source, Min(Wanted), Max(Wanted))
        <4>1. input.from >= 1
          BY <3>3, <2>1, <1>2, BeginsAt
        <4>2. Min(Wanted) = i /\ Max(Wanted) = Len(source)
          <5>1. Len(source) \in i..Len(source) /\ ~(input.count > 0)
            BY <2>1, <2>2, <1>3
          <5>2. QED
            BY <5>1, <4>1, <2>1, SubstrIs
        <4>3. QED
          BY <4>2 DEF Rest
      <3>4. QED
        BY <3>2, <3>3, <2>2, <1>6
    <2>3. CASE input.count < 0 /\ Return(NULL)
      BY <2>3, <1>7
    <2>4. CASE /\ input.count > 0
               /\ text' = Rest(source, i) /\ i' = 1 /\ n' = CharsLeft
                  /\ pc' = "end"
               /\ UNCHANGED <<result, crashed>>
      <3>1. SubstrAgrees'
        BY <2>1, <2>4, <1>8
      <3>2. PICK s \in 1..Len(source) : s = i
        BY <2>1
      <3>3. i' <= Len(text') + 1
        BY <2>4, <1>2, <1>3, <2>1 DEF Rest
      <3>4. s + i' - 2 = s - 1 /\ CharNo(source, s - 1) \in Nat
        <4>1. s - 1 \in Nat
          BY <3>2, <1>3
        <4>2. s + 1 - 2 = s - 1
          BY <3>2, <1>3
        <4>3. i' = 1
          BY <2>4
        <4>4. QED
          BY <4>1, <4>2, <4>3, <1>5
      <3>5. n' = input.count + 1 - (CharNo(source, s + i' - 2) - CharNo(source, s - 1))
        BY <3>4, <2>4, <1>2 DEF CharsLeft
      <3>6. Begins(s)'
        BY <3>2, <2>1, <1>4 DEF Begins
      <3>7. 1..(i' - 1) = {}
        BY <2>4
      <3>8. QED
        BY <3>1, <3>2, <3>3, <3>5, <3>6, <3>7, <2>4, <1>4 DEF SubstrInv
    <2>5. QED
      BY <1>15, <2>2, <2>3, <2>4 DEF StartFound
  <1>16. CASE StartMissing
    <2>1. pc = "start" /\ ~crashed /\ i = Len(source) + 1 /\ i - 1 = Len(source)
      BY <1>12, <1>16, <1>3 DEF StartMissing, Running
    <2>2. input.from < 1 \/ input.from > CharNo(source, Len(source))
      <3>1. SUFFICES ASSUME ~(input.from < 1),
                            ~(input.from > CharNo(source, Len(source)))
                     PROVE  FALSE
        OBVIOUS
      <3>2. \A k \in 0..Len(source) : CharNo(source, k) < input.from
        <4> DEFINE P == {k \in Nat : k <= Len(source) => CharNo(source, k) < input.from}
        <4>1. 0 \in P
          BY <3>1, <1>2, CharNoStep, 0 \in Nat
        <4>2. ASSUME NEW k \in P \cap Nat PROVE k + 1 \in P
          <5>1. SUFFICES ASSUME k + 1 <= Len(source)
                         PROVE  CharNo(source, k + 1) < input.from
            OBVIOUS
          <5>2. CharNo(source, k) < input.from
            BY <4>2, <5>1, <1>3
          <5>3. CharNo(source, k + 1) # input.from
            <6>1. k + 1 \in 1..(i - 1)
              BY <5>1, <2>1, <1>3
            <6>2. QED
              BY <6>1, <2>1, <1>12
          <5>4. CharNo(source, k) \in Nat
                /\ CharNo(source, k + 1) = CharNo(source, k) + (IF Lead(source[k + 1]) THEN 1 ELSE 0)
            BY CharNoStep
          <5>5. CharNo(source, k + 1) \in {CharNo(source, k), CharNo(source, k) + 1}
            BY <5>4
          <5>6. QED
            BY <5>2, <5>3, <5>4, <5>5, <1>2
        <4>3. Nat \subseteq P
          <5> HIDE DEF P
          <5>1. QED
            BY <4>1, <4>2, NatInd
        <4>4. QED
          BY <4>3, <1>3
      <3>3. CharNo(source, Len(source)) < input.from
            /\ CharNo(source, Len(source)) \in Nat
        BY <3>2, <1>3, <1>5
      <3>4. QED
        BY <3>1, <3>3, <1>2
    <2>3. CASE input.count > 0 /\ Crash
      <3>1. pc' = "start" /\ UNCHANGED <<input, i, n, text>> /\ crashed'
        BY <2>1, <2>3 DEF Crash, place, block
      <3>2. input.from < 1
            \/ input.from + input.count > CharNo(source, Len(source))
        <4>1. PICK c \in Nat : c = CharNo(source, Len(source))
          BY <1>3, <1>5
        <4>2. QED
          BY <4>1, <2>2, <2>3, <1>2
      <3>3. SubstrAgrees'
        BY <3>1, <3>2, <2>3, <1>8
      <3>4. QED
        BY <3>1, <3>3, <2>1, <1>4, <1>12 DEF SubstrInv
    <2>4. CASE ~(input.count > 0) /\ Return(NULL)
      BY <2>2, <2>4, <1>7
    <2>5. QED
      BY <1>16, <2>3, <2>4 DEF StartMissing
  <1>17. ASSUME pc = "end"
         PROVE  \E s \in 1..Len(source) :
           /\ Begins(s) /\ input.count > 0 /\ text = Rest(source, s)
              /\ i <= Len(text) + 1
           /\ n = input.count + 1 - (CharNo(source, s + i - 2) - CharNo(source, s - 1))
           /\ \A k \in 1..(i - 1) : CharNo(source, s + k - 1) - CharNo(source, s - 1) # input.count + 1
    BY <1>17 DEF SubstrInv
  <1>18. ASSUME NEW s \in 1..Len(source), text = Rest(source, s),
                i <= Len(text) + 1, pc = "end",
                n = input.count + 1 - (CharNo(source, s + i - 2) - CharNo(source, s - 1))
         PROVE  /\ Len(text) = Len(source) - s + 1
                /\ CharNo(source, s - 1) \in Nat
                   /\ CharNo(source, s + i - 2) \in Nat
                /\ CharNo(source, s + i - 1) \in Nat
                /\ At(text, i) = 0 => i = Len(text) + 1
                /\ At(text, i) # 0 =>
                     /\ i \in 1..Len(text)
                     /\ (IF Lead(At(text, i)) THEN n - 1 ELSE n) =
                          input.count + 1 - (CharNo(source, s + i - 1) - CharNo(source, s - 1))
    <2>1. Len(text) = Len(source) - s + 1
          /\ \A k \in 1..Len(text) : text[k] = source[s + k - 1]
      BY <1>18, <1>2, <1>3 DEF Rest
    <2>2. s - 1 \in Nat /\ s + i - 2 \in Nat /\ s + i - 1 \in Nat
      BY <1>2, <1>3
    <2>3. CharNo(source, s - 1) \in Nat /\ CharNo(source, s + i - 2) \in Nat
          /\ CharNo(source, s + i - 1) \in Nat
      BY <2>2, <1>5
    <2>4. ASSUME At(text, i) = 0 PROVE i = Len(text) + 1
      <3>1. i \notin 1..Len(text)
        <4>1. SUFFICES ASSUME i \in 1..Len(text) PROVE FALSE
          OBVIOUS
        <4>2. At(text, i) = source[s + i - 1]
          BY <4>1, <2>1 DEF At
        <4>3. s + i - 1 \in 1..Len(source)
          BY <4>1, <2>1, <1>2, <1>3
        <4>4. source[s + i - 1] \in Char
          BY <4>3, <1>2
        <4>5. \A c \in Char : c # 0
          BY DEF Char
        <4>6. QED
          BY <4>2, <4>4, <4>5, <2>4
      <3>2. QED
        BY <3>1, <1>2, <1>3, <1>18
    <2>5. ASSUME At(text, i) # 0
          PROVE  /\ i \in 1..Len(text)
                 /\ (IF Lead(At(text, i)) THEN n - 1 ELSE n) =
                      input.count + 1 - (CharNo(source, s + i - 1) - CharNo(source, s - 1))
      <3>1. i \in 1..Len(text) /\ At(text, i) = text[i]
        BY <2>5, <1>2, <1>9, <1>18
      <3>2. text[i] = source[s + i - 1]
        BY <3>1, <2>1
      <3>3. CharNo(source, s + i - 1) = CharNo(source, s + i - 2) + (IF Lead(source[s + i - 1]) THEN 1 ELSE 0)
        <4>1. PICK k \in Nat : k = s + i - 2 /\ k + 1 = s + i - 1
          BY <2>2, <1>2
        <4>2. CharNo(source, k + 1) = CharNo(source, k) + (IF Lead(source[k + 1]) THEN 1 ELSE 0)
          BY CharNoStep
        <4>3. QED
          BY <4>1, <4>2
      <3>4. CASE Lead(At(text, i))
        <4>1. CharNo(source, s + i - 1) = CharNo(source, s + i - 2) + 1
          BY <3>1, <3>2, <3>3, <3>4
        <4>2. PICK b \in Nat, c \in Nat : b = CharNo(source, s + i - 2)
              /\ c = CharNo(source, s - 1)
          BY <2>3
        <4>3. n = input.count + 1 - (b - c)
          BY <4>2, <1>18
        <4>4. n - 1 = input.count + 1 - ((b + 1) - c)
          BY <4>3, <1>2
        <4>5. QED
          BY <4>1, <4>2, <4>4, <3>1, <3>4
      <3>5. CASE ~Lead(At(text, i))
        <4>1. CharNo(source, s + i - 1) = CharNo(source, s + i - 2)
          BY <3>1, <3>2, <3>3, <3>5, <2>3
        <4>2. QED
          BY <4>1, <3>1, <3>5, <2>3, <1>2, <1>18
      <3>6. QED
        BY <3>4, <3>5
    <2>6. QED
      BY <2>1, <2>3, <2>4, <2>5
  <1>19. CASE Running("end") /\ Scans(text)
    <2>1. pc = "end" /\ pc' = pc /\ crashed' = crashed /\ ~crashed
          /\ i' = i + 1 /\ text' = text
          /\ n' = (IF Lead(At(text, i)) THEN n - 1 ELSE n) /\ n' # 0
             /\ At(text, i) # 0
      BY <1>19 DEF Scans, Running, Stays, block
    <2>2. PICK s \in 1..Len(source) :
           /\ Begins(s) /\ input.count > 0 /\ text = Rest(source, s)
              /\ i <= Len(text) + 1
           /\ n = input.count + 1 - (CharNo(source, s + i - 2) - CharNo(source, s - 1))
           /\ \A k \in 1..(i - 1) : CharNo(source, s + k - 1) - CharNo(source, s - 1) # input.count + 1
      BY <2>1, <1>17
    <2>3. /\ CharNo(source, s - 1) \in Nat /\ CharNo(source, s + i - 1) \in Nat
             /\ i \in 1..Len(text)
          /\ n' = input.count + 1 - (CharNo(source, s + i - 1) - CharNo(source, s - 1))
      BY <2>1, <2>2, <1>18
    <2>4. s + i' - 2 = s + i - 1 /\ i' - 1 = i /\ i' <= Len(text) + 1
      BY <2>1, <2>3, <1>2, <1>3
    <2>5. \A k \in 1..(i' - 1) : CharNo(source, s + k - 1) - CharNo(source, s - 1) # input.count + 1
      <3>1. \A k \in 1..(i' - 1) : k = i \/ k \in 1..(i - 1)
        BY <2>4, <1>2
      <3>2. CharNo(source, s + i - 1) - CharNo(source, s - 1) # input.count + 1
        BY <2>1, <2>3, <1>2
      <3>3. QED
        BY <3>1, <3>2, <2>2
    <2>6. SubstrAgrees'
      BY <2>1, <1>8
    <2>7. Begins(s)'
      BY <2>2, <1>4 DEF Begins
    <2>8. text' = Rest(source, s)
          /\ n' = input.count + 1 - (CharNo(source, s + i' - 2) - CharNo(source, s - 1))
      BY <2>1, <2>2, <2>3, <2>4
    <2>9. QED
      BY <2>1, <2>2, <2>4, <2>5, <2>6, <2>7, <2>8, <1>4 DEF SubstrInv
  <1>20. CASE EndFound
    <2>1. pc = "end" /\ ~crashed /\ At(text, i) # 0
          /\ Return(SubSeq(text, 1, i - 1))
          /\ (IF Lead(At(text, i)) THEN n - 1 ELSE n) = 0
      BY <1>20 DEF EndFound, Reaches, Running
    <2>2. PICK s \in 1..Len(source) :
           /\ Begins(s) /\ input.count > 0 /\ text = Rest(source, s)
              /\ i <= Len(text) + 1
           /\ n = input.count + 1 - (CharNo(source, s + i - 2) - CharNo(source, s - 1))
           /\ \A k \in 1..(i - 1) : CharNo(source, s + k - 1) - CharNo(source, s - 1) # input.count + 1
      BY <2>1, <1>17
    <2>3. /\ CharNo(source, s - 1) \in Nat /\ CharNo(source, s + i - 1) \in Nat
          /\ CharNo(source, s + i - 2) \in Nat /\ i \in 1..Len(text)
          /\ Len(text) = Len(source) - s + 1
          /\ input.count + 1 - (CharNo(source, s + i - 1) - CharNo(source, s - 1)) = 0
      BY <2>1, <2>2, <1>18
    <2>4. SubSeq(text, 1, i - 1) # NULL
      <3>1. SubSeq(text, 1, i - 1) \in Seq(Byte)
        BY <2>3, <1>2, <1>3
      <3>2. QED
        BY <3>1, NullAssumption
    <2>5. ASSUME input.from >= 1 \/ Lead(At(source, 1))
          PROVE  SubSeq(text, 1, i - 1) = SubSeq(source, Min(Wanted), Max(Wanted))
      <3>1. input.from >= 1 /\ CharNo(source, s - 1) = input.from - 1
        BY <2>5, <2>2, <1>2, BeginsAt
      <3>2. CharNo(source, s + i - 1) = input.from + input.count
        <4>1. PICK b \in Nat, c \in Nat : b = CharNo(source, s + i - 1)
              /\ c = CharNo(source, s - 1)
          BY <2>3
        <4>2. input.count + 1 - (b - c) = 0 /\ c = input.from - 1
          BY <4>1, <3>1, <2>3
        <4>3. b = input.from + input.count
          <5>1. PICK u \in Int, v \in Int : u = input.count /\ v = input.from
            BY <1>2
          <5>2. u + 1 - (b - c) = 0 /\ c = v - 1
            BY <4>2, <5>1
          <5>3. b = v + u
            BY <5>2
          <5>4. QED
            BY <5>1, <5>3
        <4>4. QED
          BY <4>1, <4>3
      <3>3. i # 1
        <4>1. SUFFICES ASSUME i = 1 PROVE FALSE
          OBVIOUS
        <4>2. s + i - 1 = s /\ CharNo(source, s) = input.from
          BY <4>1, <1>3, <2>2 DEF Begins
        <4>3. QED
          BY <4>2, <3>2, <2>2, <1>2
      <3>4. PICK e \in s..Len(source) : e = s + i - 2
        BY <3>3, <2>3, <1>2, <1>3
      <3>5. e + 1 = s + i - 1 /\ i - 1 \in 1..(i - 1) /\ s + (i - 1) - 1 = e
        BY <3>3, <3>4, <1>2, <1>3
      <3>6. CharNo(source, e) - CharNo(source, s - 1) # input.count + 1
        BY <3>5, <2>2
      <3>7. CharNo(source, e) <= CharNo(source, e + 1)
        <4>1. e \in Nat /\ e + 1 \in Nat /\ e <= e + 1
          BY <3>4, <1>3
        <4>2. QED
          BY <4>1, CharNoGrows
      <3>8. CharNo(source, e) < input.from + input.count
        <4>1. PICK b \in Nat, c \in Nat : b = CharNo(source, e)
              /\ c = CharNo(source, s - 1)
          BY <3>4, <2>3
        <4>2. PICK u \in Int, v \in Int : u = input.count /\ v = input.from
          BY <1>2
        <4>3. CharNo(source, e + 1) = v + u
          BY <4>2, <3>2, <3>5
        <4>4. b <= v + u
          BY <4>1, <4>3, <3>7
        <4>5. b - c # u + 1 /\ c = v - 1
          BY <4>1, <4>2, <3>1, <3>6
        <4>6. b < v + u
          BY <4>4, <4>5
        <4>7. QED
          BY <4>1, <4>2, <4>6
      <3>9. Min(Wanted) = s /\ Max(Wanted) = e
        <4>1. CharNo(source, e + 1) >= input.from + input.count
          <5>1. CharNo(source, e + 1) = input.from + input.count
            BY <3>2, <3>5
          <5>2. QED
            BY <5>1, <1>2
        <4>2. QED
          BY <4>1, <3>1, <3>8, <2>2, SubstrIs
      <3>10. SubSeq(text, 1, i - 1) = SubSeq(source, s, e)
        BY <3>3, <3>4, <2>2, <2>3, <1>2, <1>3 DEF Rest
      <3>11. QED
        BY <3>9, <3>10
    <2>6. QED
      BY <2>1, <2>4, <2>5, <1>6
  <1>21. CASE EndMissing
    <2>1. pc = "end" /\ ~crashed /\ At(text, i) = 0 /\ Crash
      BY <1>21 DEF EndMissing, Running
    <2>2. PICK s \in 1..Len(source) :
           /\ Begins(s) /\ input.count > 0 /\ text = Rest(source, s)
              /\ i <= Len(text) + 1
           /\ n = input.count + 1 - (CharNo(source, s + i - 2) - CharNo(source, s - 1))
           /\ \A k \in 1..(i - 1) : CharNo(source, s + k - 1) - CharNo(source, s - 1) # input.count + 1
      BY <2>1, <1>17
    <2>3. /\ CharNo(source, s - 1) \in Nat /\ CharNo(source, s + i - 2) \in Nat
          /\ i = Len(text) + 1 /\ Len(text) = Len(source) - s + 1
      BY <2>1, <2>2, <1>18
    <2>4. s + i - 2 = Len(source)
      BY <2>3, <1>3
    <2>5. input.from < 1 \/ input.from + input.count > CharNo(source, Len(source))
      <3>1. SUFFICES ASSUME input.from >= 1
                     PROVE  input.from + input.count > CharNo(source, Len(source))
        BY <1>2
      <3>2. CharNo(source, s - 1) = input.from - 1
        BY <3>1, <2>2, BeginsAt
      <3>3. \A k \in 0..(i - 1) : CharNo(source, s + k - 1) - CharNo(source, s - 1) < input.count + 1
        <4> DEFINE P == {k \in Nat : k <= i - 1 => CharNo(source, s + k - 1) - CharNo(source, s - 1) < input.count + 1}
        <4>1. 0 \in P
          <5>1. s + 0 - 1 = s - 1
            BY <1>3
          <5>2. CharNo(source, s - 1) - CharNo(source, s - 1) < input.count + 1
            BY <2>2, <2>3, <1>2
          <5>3. QED
            BY <5>1, <5>2
        <4>2. ASSUME NEW k \in P \cap Nat PROVE k + 1 \in P
          <5>1. SUFFICES ASSUME k + 1 <= i - 1
                         PROVE CharNo(source, s + (k + 1) - 1) - CharNo(source, s - 1) < input.count + 1
            OBVIOUS
          <5>2. CharNo(source, s + k - 1) - CharNo(source, s - 1) < input.count + 1
            BY <4>2, <5>1, <1>2
          <5>3. CharNo(source, s + (k + 1) - 1) - CharNo(source, s - 1) # input.count + 1
            <6>1. k + 1 \in 1..(i - 1)
              BY <5>1, <1>2
            <6>2. QED
              BY <6>1, <2>2
          <5>4. PICK c \in Nat : c = s + k - 1 /\ c + 1 = s + (k + 1) - 1
            <6>1. s + k - 1 \in Nat
              BY <1>3
            <6>2. QED
              BY <6>1, <1>3
          <5>5. CharNo(source, c) \in Nat
                /\ CharNo(source, c + 1) = CharNo(source, c) + (IF Lead(source[c + 1]) THEN 1 ELSE 0)
            BY CharNoStep
          <5>6. CharNo(source, c + 1) \in {CharNo(source, c), CharNo(source, c) + 1}
            BY <5>5
          <5>7. PICK b \in Nat, d \in Nat, g \in Nat :
                  b = CharNo(source, c) /\ d = CharNo(source, c + 1)
                  /\ g = CharNo(source, s - 1)
            <6>1. CharNo(source, c + 1) \in Nat
              BY <5>5, <5>6
            <6>2. QED
              BY <6>1, <5>5, <2>3
          <5>8. b - g < input.count + 1 /\ d - g # input.count + 1
                /\ d \in {b, b + 1}
            BY <5>2, <5>3, <5>4, <5>6, <5>7
          <5>9. d - g < input.count + 1
            BY <5>8, <1>2
          <5>10. QED
            BY <5>4, <5>7, <5>9
        <4>3. Nat \subseteq P
          <5> HIDE DEF P
          <5>1. QED
            BY <4>1, <4>2, NatInd
        <4>4. QED
          BY <4>3
      <3>4. i - 1 \in 0..(i - 1) /\ s + (i - 1) - 1 = Len(source)
        BY <2>4, <1>2, <1>3
      <3>5. CharNo(source, Len(source)) - CharNo(source, s - 1) < input.count + 1
        BY <3>3, <3>4
      <3>6. QED
        BY <3>2, <3>5, <2>3, <2>4, <1>2
    <2>6. pc' = "end" /\ UNCHANGED <<input, i, n, text>> /\ crashed'
      BY <2>1 DEF Crash, place, block
    <2>7. SubstrAgrees'
      BY <2>5, <2>2, <2>6, <1>8
    <2>8. Begins(s)'
      BY <2>2, <1>4 DEF Begins
    <2>9. QED
      BY <2>2, <2>6, <2>7, <2>8, <1>4 DEF SubstrInv
  <1>22. QED
    BY <1>14, <1>15, <1>16, <1>19, <1>20, <1>21 DEF Substr

-----------------------------------------------------------------------------
(* The occurrences that are exchanged.                                     *)
LEMMA TakenIs ==
  ASSUME NEW x \in Seq(Char), NEW w \in Seq(Char)
  PROVE  /\ Taken(x, w) \in [0..Len(x) -> SUBSET (1..Len(x))]
            /\ Taken(x, w)[0] = {}
         /\ \A k \in 1..Len(x) :
              Taken(x, w)[k] = IF Occurs(x, w, k)
              /\ \A m \in Taken(x, w)[k - 1] : m + Len(w) <= k
                                 THEN Taken(x, w)[k - 1] \cup {k}
                                 ELSE Taken(x, w)[k - 1]
  <1> DEFINE S == SUBSET (1..Len(x))
             Up(k, t) == IF Occurs(x, w, k) /\ \A m \in t : m + Len(w) <= k
             THEN t \cup {k} ELSE t
             T == CHOOSE T : T = [k \in 0..Len(x) |->
                    IF k = 0 THEN {}
                    ELSE LET t == T[k - 1] IN
                         IF Occurs(x, w, k) /\ \A m \in t : m + Len(w) <= k
                            THEN t \cup {k} ELSE t]
  <1>1. Len(x) \in Nat /\ {} \in S
    OBVIOUS
  <1>2. \A k \in 1..Len(x), t \in S : Up(k, t) \in S
    OBVIOUS
  <1>3. \E f : f = [k \in 0..Len(x) |-> IF k = 0 THEN {} ELSE Up(k, f[k - 1])]
    <2> HIDE DEF Up, S
    <2>1. PICK step : step = [k \in 1..Len(x) |-> [s \in S |-> Up(k, s)]]
      OBVIOUS
    <2>2. step \in [1..Len(x) -> [S -> S]]
      BY <1>2, <2>1
    <2>3. PICK f \in [0..Len(x) -> S] : Computes(f, Len(x), {}, step)
      BY ONLY <1>1, <2>2, RecUp, Zenon
    <2>4. f[0] = {} /\ \A k \in 1..Len(x) : f[k] = step[k][f[k - 1]]
      BY <2>3 DEF Computes
    <2>5. \A k \in 1..Len(x) : k - 1 \in 0..Len(x) /\ f[k - 1] \in S
      BY <1>1
    <2>6. \A k \in 1..Len(x) : f[k] = Up(k, f[k - 1])
      BY <2>1, <2>4, <2>5
    <2>7. QED
      BY <1>1, <2>4, <2>6
  <1>4. T = [k \in 0..Len(x) |-> IF k = 0 THEN {} ELSE Up(k, T[k - 1])]
    BY <1>3
  <1>5. Taken(x, w) = T
    BY DEF Taken
  <1> HIDE DEF T
  <1>6. T[0] = {} /\ \A k \in 1..Len(x) : T[k] = Up(k, T[k - 1])
    <2> HIDE DEF Up
    <2>1. QED
      BY <1>4, <1>1
  <1>7. T \in [0..Len(x) -> S]
    <2> HIDE DEF Up, S
    <2>1. T = [k \in 0..Len(x) |-> T[k]] /\ T[0] \in S
      BY <1>1, <1>4, <1>6
    <2>2. \A k \in 1..Len(x) : T[k - 1] \in S => T[k] \in S
      BY <1>2, <1>6
    <2>3. QED
      BY <1>1, <2>1, <2>2, RecTyped
  <1>8. QED
    BY <1>5, <1>6, <1>7

Exchanged(x, w) == Taken(x, w)[Len(x)]

LEMMA ExchangedAre ==
  ASSUME NEW x \in Seq(Char), NEW w \in Seq(Char)
  PROVE  /\ Exchanged(x, w) \in SUBSET (1..Len(x))
         /\ \A k \in 0..Len(x) : Taken(x, w)[k] = {m \in Exchanged(x, w) : m <= k}
         /\ \A k \in 1..Len(x) :
              k \in Exchanged(x, w) <=>
                Occurs(x, w, k) /\ \A m \in Exchanged(x, w) : m < k
                => m + Len(w) <= k
  <1>1. PICK T : T = Taken(x, w)
    OBVIOUS
  <1>2. /\ T \in [0..Len(x) -> SUBSET (1..Len(x))] /\ T[0] = {}
        /\ \A k \in 1..Len(x) :
             T[k] = IF Occurs(x, w, k) /\ \A m \in T[k - 1] : m + Len(w) <= k
                      THEN T[k - 1] \cup {k} ELSE T[k - 1]
        /\ Len(x) \in Nat /\ Len(w) \in Nat
    <2>1. Len(x) \in Nat /\ Len(w) \in Nat
      OBVIOUS
    <2>2. QED
      BY <1>1, <2>1, TakenIs
  <1>3. \A k \in 0..Len(x) : \A m \in T[k] : m <= k
    <2> DEFINE P == {k \in Nat : k <= Len(x) => \A m \in T[k] : m <= k}
    <2>1. 0 \in P
      BY <1>2
    <2>2. ASSUME NEW k \in P \cap Nat PROVE k + 1 \in P
      <3>1. SUFFICES ASSUME k + 1 <= Len(x), NEW m \in T[k + 1] PROVE m <= k + 1
        OBVIOUS
      <3>2. k + 1 \in 1..Len(x) /\ (k + 1) - 1 = k /\ k \in 0..Len(x)
            /\ k <= Len(x)
        BY <3>1, <1>2
      <3>3. T[k + 1] \subseteq T[k] \cup {k + 1}
        BY <3>2, <1>2
      <3>4. \A a \in T[k] : a <= k /\ a \in Int
        BY <2>2, <3>2, <1>2
      <3>5. QED
        BY <3>1, <3>3, <3>4
    <2>3. Nat \subseteq P
      <3> HIDE DEF P
      <3>1. QED
        BY <2>1, <2>2, NatInd
    <2>4. QED
      BY <2>3, <1>2
  <1>4. ASSUME NEW k \in 0..Len(x) PROVE T[k] = {m \in T[Len(x)] : m <= k}
    <2> DEFINE P == {d \in Nat : k + d <= Len(x) => T[k] = {m \in T[k + d] : m <= k}}
    <2>1. 0 \in P
      <3>1. k + 0 = k
        OBVIOUS
      <3>2. T[k] = {m \in T[k] : m <= k}
        BY <1>3
      <3>3. QED
        BY <3>1, <3>2
    <2>2. ASSUME NEW d \in P \cap Nat PROVE d + 1 \in P
      <3>1. SUFFICES ASSUME k + (d + 1) <= Len(x)
                     PROVE  T[k] = {m \in T[k + (d + 1)] : m <= k}
        OBVIOUS
      <3>2. PICK e \in Nat : e = k + d /\ e + 1 = k + (d + 1)
            /\ e + 1 \in 1..Len(x) /\ (e + 1) - 1 = e
        <4>1. k + d \in Nat /\ (k + d) + 1 = k + (d + 1)
              /\ (k + d) + 1 \in 1..Len(x) /\ ((k + d) + 1) - 1 = k + d
          BY <3>1, <1>2
        <4>2. QED
          BY <4>1
      <3>3. T[k] = {m \in T[e] : m <= k}
        BY <2>2, <3>1, <3>2, <1>2
      <3>4. T[e + 1] = T[e] \/ T[e + 1] = T[e] \cup {e + 1}
        BY <3>2, <1>2
      <3>5. ~(e + 1 <= k)
        BY <3>2
      <3>6. QED
        BY <3>2, <3>3, <3>4, <3>5
    <2>3. Len(x) - k \in P
      <3>1. Nat \subseteq P
        <4> HIDE DEF P
        <4>1. QED
          BY <2>1, <2>2, NatInd
      <3>2. Len(x) - k \in Nat
        BY <1>2
      <3>3. QED
        BY <3>1, <3>2
    <2>4. k + (Len(x) - k) = Len(x)
      BY <1>2
    <2>5. QED
      BY <2>3, <2>4
  <1>5. Len(x) \in 0..Len(x)
    BY <1>2
  <1>6. T[Len(x)] \in SUBSET (1..Len(x))
    BY <1>2, <1>5
  <1>7. ASSUME NEW k \in 1..Len(x)
        PROVE  k \in T[Len(x)] <=> Occurs(x, w, k)
               /\ \A m \in T[Len(x)] : m < k => m + Len(w) <= k
    <2>1. k \in 0..Len(x) /\ k - 1 \in 0..Len(x) /\ k \in Int
      BY <1>2
    <2>2. k \in T[Len(x)] <=> k \in T[k]
      BY <2>1, <1>4
    <2>3. T[k - 1] = {m \in T[Len(x)] : m <= k - 1}
      BY <2>1, <1>4
    <2>4. \A m \in T[Len(x)] : m <= k - 1 <=> m < k
      BY <2>1, <1>6
    <2>5. k \notin T[k - 1]
      BY <2>1, <2>3
    <2>6. k \in T[k] <=> Occurs(x, w, k) /\ \A m \in T[k - 1] : m + Len(w) <= k
      BY <2>5, <1>2
    <2>7. (\A m \in T[k - 1] : m + Len(w) <= k) <=> \A m \in T[Len(x)] : m < k
          => m + Len(w) <= k
      BY <2>3, <2>4
    <2>8. QED
      BY <2>2, <2>6, <2>7
  <1>8. QED
    BY <1>1, <1>4, <1>6, <1>7 DEF Exchanged

LEMMA ReplacingIs ==
  ASSUME NEW x \in Seq(Char), NEW w \in Seq(Char), NEW new \in Seq(Char)
  PROVE  /\ Replacing(x, w, new) \in [0..Len(x) -> Seq(Char)]
            /\ Replacing(x, w, new)[0] = <<>>
         /\ \A k \in 1..Len(x) :
              Replacing(x, w, new)[k] =
                IF k \in Exchanged(x, w) THEN Replacing(x, w, new)[k - 1] \o new
                ELSE IF \E m \in Exchanged(x, w) : m <= k /\ k < m + Len(w)
                       THEN Replacing(x, w, new)[k - 1]
                ELSE Append(Replacing(x, w, new)[k - 1], x[k])
  <1> DEFINE S == Seq(Char)
             Up(k, t) == IF k \in Taken(x, w)[k] THEN t \o new
                         ELSE IF \E m \in Taken(x, w)[k] : k < m + Len(w) THEN t
                         ELSE Append(t, x[k])
             R == CHOOSE R : R = [k \in 0..Len(x) |->
                    IF k = 0 THEN <<>>
                    ELSE IF k \in Taken(x, w)[k] THEN R[k - 1] \o new
                    ELSE IF \E m \in Taken(x, w)[k] : k < m + Len(w) THEN R[k - 1]
                    ELSE Append(R[k - 1], x[k])]
  <1>1. Len(x) \in Nat /\ <<>> \in S
    OBVIOUS
  <1>2. \A k \in 1..Len(x), t \in S : Up(k, t) \in S
    <2>1. ASSUME NEW k \in 1..Len(x), NEW t \in S PROVE Up(k, t) \in S
      <3>1. t \o new \in S /\ Append(t, x[k]) \in S
        OBVIOUS
      <3>2. QED
        BY <3>1
    <2>2. QED
      BY <2>1
  <1>3. \E f : f = [k \in 0..Len(x) |-> IF k = 0 THEN <<>> ELSE Up(k, f[k - 1])]
    <2> HIDE DEF Up, S
    <2>1. PICK step : step = [k \in 1..Len(x) |-> [s \in S |-> Up(k, s)]]
      OBVIOUS
    <2>2. step \in [1..Len(x) -> [S -> S]]
      BY <1>2, <2>1
    <2>3. PICK f \in [0..Len(x) -> S] : Computes(f, Len(x), <<>>, step)
      BY ONLY <1>1, <2>2, RecUp, Zenon
    <2>4. f[0] = <<>> /\ \A k \in 1..Len(x) : f[k] = step[k][f[k - 1]]
      BY <2>3 DEF Computes
    <2>5. \A k \in 1..Len(x) : k - 1 \in 0..Len(x) /\ f[k - 1] \in S
      <3>1. \A k \in 1..Len(x) : k - 1 \in 0..Len(x)
        BY <1>1
      <3>2. QED
        BY <3>1
    <2>6. \A k \in 1..Len(x) : f[k] = Up(k, f[k - 1])
      BY <2>1, <2>4, <2>5
    <2>7. QED
      BY <1>1, <2>4, <2>6
  <1>4. R = [k \in 0..Len(x) |-> IF k = 0 THEN <<>> ELSE Up(k, R[k - 1])]
    BY <1>3
  <1>5. Replacing(x, w, new) = R
    BY DEF Replacing
  <1> HIDE DEF R
  <1>6. R[0] = <<>> /\ \A k \in 1..Len(x) : R[k] = Up(k, R[k - 1])
    <2> HIDE DEF Up, S
    <2>1. 0 \in 0..Len(x) /\ \A k \in 1..Len(x) : k \in 0..Len(x) /\ k # 0
      BY <1>1
    <2>2. QED
      BY <1>4, <2>1
  <1>7. R \in [0..Len(x) -> S]
    <2> HIDE DEF Up, S
    <2>1. R = [k \in 0..Len(x) |-> R[k]] /\ R[0] \in S
      BY <1>1, <1>4, <1>6
    <2>2. \A k \in 1..Len(x) : R[k - 1] \in S => R[k] \in S
      BY <1>2, <1>6
    <2>3. QED
      BY <1>1, <2>1, <2>2, RecTyped
  <1>8. ASSUME NEW k \in 1..Len(x)
        PROVE  /\ k \in Taken(x, w)[k] <=> k \in Exchanged(x, w)
               /\ (\E m \in Taken(x, w)[k] : k < m + Len(w)) <=>
                     \E m \in Exchanged(x, w) : m <= k /\ k < m + Len(w)
    <2>1. k \in 0..Len(x) /\ k <= k
      BY <1>1
    <2>2. Taken(x, w)[k] = {m \in Exchanged(x, w) : m <= k}
      BY <2>1, ExchangedAre
    <2>3. QED
      BY <2>1, <2>2
  <1>9. QED
    BY <1>5, <1>6, <1>7, <1>8

(* No occurrence that is exchanged begins before k and ends at k or later.  *)
Open(x, w, k) == \A m \in Exchanged(x, w) : m < k => m + Len(w) <= k

LEMMA OpenKept ==
  ASSUME NEW x \in Seq(Char), NEW w \in Seq(Char), NEW new \in Seq(Char),
         w # <<>>,
         NEW k \in 1..Len(x), Open(x, w, k)
  PROVE  /\ ~Occurs(x, w, k) =>
              /\ Open(x, w, k + 1)
              /\ Replacing(x, w, new)[k] = Append(Replacing(x, w, new)[k - 1], x[k])
         /\ Occurs(x, w, k) =>
              /\ k + Len(w) - 1 \in 1..Len(x) /\ Open(x, w, k + Len(w))
              /\ Replacing(x, w, new)[k + Len(w) - 1] = Replacing(x, w, new)[k - 1] \o new
              /\ Replacing(x, w, new)[k] = Replacing(x, w, new)[k - 1] \o new
  <1> DEFINE A == Exchanged(x, w)
             R == Replacing(x, w, new)
  <1>1. Len(x) \in Nat /\ Len(w) \in Nat /\ Len(w) > 0 /\ k \in Nat
    BY w \in Seq(Char), w # <<>>
  <1>2. /\ A \in SUBSET (1..Len(x))
        /\ \A a \in 1..Len(x) : a \in A <=> Occurs(x, w, a)
           /\ \A m \in A : m < a => m + Len(w) <= a
    BY ExchangedAre
  <1>3. /\ \A a \in 1..Len(x) :
             R[a] = IF a \in A THEN R[a - 1] \o new
                    ELSE IF \E m \in A : m <= a /\ a < m + Len(w) THEN R[a - 1]
                    ELSE Append(R[a - 1], x[a])
    BY ReplacingIs
  <1>4. \A m \in A : m < k => m + Len(w) <= k
    BY DEF Open
  <1> HIDE DEF A, R
  <1>5. \A m \in A : m \in 1..Len(x) /\ m \in Int
    BY <1>2
  <1>6. ASSUME ~Occurs(x, w, k)
        PROVE  (\A m \in A : m < k + 1 => m + Len(w) <= k + 1)
               /\ R[k] = Append(R[k - 1], x[k])
    <2>1. k \notin A
      BY <1>2, <1>6
    <2>2. \A m \in A : m <= k => m + Len(w) <= k
      BY <1>4, <1>5, <2>1, <1>1
    <2>3. \A m \in A : m < k + 1 => m + Len(w) <= k + 1
      BY <2>2, <1>5, <1>1
    <2>4. ~\E m \in A : m <= k /\ k < m + Len(w)
      BY <2>2, <1>5, <1>1
    <2>5. QED
      BY <2>1, <2>3, <2>4, <1>3
  <1>7. ASSUME Occurs(x, w, k)
        PROVE  /\ k + Len(w) - 1 \in 1..Len(x)
               /\ \A m \in A : m < k + Len(w) => m + Len(w) <= k + Len(w)
               /\ R[k + Len(w) - 1] = R[k - 1] \o new
               /\ R[k] = R[k - 1] \o new
    <2>1. k \in A
      BY <1>2, <1>4, <1>7
    <2>2. k + Len(w) - 1 \in 1..Len(x)
      BY <1>1, <1>7 DEF Occurs
    <2>3. \A m \in A : k < m => k + Len(w) <= m
      BY <1>2, <2>1
    <2>4. \A m \in A : m < k + Len(w) => m + Len(w) <= k + Len(w)
      BY <2>3, <1>4, <1>5, <1>1
    <2>5. R[k] = R[k - 1] \o new
      BY <2>1, <1>3
    <2>6. Len(w) - 1 \in {d \in Nat : d <= Len(w) - 1 => R[k + d] = R[k]}
      <3> DEFINE P == {d \in Nat : d <= Len(w) - 1 => R[k + d] = R[k]}
      <3>1. 0 \in P
        BY <1>1
      <3>2. ASSUME NEW d \in P \cap Nat PROVE d + 1 \in P
        <4>1. SUFFICES ASSUME d + 1 <= Len(w) - 1 PROVE R[k + (d + 1)] = R[k]
          OBVIOUS
        <4>2. PICK a \in 1..Len(x) : a = k + (d + 1) /\ a - 1 = k + d
          <5>1. k + (d + 1) \in 1..Len(x) /\ k + (d + 1) - 1 = k + d
            BY <4>1, <2>2, <1>1
          <5>2. QED
            BY <5>1
        <4>3. k < a /\ a < k + Len(w) /\ k <= a
          BY <4>1, <4>2, <1>1
        <4>4. a \notin A
          BY <4>3, <2>3, <1>1
        <4>5. R[a] = R[a - 1]
          BY <4>3, <4>4, <2>1, <1>3
        <4>6. R[k + d] = R[k]
          BY <3>2, <4>1, <1>1
        <4>7. QED
          BY <4>2, <4>5, <4>6
      <3>3. Len(w) - 1 \in Nat
        BY <1>1
      <3>4. Nat \subseteq P
        <4> HIDE DEF P
        <4>1. QED
          BY <3>1, <3>2, NatInd
      <3>5. QED
        BY <3>3, <3>4
    <2>7. R[k + (Len(w) - 1)] = R[k] /\ k + (Len(w) - 1) = k + Len(w) - 1
      BY <2>6, <1>1
    <2>8. QED
      BY <2>2, <2>4, <2>5, <2>7
  <1>8. QED
    BY <1>6, <1>7 DEF Open, A, R

(* The text only grows.                                                    *)
LEMMA ReplacingGrows ==
  ASSUME NEW x \in Seq(Char), NEW w \in Seq(Char), NEW new \in Seq(Char),
         NEW k \in 0..Len(x)
  PROVE  /\ Replacing(x, w, new)[k] \in Seq(Char)
         /\ Len(Replacing(x, w, new)[k]) <= Len(Replacing(x, w, new)[Len(x)])
  <1> DEFINE R == Replacing(x, w, new)
  <1>1. Len(x) \in Nat
    OBVIOUS
  <1>2. R \in [0..Len(x) -> Seq(Char)]
        /\ \A a \in 1..Len(x) : \/ R[a] = R[a - 1] \o new
                                \/ R[a] = R[a - 1]
                                \/ R[a] = Append(R[a - 1], x[a])
    <2>1. R \in [0..Len(x) -> Seq(Char)]
      BY ReplacingIs
    <2>2. ASSUME NEW a \in 1..Len(x)
          PROVE  \/ R[a] = R[a - 1] \o new
                 \/ R[a] = R[a - 1]
                 \/ R[a] = Append(R[a - 1], x[a])
      <3>1. R[a] = IF a \in Exchanged(x, w) THEN R[a - 1] \o new
                   ELSE IF \E m \in Exchanged(x, w) : m <= a /\ a < m + Len(w)
                   THEN R[a - 1]
                   ELSE Append(R[a - 1], x[a])
        BY ReplacingIs
      <3> HIDE DEF R
      <3>2. QED
        BY <3>1
    <2>3. QED
      BY <2>1, <2>2
  <1> HIDE DEF R
  <1>3. \A a \in 1..Len(x) : Len(R[a - 1]) <= Len(R[a])
    <2>1. ASSUME NEW a \in 1..Len(x) PROVE Len(R[a - 1]) <= Len(R[a])
      <3>1. a - 1 \in 0..Len(x)
        BY <1>1
      <3>2. R[a - 1] \in Seq(Char) /\ x[a] \in Char
        <4>1. x[a] \in Char
          OBVIOUS
        <4>2. QED
          BY <3>1, <4>1, <1>2
      <3>3. PICK r \in Seq(Char) : r = R[a - 1]
        BY <3>2
      <3>4. Len(r) <= Len(r \o new) /\ Len(r) <= Len(r)
            /\ Len(r) <= Len(Append(r, x[a]))
        BY <3>2
      <3>5. QED
        BY <3>3, <3>4, <1>2
    <2>2. QED
      BY <2>1
  <1>4. \A a \in 0..Len(x) : R[a] \in Seq(Char) /\ Len(R[a]) \in Nat
    <2>1. \A a \in 0..Len(x) : R[a] \in Seq(Char)
      BY <1>2
    <2>2. QED
      BY <2>1
  <1>5. Len(x) - k \in {d \in Nat : k + d <= Len(x) => Len(R[k]) <= Len(R[k + d])}
    <2> DEFINE P == {d \in Nat : k + d <= Len(x) => Len(R[k]) <= Len(R[k + d])}
    <2>1. 0 \in P
      BY <1>1, <1>4
    <2>2. ASSUME NEW d \in P \cap Nat PROVE d + 1 \in P
      <3>1. SUFFICES ASSUME k + (d + 1) <= Len(x)
                     PROVE  Len(R[k]) <= Len(R[k + (d + 1)])
        OBVIOUS
      <3>2. PICK a \in 1..Len(x) : a = k + (d + 1) /\ a - 1 = k + d
        <4>1. k + (d + 1) \in 1..Len(x) /\ k + (d + 1) - 1 = k + d
          BY <3>1, <1>1
        <4>2. QED
          BY <4>1
      <3>3. Len(R[a - 1]) <= Len(R[a])
        BY <1>3
      <3>4. Len(R[k]) <= Len(R[k + d])
        BY <2>2, <3>1, <1>1
      <3>5. a \in 0..Len(x) /\ a - 1 \in 0..Len(x)
        BY <1>1
      <3>6. Len(R[a]) \in Nat /\ Len(R[a - 1]) \in Nat /\ Len(R[k]) \in Nat
        BY <3>5, <1>4
      <3>7. QED
        BY <3>2, <3>3, <3>4, <3>6
    <2>3. Len(x) - k \in Nat
      BY <1>1
    <2>4. Nat \subseteq P
      <3> HIDE DEF P
      <3>1. QED
        BY <2>1, <2>2, NatInd
    <2>5. QED
      BY <2>3, <2>4
  <1>6. k + (Len(x) - k) = Len(x) /\ Len(x) <= Len(x)
    BY <1>1
  <1>7. Len(R[k]) <= Len(R[Len(x)])
    BY <1>5, <1>6
  <1>8. QED
    BY <1>4, <1>7 DEF R

LEMMA AddOnce ==
  ASSUME NEW c \in Nat, NEW d \in Int
  PROVE  (c + 1) * d = c * d + d /\ c * d \in Int
  OBVIOUS

LEMMA ModSmall ==
  ASSUME NEW m \in Nat \ {0}, NEW c \in 0..(m - 1)
  PROVE  c % m = c
  OBVIOUS

(* mkReplace: replace() of the empty text in one that is not empty counts   *)
(* for ever; otherwise what has been counted, or built, is what the first  *)
(* i - 1 bytes become.                                                     *)
Endless == source # <<>> /\ word = <<>>

Built(k) == Replacing(source, word, input.new)[k]

ReplaceInv ==
  input.fn = "replace" /\ Len(source) < IntModulus =>
    /\ Endless => pc = "count" /\ i = 1 /\ ~crashed
    /\ ~Endless =>
         /\ ~crashed
         /\ pc # "done" => i <= Len(source) + 1 /\ Open(source, word, i)
         /\ pc = "count" =>
              /\ n \in 0..(i - 1) /\ out = <<>>
              /\ Len(Built(i - 1)) = (i - 1) + n * (Len(input.new) - Len(word))
         /\ pc = "build" => out = Built(i - 1)
            /\ room = Len(Built(Len(source))) + 1
         /\ pc = "done" => result = Built(Len(source))

LEMMA ReplaceAgreesKept ==
  ASSUME TypeOK, ReplaceInv, Replace, UNCHANGED input
  PROVE  ReplaceInv'
  <1>1. input.fn = "replace" /\ pc \in {"count", "build"}
    BY Owner DEF Replace, CountWord, Allocate, CopyNewWord, CopyByte, Replaced,
       Running
  <1>2. source \in Seq(Char) /\ word \in Seq(Char) /\ input.new \in Seq(Char)
        /\ i \in Nat \ {0}
        /\ n \in Int /\ out \in Seq(Byte) /\ IntModulus \in Nat \ {0}
    BY <1>1, CallTyped, InputsAssumption DEF TypeOK
  <1>3. Len(source) \in Nat /\ Len(word) \in Nat /\ Len(input.new) \in Nat
    BY <1>2
  <1>4. source' = source /\ word' = word /\ Endless' = Endless
        /\ (\A k : Built(k)' = Built(k))
           /\ (\A k : Open(source, word, k)' = Open(source, word, k))
    BY DEF source, word, Endless, Built, Open
  <1>5. SUFFICES ASSUME Len(source) < IntModulus PROVE ReplaceInv'
    BY <1>4 DEF ReplaceInv
  <1>6. CASE Endless
    <2>1. pc = "count" /\ i = 1 /\ ~crashed /\ Len(source) > 0 /\ Len(word) = 0
      BY <1>1, <1>2, <1>5, <1>6 DEF ReplaceInv, Endless
    <2>2. At(source, i) # 0
      BY <2>1, <1>2, <1>3, AtIsByte
    <2>3. CountWord
      BY <2>1, <2>2 DEF Replace, CountWord, Allocate, CopyNewWord, CopyByte,
         Replaced, Running
    <2>4. Occurs(source, word, i)
      BY <2>1, <1>3 DEF Occurs
    <2>5. pc' = "count" /\ i' = 1 /\ ~crashed'
      BY <2>1, <2>3, <2>4, <1>3 DEF CountWord, Stays
    <2>6. QED
      BY <2>5, <1>4, <1>6 DEF ReplaceInv
  <1>7. CASE ~Endless
    <2>1. /\ ~crashed
          /\ i <= Len(source) + 1 /\ Open(source, word, i)
          /\ pc = "count" =>
               /\ n \in 0..(i - 1) /\ out = <<>>
               /\ Len(Built(i - 1)) = (i - 1) + n * (Len(input.new) - Len(word))
          /\ pc = "build" => out = Built(i - 1)
             /\ room = Len(Built(Len(source))) + 1
      BY <1>1, <1>5, <1>7 DEF ReplaceInv
    <2>2. At(source, i) # 0 => i \in 1..Len(source) /\ word # <<>>
      <3>1. At(source, i) # 0 => i \in 1..Len(source)
        BY <1>2, AtIsByte
      <3>2. i \in 1..Len(source) => source # <<>>
        BY <1>2
      <3>3. QED
        BY <3>1, <3>2, <1>7 DEF Endless
    <2>3. At(source, i) = 0 => i = Len(source) + 1
      <3>1. At(source, i) = 0 => i \notin 1..Len(source)
        BY <1>2, AtIsByte
      <3>2. QED
        BY <3>1, <2>1, <1>2, <1>3
    <2>4. ASSUME At(source, i) # 0
          PROVE  /\ ~Occurs(source, word, i) =>
                      Open(source, word, i + 1)
                      /\ Built(i) = Append(Built(i - 1), source[i])
                 /\ Occurs(source, word, i) =>
                      /\ i + Len(word) - 1 \in 1..Len(source)
                         /\ Open(source, word, i + Len(word))
                      /\ Built(i + Len(word) - 1) = Built(i - 1) \o input.new
                      /\ Built(i) = Built(i - 1) \o input.new
      <3>1. i \in 1..Len(source) /\ word # <<>>
        BY <2>2, <2>4
      <3>2. Open(source, word, i)
        BY <2>1
      <3>3. PICK x \in Seq(Char), w \in Seq(Char), v \in Seq(Char),
            k \in 1..Len(source) :
              x = source /\ w = word /\ v = input.new /\ k = i
        BY <3>1, <1>2
      <3>4. w # <<>> /\ k \in 1..Len(x) /\ Open(x, w, k)
        BY <3>1, <3>2, <3>3
      <3>5. /\ ~Occurs(x, w, k) =>
                 /\ Open(x, w, k + 1)
                 /\ Replacing(x, w, v)[k] = Append(Replacing(x, w, v)[k - 1], x[k])
            /\ Occurs(x, w, k) =>
                 /\ k + Len(w) - 1 \in 1..Len(x) /\ Open(x, w, k + Len(w))
                 /\ Replacing(x, w, v)[k + Len(w) - 1] = Replacing(x, w, v)[k - 1] \o v
                 /\ Replacing(x, w, v)[k] = Replacing(x, w, v)[k - 1] \o v
        BY <3>4, OpenKept
      <3>6. QED
        BY <3>3, <3>5 DEF Built
    <2>5. \A k \in 0..Len(source) : Built(k) \in Seq(Char)
          /\ Len(Built(k)) <= Len(Built(Len(source)))
      BY <1>2, ReplacingGrows DEF Built
    <2>6. ASSUME NEW k \in 0..Len(source)
          PROVE  Built(k) \in Seq(Char) /\ Len(Built(k)) \in Nat
      <3>1. Built(k) \in Seq(Char)
        BY <2>5
      <3>2. QED
        BY <3>1
    <2>7. CASE CountWord
      <3>1. pc = "count" /\ pc' = "count" /\ ~crashed' /\ At(source, i) # 0
            /\ i \in 1..Len(source)
            /\ word # <<>>
        BY <2>1, <2>2, <2>7 DEF CountWord, Running, Stays
      <3>2. n \in 0..(i - 1)
            /\ Len(Built(i - 1)) = (i - 1) + n * (Len(input.new) - Len(word))
        BY <2>1, <3>1
      <3>3. i - 1 \in 0..Len(source)
        BY <3>1, <1>3
      <3>4. PICK b \in Seq(Char) : b = Built(i - 1)
        BY <3>3, <2>6
      <3>5. PICK u \in Nat, v \in Nat, a \in Nat :
              u = Len(word) /\ v = Len(input.new) /\ a = Len(source)
        BY <1>3
      <3>6. PICK c \in Nat, h \in Nat, e \in Nat : c = n /\ h = i /\ e = Len(b)
        <4>1. n \in Nat /\ i \in Nat
          BY <3>2, <1>2
        <4>2. Len(b) \in Nat
          OBVIOUS
        <4>3. QED
          BY <4>1, <4>2
      <3>7. PICK d \in Int, g \in Int : d = v - u /\ g = c * d
            /\ (c + 1) * d = g + d
        BY AddOnce
      <3>8. e = (h - 1) + g /\ c <= h - 1 /\ h >= 1 /\ h <= a /\ a < IntModulus
        BY <3>1, <3>2, <3>4, <3>5, <3>6, <3>7, <1>5
      <3>9. CASE Occurs(source, word, i)
        <4>1. i' = i + Len(word) /\ n' = (n + 1) % IntModulus
          BY <2>7, <3>9 DEF CountWord
        <4>2. c + 1 \in 0..(IntModulus - 1)
          BY <3>8, <1>2
        <4>3. n' = c + 1
          <5>1. (c + 1) % IntModulus = c + 1
            BY <4>2, <1>2, ModSmall
          <5>2. QED
            BY <5>1, <4>1, <3>6
        <4>4. i + Len(word) - 1 \in 1..Len(source)
              /\ Open(source, word, i + Len(word))
              /\ Built(i + Len(word) - 1) = b \o input.new
          BY <2>4, <3>1, <3>4, <3>9
        <4>5. Len(b \o input.new) = e + v
          BY <1>2, <3>5, <3>6
        <4>6. e + v = (h + u - 1) + (g + d)
          BY <3>8, <3>7
        <4>7. i' = h + u
          BY <4>1, <3>5, <3>6
        <4>8. Len(Built(h + u - 1)) = (h + u - 1) + (c + 1) * d
          BY <4>4, <4>5, <4>6, <3>5, <3>6, <3>7
        <4>9. Len(Built(i' - 1)) = (i' - 1) + n' * (Len(input.new) - Len(word))
          <5>1. i' - 1 = h + u - 1
            BY <4>7
          <5>2. n' * (Len(input.new) - Len(word)) = (c + 1) * d
            BY <4>3, <3>5, <3>7
          <5>3. QED
            BY <5>1, <5>2, <4>8
        <4>10. n' \in 0..(i' - 1) /\ i' <= Len(source) + 1
          <5>1. Len(word) > 0
            BY <3>1, <1>2
          <5>2. u > 0 /\ h + u - 1 <= a
            BY <5>1, <4>4, <3>5, <3>6
          <5>3. c + 1 \in 0..(h + u - 1) /\ h + u <= a + 1
            BY <5>2, <3>8
          <5>4. QED
            BY <5>3, <4>3, <4>7, <3>5
        <4>11. Open(source, word, i')
          BY <4>1, <4>4
        <4>12. out' = <<>>
          BY <2>1, <2>7, <3>1, <3>9 DEF CountWord, block
        <4>13. QED
          BY <4>9, <4>10, <4>11, <4>12, <3>1, <1>4, <1>7 DEF ReplaceInv, Built,
             Open
      <3>10. CASE ~Occurs(source, word, i)
        <4>1. i' = i + 1 /\ n' = n
          BY <2>7, <3>10 DEF CountWord
        <4>2. Open(source, word, i + 1) /\ Built(i) = Append(b, source[i])
          BY <2>4, <3>1, <3>4, <3>10
        <4>3. source[i] \in Char
          BY <3>1, <1>2
        <4>4. Len(Append(b, source[i])) = Len(b) + 1
          BY <4>3
        <4>5. i' = h + 1 /\ (h + 1) - 1 = h /\ e + 1 = h + g /\ c \in 0..h
              /\ h + 1 <= a + 1
          BY <4>1, <3>8, <3>6, <3>7
        <4>6. Len(Built(h)) = h + c * d
          BY <4>2, <4>4, <4>5, <3>6, <3>7
        <4>7. Len(Built(i' - 1)) = (i' - 1) + n' * (Len(input.new) - Len(word))
          BY <4>1, <4>6, <4>5, <3>5, <3>6, <3>7
        <4>8. n' \in 0..(i' - 1) /\ i' <= Len(source) + 1
          BY <4>1, <4>5, <3>5, <3>6
        <4>9. out' = <<>>
          BY <2>1, <2>7, <3>1, <3>10 DEF CountWord, block
        <4>10. Open(source, word, i')
          BY <4>1, <4>2
        <4>11. QED
          BY <4>7, <4>8, <4>10, <4>9, <3>1, <1>4, <1>7 DEF ReplaceInv, Built,
             Open
      <3>11. QED
        BY <3>9, <3>10
    <2>8. CASE Allocate
      <3>1. pc = "count" /\ i = Len(source) + 1 /\ pc' = "build" /\ i' = 1
            /\ room' = NewLength
            /\ out' = out /\ crashed' = crashed
        BY <2>3, <2>8 DEF Allocate, Running
      <3>2. Len(Built(Len(source))) = Len(source) + n * (Len(input.new) - Len(word))
        <4>1. i - 1 = Len(source)
          BY <3>1, <1>3
        <4>2. QED
          BY <4>1, <2>1, <3>1
      <3>3. room' = Len(Built(Len(source))) + 1
        BY <3>1, <3>2 DEF NewLength
      <3>4. Built(0) = <<>>
        BY <1>2, ReplacingIs DEF Built
      <3>5. Open(source, word, 1)
        <4>1. \A m \in Exchanged(source, word) : m \in 1..Len(source)
          BY <1>2, ExchangedAre
        <4>2. QED
          BY <4>1 DEF Open
      <3>6. out = <<>>
        BY <2>1, <3>1
      <3>7. i' - 1 = 0 /\ i' <= Len(source) + 1
        BY <3>1, <1>3
      <3>8. QED
        BY <3>1, <3>3, <3>4, <3>5, <3>6, <3>7, <2>1, <1>4, <1>7 DEF ReplaceInv,
           Built, Open
    <2>9. CASE CopyNewWord
      <3>1. pc = "build" /\ At(source, i) # 0 /\ Occurs(source, word, i)
            /\ i \in 1..Len(source)
        BY <2>2, <2>9 DEF CopyNewWord, Running
      <3>2. i - 1 \in 0..Len(source) /\ i \in 0..Len(source)
        BY <3>1, <1>3
      <3>3. /\ i + Len(word) - 1 \in 1..Len(source)
               /\ Open(source, word, i + Len(word))
            /\ Built(i + Len(word) - 1) = Built(i - 1) \o input.new
            /\ Built(i) = Built(i - 1) \o input.new
        BY <2>4, <3>1
      <3>4. out = Built(i - 1) /\ room = Len(Built(Len(source))) + 1
        BY <2>1, <3>1
      <3>5. Len(input.new) < room - Len(out)
        <4>1. Len(out) + Len(input.new) = Len(Built(i))
          BY <3>3, <3>4, <1>2
        <4>2. Len(Built(i)) <= Len(Built(Len(source)))
          BY <3>2, <2>5
        <4>3. Len(Built(Len(source))) \in Nat /\ Len(out) \in Nat
          <5>1. Len(source) \in 0..Len(source)
            BY <1>3
          <5>2. QED
            BY <5>1, <2>6, <1>2
        <4>4. PICK a \in Nat, b \in Nat, c \in Nat :
                a = Len(Built(Len(source))) /\ b = Len(out) /\ c = Len(input.new)
          BY <4>3, <1>3
        <4>5. b + c <= a /\ room = a + 1
          BY <4>1, <4>2, <4>4, <3>4
        <4>6. c < room - b
          BY <4>5
        <4>7. QED
          BY <4>4, <4>6
      <3>6. out' = out \o input.new /\ i' = i + Len(word) /\ pc' = pc
            /\ crashed' = crashed /\ room' = room
        BY <2>9, <3>5 DEF CopyNewWord, Stays
      <3>7. out' = Built(i' - 1) /\ i' <= Len(source) + 1
        <4>1. PICK a \in Nat, u \in Nat, h \in Nat : a = Len(source)
              /\ u = Len(word) /\ h = i
          BY <1>2, <1>3
        <4>2. h + u - 1 \in 1..a /\ Built(h + u - 1) = out'
          BY <3>3, <3>4, <3>6, <4>1
        <4>3. i' = h + u /\ h + u <= a + 1
          BY <4>1, <4>2, <3>6
        <4>4. QED
          BY <4>1, <4>2, <4>3
      <3>8. QED
        BY <3>1, <3>3, <3>4, <3>6, <3>7, <2>1, <1>4, <1>7 DEF ReplaceInv,
           Built, Open
    <2>10. CASE CopyByte
      <3>1. pc = "build" /\ At(source, i) # 0 /\ ~Occurs(source, word, i)
            /\ i \in 1..Len(source)
            /\ out' = Append(out, source[i]) /\ i' = i + 1 /\ pc' = pc
               /\ crashed' = crashed /\ room' = room
        BY <2>2, <2>10 DEF CopyByte, Running, Stays
      <3>2. Open(source, word, i + 1)
            /\ Built(i) = Append(Built(i - 1), source[i])
        BY <2>4, <3>1
      <3>3. out = Built(i - 1) /\ room = Len(Built(Len(source))) + 1
        BY <2>1, <3>1
      <3>4. out' = Built(i' - 1) /\ i' <= Len(source) + 1 /\ i' - 1 = i
        BY <3>1, <3>2, <3>3, <1>2, <1>3
      <3>5. QED
        BY <3>1, <3>2, <3>3, <3>4, <2>1, <1>4, <1>7 DEF ReplaceInv, Built, Open
    <2>11. CASE Replaced
      <3>1. pc = "build" /\ At(source, i) = 0 /\ result' = out /\ pc' = "done"
            /\ crashed' = crashed
        BY <2>11 DEF Replaced, Running, Return
      <3>2. i - 1 = Len(source)
        BY <3>1, <2>3, <1>3
      <3>3. result' = Built(Len(source))
        BY <3>1, <3>2, <2>1
      <3>4. QED
        BY <3>1, <3>3, <2>1, <1>4, <1>7 DEF ReplaceInv, Built
    <2>12. QED
      BY <2>7, <2>8, <2>9, <2>10, <2>11 DEF Replace
  <1>8. QED
    BY <1>6, <1>7

-----------------------------------------------------------------------------
(* What a script that has read r reads in the byte b that follows.         *)
ReadOn(r, b) ==
  IF r.escape
    THEN [read |-> Append(r.read, IF b = LETTER_N THEN NEWLINE ELSE b), escape |-> FALSE]
  ELSE IF b = BACKSLASH THEN [r EXCEPT !.escape = TRUE]
  ELSE [r EXCEPT !.read = Append(r.read, b)]

Heard == [read : Seq(Byte), escape : BOOLEAN]

LEMMA ReadOnTyped == \A r \in Heard, b \in Byte : ReadOn(r, b) \in Heard
  <1>1. ASSUME NEW r \in Heard, NEW b \in Byte PROVE ReadOn(r, b) \in Heard
    <2>1. r.read \in Seq(Byte) /\ NEWLINE \in Byte
      BY DEF Heard, NEWLINE, Byte
    <2>2. Append(r.read, b) \in Seq(Byte) /\ Append(r.read, NEWLINE) \in Seq(Byte)
      BY <2>1
    <2>3. QED
      BY <2>2 DEF ReadOn, Heard
  <1>2. QED
    BY <1>1

LEMMA ReadingIs ==
  ASSUME NEW x \in Seq(Byte)
  PROVE  /\ Reading(x) \in [0..Len(x) -> Heard]
         /\ Reading(x)[0] = [read |-> <<>>, escape |-> FALSE]
         /\ \A k \in 1..Len(x) : Reading(x)[k] = ReadOn(Reading(x)[k - 1], x[k])
  <1> DEFINE Up(k, r) == ReadOn(r, x[k])
             s0 == [read |-> <<>>, escape |-> FALSE]
             V == CHOOSE R : R = [k \in 0..Len(x) |-> IF k = 0 THEN s0 ELSE Up(k, R[k - 1])]
  <1>1. Len(x) \in Nat /\ s0 \in Heard
    BY DEF Heard
  <1>2. \A k \in 1..Len(x), t \in Heard : Up(k, t) \in Heard
    <2>1. \A k \in 1..Len(x) : x[k] \in Byte
      OBVIOUS
    <2>2. QED
      BY <2>1, ReadOnTyped
  <1>3. Reading(x) = V
    BY DEF Reading, ReadOn
  <1>4. \E f : f = [k \in 0..Len(x) |-> IF k = 0 THEN s0 ELSE Up(k, f[k - 1])]
    <2> HIDE DEF Up, s0
    <2>1. PICK step : step = [k \in 1..Len(x) |-> [s \in Heard |-> Up(k, s)]]
      OBVIOUS
    <2>2. step \in [1..Len(x) -> [Heard -> Heard]]
      BY <1>2, <2>1
    <2>3. PICK f \in [0..Len(x) -> Heard] : Computes(f, Len(x), s0, step)
      BY ONLY <1>1, <2>2, RecUp, Zenon
    <2>4. f[0] = s0 /\ \A k \in 1..Len(x) : f[k] = step[k][f[k - 1]]
      BY <2>3 DEF Computes
    <2>5. \A k \in 1..Len(x) : k - 1 \in 0..Len(x) /\ f[k - 1] \in Heard
      <3>1. \A k \in 1..Len(x) : k - 1 \in 0..Len(x)
        BY <1>1
      <3>2. QED
        BY <3>1
    <2>6. \A k \in 1..Len(x) : f[k] = Up(k, f[k - 1])
      BY <2>1, <2>4, <2>5
    <2>7. QED
      BY <1>1, <2>4, <2>6
  <1>5. V = [k \in 0..Len(x) |-> IF k = 0 THEN s0 ELSE Up(k, V[k - 1])]
    <2> HIDE DEF s0, Up
    <2>1. QED
      BY <1>4
  <1> HIDE DEF V
  <1>6. V[0] = s0 /\ \A k \in 1..Len(x) : V[k] = Up(k, V[k - 1])
    <2> HIDE DEF Up, s0
    <2>1. 0 \in 0..Len(x) /\ \A k \in 1..Len(x) : k \in 0..Len(x) /\ k # 0
      BY <1>1
    <2>2. QED
      BY <1>5, <2>1
  <1>7. V \in [0..Len(x) -> Heard]
    <2> HIDE DEF Up, s0
    <2>1. V = [k \in 0..Len(x) |-> V[k]] /\ V[0] \in Heard
      BY <1>1, <1>5, <1>6
    <2>2. \A k \in 1..Len(x) : V[k - 1] \in Heard => V[k] \in Heard
      BY <1>2, <1>6
    <2>3. QED
      BY <1>1, <2>1, <2>2, RecTyped
  <1>8. QED
    BY <1>3, <1>6, <1>7

(* What has been read does not depend on what follows.                     *)
LEMMA ReadingFirst ==
  ASSUME NEW x \in Seq(Byte), NEW y \in Seq(Byte), Len(x) <= Len(y),
         \A m \in 1..Len(x) : y[m] = x[m], NEW k \in 0..Len(x)
  PROVE  Reading(y)[k] = Reading(x)[k]
  <1> DEFINE P == {m \in Nat : m <= Len(x) => Reading(y)[m] = Reading(x)[m]}
  <1>1. y \in Seq(Byte) /\ Len(x) <= Len(y) /\ Len(x) \in Nat /\ Len(y) \in Nat
        /\ \A m \in 1..Len(x) : y[m] = x[m]
    OBVIOUS
  <1>2. 0 \in P
    BY <1>1, ReadingIs
  <1>3. ASSUME NEW m \in P \cap Nat PROVE m + 1 \in P
    <2>1. SUFFICES ASSUME m + 1 <= Len(x)
                   PROVE  Reading(y)[m + 1] = Reading(x)[m + 1]
      OBVIOUS
    <2>2. PICK a \in 1..Len(x) : a = m + 1 /\ a - 1 = m /\ a \in 1..Len(y)
      BY <2>1, <1>1
    <2>3. Reading(y)[m] = Reading(x)[m]
      BY <1>3, <2>1, <1>1
    <2>4. Reading(y)[a] = ReadOn(Reading(y)[a - 1], y[a])
      BY <1>1, <2>2, ReadingIs
    <2>5. Reading(x)[a] = ReadOn(Reading(x)[a - 1], x[a])
      BY <2>2, ReadingIs
    <2>6. QED
      BY <2>2, <2>3, <2>4, <2>5, <1>1
  <1>4. Nat \subseteq P
    <2> HIDE DEF P
    <2>1. QED
      BY <1>2, <1>3, NatInd
  <1>5. k \in P /\ k <= Len(x)
    BY <1>1, <1>4
  <1>6. QED
    BY <1>5

(* Nothing that has been read is forgotten.                                *)
LEMMA ReadingGrows ==
  ASSUME NEW x \in Seq(Byte), NEW y \in Seq(Byte), Len(x) <= Len(y),
         \A m \in 1..Len(x) : y[m] = x[m]
  PROVE  /\ JsRead(x) \in Seq(Byte) /\ Len(JsRead(x)) <= Len(JsRead(y))
         /\ SubSeq(JsRead(y), 1, Len(JsRead(x))) = JsRead(x)
  <1> DEFINE Read(m) == Reading(y)[m].read
             P == {m \in Nat : Len(x) + m <= Len(y) =>
                                  /\ Len(JsRead(x)) <= Len(Read(Len(x) + m))
                                  /\ SubSeq(Read(Len(x) + m), 1, Len(JsRead(x))) = JsRead(x)}
  <1>1. Len(x) \in Nat /\ Len(y) \in Nat
    OBVIOUS
  <1>2. \A m \in 0..Len(y) : Reading(y)[m] \in Heard /\ Read(m) \in Seq(Byte)
    BY ReadingIs DEF Heard
  <1>3. Read(Len(x)) = JsRead(x) /\ JsRead(x) \in Seq(Byte) /\ Len(JsRead(x)) \in Nat
    <2>1. Len(x) \in 0..Len(x)
      BY <1>1
    <2>2. Reading(y)[Len(x)] = Reading(x)[Len(x)]
      BY <2>1, ReadingFirst
    <2>3. JsRead(x) \in Seq(Byte)
      BY <2>1, ReadingIs DEF Heard, JsRead
    <2>4. QED
      BY <2>2, <2>3 DEF JsRead
  <1>4. 0 \in P
    BY <1>1, <1>3
  <1>5. ASSUME NEW m \in P \cap Nat PROVE m + 1 \in P
    <2>1. SUFFICES ASSUME Len(x) + (m + 1) <= Len(y)
                   PROVE  /\ Len(JsRead(x)) <= Len(Read(Len(x) + (m + 1)))
                          /\ SubSeq(Read(Len(x) + (m + 1)), 1, Len(JsRead(x))) = JsRead(x)
      OBVIOUS
    <2>2. PICK a \in 1..Len(y) : a = Len(x) + (m + 1) /\ a - 1 = Len(x) + m
                                 /\ a - 1 \in 0..Len(y)
      BY <2>1, <1>1
    <2>3. Len(JsRead(x)) <= Len(Read(a - 1))
          /\ SubSeq(Read(a - 1), 1, Len(JsRead(x))) = JsRead(x)
      BY <1>5, <1>1, <2>1, <2>2
    <2>4. Reading(y)[a] = ReadOn(Reading(y)[a - 1], y[a])
      BY <2>2, ReadingIs
    <2>5. PICK old \in Seq(Byte) : old = Read(a - 1)
      BY <1>2, <2>2
    <2>6. Read(a) = old \/ \E b \in Byte : Read(a) = Append(old, b)
      <3>1. Reading(y)[a - 1] \in Heard /\ Reading(y)[a - 1].read = old
        BY <1>2, <2>2, <2>5
      <3>2. y[a] \in Byte /\ NEWLINE \in Byte
        <4>1. NEWLINE \in Byte
          BY DEF NEWLINE, Byte
        <4>2. QED
          BY <2>2, <4>1
      <3>3. QED
        BY <2>4, <3>1, <3>2 DEF ReadOn, Heard
    <2>7. PICK z \in Seq(Byte) : z = JsRead(x)
      BY <1>3
    <2>8. Len(z) <= Len(old) /\ SubSeq(old, 1, Len(z)) = z
      BY <2>3, <2>5, <2>7
    <2>9. ASSUME NEW b \in Byte
          PROVE  Len(z) <= Len(Append(old, b)) /\ SubSeq(Append(old, b), 1, Len(z)) = z
      BY <2>8
    <2>10. Len(z) <= Len(Read(a)) /\ SubSeq(Read(a), 1, Len(z)) = z
      BY <2>6, <2>8, <2>9
    <2>11. QED
      BY <2>2, <2>7, <2>10
  <1>6. Len(y) - Len(x) \in P
    <2> HIDE DEF P
    <2>1. Nat \subseteq P
      BY <1>4, <1>5, NatInd
    <2>2. Len(y) - Len(x) \in Nat
      BY <1>1
    <2>3. QED
      BY <2>1, <2>2
  <1>7. Len(x) + (Len(y) - Len(x)) = Len(y)
    BY <1>1
  <1>8. QED
    BY <1>1, <1>3, <1>6, <1>7 DEF JsRead

LEMMA ReadingNext ==
  ASSUME NEW x \in Seq(Byte), NEW b \in Byte
  PROVE  /\ Append(x, b) \in Seq(Byte)
         /\ Reading(Append(x, b))[Len(Append(x, b))] = ReadOn(Reading(x)[Len(x)], b)
  <1>1. PICK y \in Seq(Byte) : y = Append(x, b)
    <2>1. Append(x, b) \in Seq(Byte)
      OBVIOUS
    <2>2. QED
      BY <2>1
  <1>2. Len(y) = Len(x) + 1 /\ y[Len(y)] = b /\ Len(x) \in Nat
    BY <1>1
  <1>3. Len(y) \in 1..Len(y) /\ Len(y) - 1 = Len(x) /\ Len(x) \in 0..Len(x)
    BY <1>2
  <1>4. Reading(y)[Len(y)] = ReadOn(Reading(y)[Len(y) - 1], y[Len(y)])
    BY <1>3, ReadingIs
  <1>5. Reading(y)[Len(x)] = Reading(x)[Len(x)]
    <2>1. Len(x) <= Len(y) /\ \A m \in 1..Len(x) : y[m] = x[m]
      BY <1>1
    <2>2. QED
      BY <1>3, <2>1, ReadingFirst
  <1>6. QED
    BY <1>1, <1>2, <1>3, <1>4, <1>5

(* A byte that is escaped is read as that byte.                            *)
LEMMA EscapedIsRead ==
  ASSUME NEW x \in Seq(Byte), NEW b \in Char, NEW y \in Seq(Byte),
         Reading(x)[Len(x)] = [read |-> y, escape |-> FALSE]
  PROVE  /\ x \o Escaped(b) \in Seq(Byte)
         /\ Reading(x \o Escaped(b))[Len(x \o Escaped(b))] = [read |-> Append(y, b), escape |-> FALSE]
  <1>1. b \in Byte /\ BACKSLASH \in Byte /\ LETTER_N \in Byte
    BY DEF Byte, Char, BACKSLASH, LETTER_N
  <1>2. ASSUME b \notin {QUOTE, BACKSLASH, NEWLINE}
        PROVE  x \o Escaped(b) = Append(x, b)
               /\ ReadOn([read |-> y, escape |-> FALSE], b) = [read |-> Append(y, b), escape |-> FALSE]
    <2>1. Escaped(b) = <<b>>
      BY <1>2 DEF Escaped
    <2>2. x \o <<b>> = Append(x, b)
      BY <1>1
    <2>3. QED
      BY <1>2, <2>1, <2>2 DEF ReadOn
  <1>3. ReadOn([read |-> y, escape |-> FALSE], BACKSLASH) = [read |-> y, escape |-> TRUE]
    BY DEF ReadOn
  <1>4. ASSUME b \in {QUOTE, BACKSLASH}
        PROVE  x \o Escaped(b) = Append(Append(x, BACKSLASH), b)
               /\ ReadOn([read |-> y, escape |-> TRUE], b) = [read |-> Append(y, b), escape |-> FALSE]
    <2>1. Escaped(b) = <<BACKSLASH, b>> /\ b # LETTER_N
      <3>1. b # LETTER_N /\ b # NEWLINE
        BY <1>4 DEF QUOTE, BACKSLASH, LETTER_N, NEWLINE
      <3>2. QED
        BY <1>4, <3>1 DEF Escaped
    <2>2. x \o <<BACKSLASH, b>> = Append(Append(x, BACKSLASH), b)
      BY <1>1
    <2>3. QED
      BY <2>1, <2>2 DEF ReadOn
  <1>5. ASSUME b = NEWLINE
        PROVE  x \o Escaped(b) = Append(Append(x, BACKSLASH), LETTER_N)
               /\ ReadOn([read |-> y, escape |-> TRUE], LETTER_N)
                    = [read |-> Append(y, b), escape |-> FALSE]
    <2>1. Escaped(b) = <<BACKSLASH, LETTER_N>>
      BY <1>5 DEF Escaped, QUOTE, BACKSLASH, NEWLINE
    <2>2. x \o <<BACKSLASH, LETTER_N>> = Append(Append(x, BACKSLASH), LETTER_N)
      BY <1>1
    <2>3. QED
      BY <1>5, <2>1, <2>2 DEF ReadOn
  <1>6. PICK z \in Seq(Byte) : z = Append(x, BACKSLASH)
    <2>1. Append(x, BACKSLASH) \in Seq(Byte)
      BY <1>1
    <2>2. QED
      BY <2>1
  <1>7. Reading(z)[Len(z)] = [read |-> y, escape |-> TRUE]
    BY <1>1, <1>3, <1>6, ReadingNext
  <1>8. CASE b \notin {QUOTE, BACKSLASH, NEWLINE}
    BY <1>1, <1>2, <1>8, ReadingNext
  <1>9. CASE b \in {QUOTE, BACKSLASH}
    BY <1>1, <1>4, <1>6, <1>7, <1>9, ReadingNext
  <1>10. CASE b = NEWLINE
    BY <1>1, <1>5, <1>6, <1>7, <1>10, ReadingNext
  <1>11. QED
    BY <1>8, <1>9, <1>10

(* mkEscapeJavaScriptQuoteCharacter: what has been written is read as what  *)
(* has been escaped.                                                       *)
EscapeInv ==
  input.fn = "escape" =>
    /\ pc = "escape" => /\ i <= Len(source) + 1
                        /\ Reading(out)[Len(out)] = [read |-> SubSeq(source, 1, i - 1), escape |-> FALSE]
    /\ pc = "done" => EscapeAgrees

LEMMA EscapeAgreesKept ==
  ASSUME IInv, EscapeInv, EscapeByte \/ EscapeEnds, UNCHANGED input
  PROVE  EscapeInv'
  <1>1. input.fn = "escape" /\ pc = "escape" /\ TypeOK
    BY Owner DEF IInv, EscapeByte, EscapeEnds, Running
  <1>2. source \in Seq(Char) /\ i \in Nat \ {0} /\ out \in Seq(Byte)
        /\ Len(source) \in Nat
    <2>1. source \in Seq(Char) /\ i \in Nat \ {0} /\ out \in Seq(Byte)
      BY <1>1, CallTyped DEF TypeOK
    <2>2. QED
      BY <2>1
  <1>3. i <= Len(source) + 1
        /\ Reading(out)[Len(out)] = [read |-> SubSeq(source, 1, i - 1), escape |-> FALSE]
    BY <1>1 DEF EscapeInv
  <1>4. source' = source
    BY DEF source
  <1>5. CASE EscapeByte
    <2>1. i \in 1..Len(source) /\ source[i] \in Char
      <3>1. i \in 1..Len(source)
        BY <1>2, <1>5, AtIsByte DEF EscapeByte
      <3>2. QED
        BY <3>1, <1>2
    <2>2. out' = out \o Escaped(source[i]) /\ i' = i + 1 /\ pc' = pc
      BY <1>5 DEF EscapeByte, Put, Stays
    <2>3. PICK y \in Seq(Byte) : y = SubSeq(source, 1, i - 1)
      <3>1. SubSeq(source, 1, i - 1) \in Seq(Char)
        BY <1>2, <2>1
      <3>2. QED
        BY <3>1, TextsAreBytes
    <2>4. Reading(out)[Len(out)] = [read |-> y, escape |-> FALSE]
      BY <1>3, <2>3
    <2>5. Reading(out')[Len(out')] = [read |-> Append(y, source[i]), escape |-> FALSE]
      BY <1>2, <2>1, <2>2, <2>4, EscapedIsRead
    <2>6. Append(y, source[i]) = SubSeq(source, 1, i)
      BY <2>1, <2>3, <1>2
    <2>7. i' - 1 = i /\ i' <= Len(source) + 1
      BY <2>1, <2>2, <1>2
    <2>8. QED
      BY <1>1, <1>4, <2>2, <2>5, <2>6, <2>7 DEF EscapeInv
  <1>6. CASE EscapeEnds
    <2>1. i - 1 = Len(source)
      <3>1. i \notin 1..Len(source)
        BY <1>2, <1>6, AtIsByte DEF EscapeEnds
      <3>2. QED
        BY <3>1, <1>2, <1>3
    <2>2. PICK tail \in Seq(Char) : /\ pc' = "done" /\ result' = out \o tail
                                    /\ Len(out) < EscapeRoom => tail = <<>>
      BY <1>6, EscapeEnded DEF Return
    <2>3. SubSeq(source, 1, Len(source)) = source
      BY <1>2
    <2>4. JsRead(out) = source
      BY <1>3, <2>1, <2>3 DEF JsRead
    <2>5. PICK read : read = out \o tail
      OBVIOUS
    <2>6. /\ Len(source) <= Len(JsRead(read))
          /\ SubSeq(JsRead(read), 1, Len(source)) = source
      <3>1. tail \in Seq(Byte)
        BY TextsAreBytes
      <3>2. read \in Seq(Byte) /\ Len(out) <= Len(read)
            /\ \A m \in 1..Len(out) : read[m] = out[m]
        BY <1>2, <2>5, <3>1
      <3>3. QED
        BY <1>2, <2>4, <3>2, ReadingGrows
    <2>7. source = <<>> \/ PlainUpTo(Len(source)) => JsRead(read) = source
      <3>1. Len(out) <= 2 * (i - 1) /\ (PlainUpTo(i - 1) => Len(out) < 2 * (i - 1))
        BY <1>1 DEF IInv, CodeInv
      <3>2. /\ source = <<>> => EscapeRoom = 2 /\ Len(source) = 0
            /\ source # <<>> => EscapeRoom = 2 * Len(source)
        BY DEF EscapeRoom
      <3>3. source = <<>> \/ PlainUpTo(Len(source)) => Len(out) < EscapeRoom
        <4>1. PICK a \in Nat, b \in Nat : a = Len(out) /\ b = Len(source)
          BY <1>2
        <4>2. source # <<>> /\ PlainUpTo(Len(source)) => a < 2 * b
          BY <2>1, <3>1, <4>1
        <4>3. source = <<>> => a <= 0
          BY <2>1, <3>1, <3>2, <4>1
        <4>4. PICK e : e = EscapeRoom
          OBVIOUS
        <4>5. /\ source = <<>> => a < e
              /\ source # <<>> /\ PlainUpTo(Len(source)) => a < e
          BY <3>2, <4>1, <4>2, <4>3, <4>4
        <4>6. QED
          BY <4>1, <4>4, <4>5, Zenon
      <3>4. tail = <<>> => read = out
        BY <1>2, <2>5
      <3>5. QED
        BY <2>2, <2>4, <3>3, <3>4
    <2>8. EscapeAgrees'
      <3>1. PlainUpTo(Len(source))' <=> PlainUpTo(Len(source))
        BY <1>4 DEF PlainUpTo
      <3>2. QED
        BY <1>4, <2>2, <2>5, <2>6, <2>7, <3>1 DEF EscapeAgrees
    <2>9. QED
      BY <1>1, <2>2, <2>8 DEF EscapeInv
  <1>7. QED
    BY <1>5, <1>6

-----------------------------------------------------------------------------
(* Hexadecimal digits, and the bits they stand for.                        *)
LEMMA HexRead ==
  ASSUME NEW d \in 0..15
  PROVE  Hex(d) \in Byte /\ Hex(d) # 0 /\ FromHex(Hex(d)) = d
  <1>1. CASE d < 10
    <2>1. Hex(d) = 48 + d /\ 48 + d \in 48..57
      BY <1>1 DEF Hex
    <2>2. FromHex(48 + d) = d
      BY <2>1 DEF FromHex
    <2>3. QED
      BY <2>1, <2>2 DEF Byte
  <1>2. CASE ~(d < 10)
    <2>1. Hex(d) = 87 + d /\ 87 + d \notin 48..57 /\ 87 + d \notin 65..90
          /\ 87 + d \in 97..102
      BY <1>2 DEF Hex
    <2>2. Signed(87 + d) = 87 + d
      BY <2>1 DEF Signed
    <2>3. FromHex(87 + d) = d
      BY <2>1, <2>2 DEF FromHex
    <2>4. QED
      BY <2>1, <2>3 DEF Byte
  <1>3. QED
    BY <1>1, <1>2

LEMMA FourBits ==
  ASSUME NEW v \in 0..15
  PROVE  (IF v % 2 = 1 THEN 1 ELSE 0) + (IF (v \div 2) % 2 = 1 THEN 2 ELSE 0)
         + (IF (v \div 4) % 2 = 1 THEN 4 ELSE 0) + (IF (v \div 8) % 2 = 1 THEN 8 ELSE 0) = v
  <1>1. v \in {0, 1, 2, 3, 4, 5, 6, 7} \/ v \in {8, 9, 10, 11, 12, 13, 14, 15}
    OBVIOUS
  <1>2. CASE v \in {0, 1, 2, 3, 4, 5, 6, 7}
    BY <1>2
  <1>3. CASE v \in {8, 9, 10, 11, 12, 13, 14, 15}
    BY <1>3
  <1>4. QED
    BY <1>1, <1>2, <1>3

LEMMA NibblesOr ==
  ASSUME NEW h \in 0..15, NEW l \in 0..15
  PROVE  Or8(16 * h, l) = 16 * h + l
  <1> DEFINE Bit(p) == IF ((16 * h) \div p) % 2 = 1 \/ (l \div p) % 2 = 1
      THEN p ELSE 0
  <1>1. Or8(16 * h, l) = Bit(1) + Bit(2) + Bit(4) + Bit(8) + Bit(16) + Bit(32) + Bit(64) + Bit(128)
    BY DEF Or8
  <1>2. /\ (16 * h) \div 1 = 16 * h /\ (16 * h) % 2 = 0
        /\ (16 * h) \div 2 = 8 * h /\ (8 * h) % 2 = 0
        /\ (16 * h) \div 4 = 4 * h /\ (4 * h) % 2 = 0
        /\ (16 * h) \div 8 = 2 * h /\ (2 * h) % 2 = 0
    OBVIOUS
  <1>3. /\ (16 * h) \div 16 = h /\ (16 * h) \div 32 = h \div 2
        /\ (16 * h) \div 64 = h \div 4 /\ (16 * h) \div 128 = h \div 8
    OBVIOUS
  <1>4. l \div 16 = 0 /\ l \div 32 = 0 /\ l \div 64 = 0 /\ l \div 128 = 0
        /\ 0 % 2 = 0 /\ l \div 1 = l
    OBVIOUS
  <1>5. /\ Bit(1) = IF l % 2 = 1 THEN 1 ELSE 0
        /\ Bit(2) = IF (l \div 2) % 2 = 1 THEN 2 ELSE 0
        /\ Bit(4) = IF (l \div 4) % 2 = 1 THEN 4 ELSE 0
        /\ Bit(8) = IF (l \div 8) % 2 = 1 THEN 8 ELSE 0
    BY <1>2, <1>4
  <1>6. /\ Bit(16) = IF h % 2 = 1 THEN 16 ELSE 0
        /\ Bit(32) = IF (h \div 2) % 2 = 1 THEN 32 ELSE 0
        /\ Bit(64) = IF (h \div 4) % 2 = 1 THEN 64 ELSE 0
        /\ Bit(128) = IF (h \div 8) % 2 = 1 THEN 128 ELSE 0
    BY <1>3, <1>4
  <1> HIDE DEF Bit
  <1>7. Bit(1) + Bit(2) + Bit(4) + Bit(8) = l
    BY <1>5, FourBits
  <1>8. PICK c \in 0..1, d \in 0..1, e \in 0..1, f \in 0..1 :
          /\ c + 2 * d + 4 * e + 8 * f = h
          /\ Bit(16) = 16 * c /\ Bit(32) = 32 * d /\ Bit(64) = 64 * e
             /\ Bit(128) = 128 * f
    <2>1. PICK c \in 0..1, d \in 0..1, e \in 0..1, f \in 0..1 :
            /\ c = (IF h % 2 = 1 THEN 1 ELSE 0)
               /\ d = (IF (h \div 2) % 2 = 1 THEN 1 ELSE 0)
            /\ e = (IF (h \div 4) % 2 = 1 THEN 1 ELSE 0)
               /\ f = (IF (h \div 8) % 2 = 1 THEN 1 ELSE 0)
      OBVIOUS
    <2>2. c + 2 * d + 4 * e + 8 * f = h
      BY <2>1, FourBits
    <2>3. QED
      BY <2>1, <2>2, <1>6
  <1>9. Bit(1) \in Int /\ Bit(2) \in Int /\ Bit(4) \in Int /\ Bit(8) \in Int
    BY <1>5
  <1>10. QED
    BY <1>1, <1>7, <1>8, <1>9

(* A code is what url_decode makes the byte of.                            *)
PlainCode(c, b) ==
  /\ Len(c) = 1 /\ c[1] \notin {0, PERCENT}
  /\ b = IF c[1] = PLUS THEN SPACE ELSE c[1]

HexCode(c, b) ==
  /\ Len(c) = 3 /\ c[1] = PERCENT /\ c[2] # 0 /\ c[3] # 0
  /\ b = Or8((FromHex(c[2]) * 16) % 256, FromHex(c[3]) % 256)

LEMMA HexCodes ==
  ASSUME NEW b \in Char
  PROVE  /\ HexCode(<<PERCENT, Hex(b \div 16), Hex(b % 16)>>, b)
         /\ <<PERCENT, Hex(b \div 16), Hex(b % 16)>> \in Seq(Byte)
  <1>1. b \in Byte
    BY DEF Char, Byte
  <1>2. b \div 16 \in 0..15 /\ b % 16 \in 0..15
    BY <1>1, Nibbles
  <1>3. PICK h \in 0..15, l \in 0..15 : h = b \div 16 /\ l = b % 16
    BY <1>2
  <1>4. b = 16 * h + l
    BY <1>1, <1>3 DEF Byte
  <1>5. /\ Hex(h) \in Byte /\ Hex(h) # 0 /\ FromHex(Hex(h)) = h
        /\ Hex(l) \in Byte /\ Hex(l) # 0 /\ FromHex(Hex(l)) = l
    BY HexRead
  <1>6. (h * 16) % 256 = 16 * h /\ l % 256 = l
    OBVIOUS
  <1>7. b = Or8((FromHex(Hex(h)) * 16) % 256, FromHex(Hex(l)) % 256)
    BY <1>4, <1>5, <1>6, NibblesOr
  <1>8. PICK u \in Byte, v \in Byte : u = Hex(h) /\ v = Hex(l)
    BY <1>5
  <1>9. <<PERCENT, u, v>> \in Seq(Byte) /\ Len(<<PERCENT, u, v>>) = 3
        /\ <<PERCENT, u, v>>[1] = PERCENT /\ <<PERCENT, u, v>>[2] = u
           /\ <<PERCENT, u, v>>[3] = v
    BY DEF PERCENT, Byte
  <1>10. HexCode(<<PERCENT, u, v>>, b)
    BY <1>5, <1>7, <1>8, <1>9 DEF HexCode
  <1>11. QED
    BY <1>3, <1>8, <1>9, <1>10

LEMMA CodesAre ==
  ASSUME NEW b \in Char, NEW c \in Coded(b)
  PROVE  c \in Seq(Byte) /\ (PlainCode(c, b) \/ HexCode(c, b))
  <1>1. b \in 1..255
    BY DEF Char
  <1>2. CASE c = <<b>> /\ (b \in Plain \/ b > 127)
    <2>1. b \notin {0, PERCENT, PLUS}
      BY <1>1, <1>2 DEF Plain, Alnum, PERCENT, PLUS
    <2>2. Len(<<b>>) = 1 /\ <<b>>[1] = b /\ <<b>> \in Seq(Byte)
      BY <1>1 DEF Byte
    <2>3. QED
      BY <1>2, <2>1, <2>2 DEF PlainCode
  <1>3. CASE c = <<PLUS>> /\ b = SPACE
    <2>1. Len(<<PLUS>>) = 1 /\ <<PLUS>>[1] = PLUS /\ <<PLUS>> \in Seq(Byte)
      BY DEF PLUS, Byte
    <2>2. PLUS \notin {0, PERCENT}
      BY DEF PLUS, PERCENT
    <2>3. QED
      BY <1>3, <2>1, <2>2 DEF PlainCode
  <1>4. CASE c = <<PERCENT, Hex(b \div 16), Hex(b % 16)>>
    BY <1>4, HexCodes
  <1>5. \/ c = <<b>> /\ (b \in Plain \/ b > 127)
        \/ c = <<PLUS>> /\ b = SPACE
        \/ c = <<PERCENT, Hex(b \div 16), Hex(b % 16)>>
    <2>1. CASE b \in Plain
      BY <2>1 DEF Coded
    <2>2. CASE b \notin Plain /\ b = SPACE
      BY <2>2 DEF Coded
    <2>3. CASE b \notin Plain /\ b # SPACE /\ b > 127
      BY <2>3 DEF Coded
    <2>4. CASE b \notin Plain /\ b # SPACE /\ ~(b > 127)
      BY <2>4 DEF Coded
    <2>5. QED
      BY <2>1, <2>2, <2>3, <2>4
  <1>6. QED
    BY <1>2, <1>3, <1>4, <1>5

-----------------------------------------------------------------------------
(* The first m bytes of x are coded in y, each behind the one before it,   *)
(* and the code of the k-th ends at p[k].                                  *)
CodedIn(p, x, y, m) ==
  /\ p \in [0..m -> Nat] /\ p[0] = 0
  /\ \A k \in 1..m : \E c \in Coded(x[k]) : Occurs(y, c, p[k - 1] + 1)
     /\ p[k] = p[k - 1] + Len(c)

LEMMA CodedMore ==
  ASSUME NEW x \in Seq(Char), NEW y \in Seq(Byte), NEW m \in Nat, m < Len(x),
         NEW p,
         CodedIn(p, x, y, m), p[m] = Len(y), NEW c \in Coded(x[m + 1])
  PROVE  /\ y \o c \in Seq(Byte)
         /\ \E q : CodedIn(q, x, y \o c, m + 1) /\ q[m + 1] = Len(y \o c)
  <1>1. m + 1 \in 1..Len(x) /\ x[m + 1] \in Char
    OBVIOUS
  <1>2. c \in Seq(Byte)
    BY <1>1, CodesAre
  <1>3. PICK z \in Seq(Byte) : z = y \o c
    <2>1. y \o c \in Seq(Byte)
      BY <1>2
    <2>2. QED
      BY <2>1
  <1>4. /\ Len(z) = Len(y) + Len(c) /\ Len(y) \in Nat /\ Len(c) \in Nat
        /\ \A a \in 1..Len(y) : z[a] = y[a]
        /\ \A a \in 1..Len(c) : z[Len(y) + a] = c[a]
    BY <1>2, <1>3
  <1>5. PICK q : q = [k \in 0..(m + 1) |-> IF k <= m THEN p[k] ELSE Len(z)]
    OBVIOUS
  <1>6. /\ p \in [0..m -> Nat] /\ p[0] = 0
        /\ \A k \in 1..m : \E d \in Coded(x[k]) : Occurs(y, d, p[k - 1] + 1)
           /\ p[k] = p[k - 1] + Len(d)
    BY DEF CodedIn
  <1>7. /\ q \in [0..(m + 1) -> Nat] /\ q[0] = 0 /\ q[m + 1] = Len(z)
           /\ q[m] = Len(y)
        /\ \A k \in 0..m : q[k] = p[k]
    BY <1>4, <1>5, <1>6
  <1>8. ASSUME NEW k \in 1..m
        PROVE  \E d \in Coded(x[k]) : Occurs(z, d, q[k - 1] + 1)
               /\ q[k] = q[k - 1] + Len(d)
    <2>1. PICK d \in Coded(x[k]) : Occurs(y, d, p[k - 1] + 1)
          /\ p[k] = p[k - 1] + Len(d)
      BY <1>6
    <2>2. k - 1 \in 0..m /\ k \in 0..m
      OBVIOUS
    <2>3. q[k] = p[k] /\ q[k - 1] = p[k - 1] /\ p[k - 1] \in Nat
      BY <2>2, <1>6, <1>7
    <2>4. d \in Seq(Byte)
      <3>1. k \in 1..Len(x)
        OBVIOUS
      <3>2. x[k] \in Char
        BY <3>1
      <3>3. QED
        BY <3>2, CodesAre
    <2>5. PICK a \in Nat, e \in Nat : a = p[k - 1] /\ e = Len(d)
      <3>1. Len(d) \in Nat
        BY <2>4
      <3>2. QED
        BY <3>1, <2>3
    <2>6. a + 1 + e - 1 <= Len(y) /\ \A h \in 1..e : y[a + 1 + h - 1] = d[h]
      BY <2>1, <2>5 DEF Occurs
    <2>7. \A h \in 1..e : a + 1 + h - 1 \in 1..Len(y)
      BY <2>6, <1>4
    <2>8. a + 1 + e - 1 <= Len(z) /\ \A h \in 1..e : z[a + 1 + h - 1] = d[h]
      <3>1. Len(y) <= Len(z)
        BY <1>4
      <3>2. \A h \in 1..e : z[a + 1 + h - 1] = y[a + 1 + h - 1]
        BY <2>7, <1>4
      <3>3. a + 1 + e - 1 \in Nat /\ Len(y) \in Nat /\ Len(z) \in Nat
        BY <1>4
      <3>4. a + 1 + e - 1 <= Len(z)
        BY <3>1, <3>3, <2>6
      <3>5. QED
        BY <3>2, <3>4, <2>6
    <2>9. Occurs(z, d, a + 1)
      BY <2>5, <2>8 DEF Occurs
    <2>10. QED
      BY <2>1, <2>3, <2>5, <2>9
  <1>9. Occurs(z, c, q[m] + 1) /\ q[m + 1] = q[m] + Len(c)
    <2>1. \A h \in 1..Len(c) : Len(y) + 1 + h - 1 = Len(y) + h
      BY <1>4
    <2>2. Len(y) + 1 + Len(c) - 1 = Len(z)
      BY <1>4
    <2>3. Len(y) + 1 + Len(c) - 1 <= Len(z)
      BY <2>2, <1>4
    <2>4. QED
      BY <2>1, <2>3, <1>4, <1>7 DEF Occurs
  <1>10. CodedIn(q, x, z, m + 1)
    <2>1. ASSUME NEW k \in 1..(m + 1)
          PROVE  \E d \in Coded(x[k]) : Occurs(z, d, q[k - 1] + 1)
                 /\ q[k] = q[k - 1] + Len(d)
      <3>1. CASE k \in 1..m
        BY <3>1, <1>8
      <3>2. CASE k = m + 1
        BY <3>2, <1>9
      <3>3. QED
        BY <3>1, <3>2
    <2>2. QED
      BY <2>1, <1>7 DEF CodedIn
  <1>11. QED
    BY <1>3, <1>7, <1>10

(* The texts url_encode and url_decode have made so far.                   *)
Sent == \E p : CodedIn(p, source, out, i - 1) /\ p[i - 1] = Len(out)

Received(p, k) ==
  /\ CodedIn(p, source, text, Len(source)) /\ p[Len(source)] = Len(text)
  /\ k \in 0..Len(source) /\ i = p[k] + 1 /\ out = SubSeq(source, 1, k)

UrlInv ==
  input.fn = "encode" =>
    /\ pc = "encode" => i <= Len(source) + 1 /\ Sent
    /\ pc = "decode" => \E p, k : Received(p, k)
    /\ pc = "done" => result = source

LEMMA EncodeByteUrl ==
  ASSUME TypeOK, UrlInv, EncodeByte, UNCHANGED input
  PROVE  UrlInv'
  <1>1. input.fn = "encode" /\ pc = "encode"
    BY Owner DEF EncodeByte, Running
  <1>2. source \in Seq(Char) /\ i \in Nat \ {0} /\ out \in Seq(Byte)
        /\ Len(source) \in Nat
    <2>1. source \in Seq(Char) /\ i \in Nat \ {0} /\ out \in Seq(Byte)
      BY <1>1, CallTyped DEF TypeOK
    <2>2. QED
      BY <2>1
  <1>3. i \in 1..Len(source)
    BY <1>2, AtIsByte DEF EncodeByte
  <1>4. PICK c \in Coded(source[i]) : out' = out \o c /\ i' = i + 1 /\ pc' = pc
    BY DEF EncodeByte, Put, Stays
  <1>5. PICK p : CodedIn(p, source, out, i - 1) /\ p[i - 1] = Len(out)
    BY <1>1 DEF UrlInv, Sent
  <1>6. PICK m \in Nat : m = i - 1 /\ m + 1 = i /\ m < Len(source)
    <2>1. i - 1 \in Nat /\ (i - 1) + 1 = i /\ i - 1 < Len(source)
      BY <1>2, <1>3
    <2>2. QED
      BY <2>1
  <1>7. PICK q : CodedIn(q, source, out \o c, m + 1) /\ q[m + 1] = Len(out \o c)
    <2>1. CodedIn(p, source, out, m) /\ p[m] = Len(out)
          /\ c \in Coded(source[m + 1])
      BY <1>4, <1>5, <1>6
    <2>2. QED
      BY <2>1, <1>2, <1>6, CodedMore
  <1>8. i' - 1 = m + 1 /\ i' <= Len(source) + 1 /\ source' = source
    BY <1>2, <1>4, <1>6 DEF source
  <1>9. Sent'
    BY <1>4, <1>7, <1>8 DEF Sent
  <1>10. QED
    BY <1>1, <1>4, <1>8, <1>9 DEF UrlInv

LEMMA EncodeEndsUrl ==
  ASSUME TypeOK, UrlInv, EncodeEnds, UNCHANGED input
  PROVE  UrlInv'
  <1>1. input.fn = "encode" /\ pc = "encode"
    BY Owner DEF EncodeEnds, Running
  <1>2. source \in Seq(Char) /\ i \in Nat \ {0} /\ Len(source) \in Nat
    <2>1. source \in Seq(Char) /\ i \in Nat \ {0}
      BY <1>1, CallTyped DEF TypeOK
    <2>2. QED
      BY <2>1
  <1>3. i <= Len(source) + 1 /\ Sent
    BY <1>1 DEF UrlInv
  <1>4. i - 1 = Len(source)
    <2>1. i \notin 1..Len(source)
      BY <1>2, AtIsByte DEF EncodeEnds
    <2>2. QED
      BY <2>1, <1>2, <1>3
  <1>5. PICK p : CodedIn(p, source, out, Len(source)) /\ p[Len(source)] = Len(out)
    BY <1>3, <1>4 DEF Sent
  <1>6. text' = out /\ out' = <<>> /\ i' = 1 /\ pc' = "decode" /\ source' = source
    BY DEF EncodeEnds, source
  <1>7. 0 \in 0..Len(source) /\ 1 = p[0] + 1 /\ <<>> = SubSeq(source, 1, 0)
    <2>1. p[0] = 0
      BY <1>5 DEF CodedIn
    <2>2. QED
      BY <2>1, <1>2
  <1>8. Received(p, 0)'
    BY <1>5, <1>6, <1>7 DEF Received
  <1>9. QED
    BY <1>1, <1>6, <1>8 DEF UrlInv

LEMMA DecodeUrl ==
  ASSUME TypeOK, UrlInv, DecodeByte \/ DecodeEnds, input.fn = "encode",
         UNCHANGED input
  PROVE  UrlInv'
  <1>1. pc = "decode" /\ Given = text
    BY DEF DecodeByte, DecodeEnds, Running, Given
  <1>2. source \in Seq(Char) /\ text \in Seq(Byte) /\ i \in Nat \ {0}
        /\ Len(source) \in Nat
        /\ Len(text) \in Nat
    <2>1. source \in Seq(Char) /\ text \in Seq(Byte) /\ i \in Nat \ {0}
      BY CallTyped DEF TypeOK
    <2>2. QED
      BY <2>1
  <1>3. PICK p, k : Received(p, k)
    BY <1>1 DEF UrlInv
  <1>4. /\ CodedIn(p, source, text, Len(source)) /\ p[Len(source)] = Len(text)
        /\ k \in 0..Len(source) /\ i = p[k] + 1 /\ out = SubSeq(source, 1, k)
    BY <1>3 DEF Received
  <1>5. /\ p \in [0..Len(source) -> Nat]
        /\ \A a \in 1..Len(source) :
             \E c \in Coded(source[a]) : Occurs(text, c, p[a - 1] + 1)
             /\ p[a] = p[a - 1] + Len(c)
    BY <1>4 DEF CodedIn
  <1>6. k \in Nat /\ p[k] \in Nat /\ source' = source
    BY <1>4, <1>5, <1>2 DEF source
  <1>7. CASE k = Len(source)
    <2>1. i = Len(text) + 1
      BY <1>4, <1>7
    <2>2. At(text, i) = 0
      <3>1. i \notin 1..Len(text)
        BY <2>1, <1>2
      <3>2. QED
        BY <3>1 DEF At
    <2>3. DecodeEnds
      BY <1>1, <2>2 DEF DecodeByte
    <2>4. pc' = "done" /\ result' = out
      BY <2>3 DEF DecodeEnds, Return
    <2>5. out = source
      BY <1>2, <1>4, <1>7
    <2>6. QED
      BY <1>6, <2>4, <2>5 DEF UrlInv
  <1>8. CASE k < Len(source)
    <2>1. k + 1 \in 1..Len(source) /\ (k + 1) - 1 = k /\ source[k + 1] \in Char
      BY <1>2, <1>6, <1>8
    <2>2. PICK b \in Char : b = source[k + 1]
      BY <2>1
    <2>3. PICK c \in Coded(b) : Occurs(text, c, i) /\ p[k + 1] = p[k] + Len(c)
      BY <1>4, <1>5, <2>1, <2>2
    <2>4. c \in Seq(Byte) /\ (PlainCode(c, b) \/ HexCode(c, b))
      BY CodesAre
    <2>5. i + Len(c) - 1 <= Len(text)
          /\ \A m \in 1..Len(c) : text[i + m - 1] = c[m]
      BY <2>3 DEF Occurs
    <2>6. ASSUME out' = out \o <<b>>, i' = i + Len(c), pc' = pc, text' = text
          PROVE  UrlInv'
      <3>1. out' = SubSeq(source, 1, k + 1)
        BY <1>2, <1>4, <1>6, <2>1, <2>2, <2>6
      <3>2. PICK e \in Nat, f \in Nat : e = Len(c) /\ f = p[k]
        BY <2>4, <1>6
      <3>3. i' = p[k + 1] + 1
        BY <3>2, <2>3, <2>6, <1>4
      <3>4. k + 1 \in 0..Len(source)
        BY <2>1
      <3>5. Received(p, k + 1)'
        BY <3>1, <3>3, <3>4, <1>4, <1>6, <2>6 DEF Received
      <3>6. QED
        BY <3>5, <1>1, <2>6 DEF UrlInv
    <2>7. CASE PlainCode(c, b)
      <3>1. Len(c) = 1 /\ c[1] \notin {0, PERCENT} /\ b = IF c[1] = PLUS
            THEN SPACE ELSE c[1]
        BY <2>7 DEF PlainCode
      <3>2. At(text, i) = c[1]
        <4>1. i \in 1..Len(text) /\ text[i + 1 - 1] = c[1] /\ i + 1 - 1 = i
          BY <2>5, <3>1, <1>2
        <4>2. QED
          BY <4>1 DEF At
      <3>3. DecodeByte
        BY <1>1, <3>1, <3>2 DEF DecodeEnds
      <3>4. Put(<<IF c[1] = PLUS THEN SPACE ELSE c[1]>>) /\ i' = i + 1
        BY <1>1, <3>1, <3>2, <3>3 DEF DecodeByte
      <3>5. QED
        BY <3>1, <3>4, <2>6 DEF Put, Stays
    <2>8. CASE HexCode(c, b)
      <3>1. Len(c) = 3 /\ c[1] = PERCENT /\ c[2] # 0 /\ c[3] # 0
            /\ b = Or8((FromHex(c[2]) * 16) % 256, FromHex(c[3]) % 256)
        BY <2>8 DEF HexCode
      <3>2. At(text, i) = c[1] /\ At(text, i + 1) = c[2] /\ At(text, i + 2) = c[3]
        <4>1. /\ i \in 1..Len(text) /\ i + 1 \in 1..Len(text)
                 /\ i + 2 \in 1..Len(text)
              /\ i + 1 - 1 = i /\ i + 2 - 1 = i + 1 /\ i + 3 - 1 = i + 2
          BY <2>5, <3>1, <1>2
        <4>2. text[i + 1 - 1] = c[1] /\ text[i + 2 - 1] = c[2]
              /\ text[i + 3 - 1] = c[3]
          BY <2>5, <3>1
        <4>3. QED
          BY <4>1, <4>2 DEF At
      <3>3. PERCENT # 0
        BY DEF PERCENT
      <3>4. DecodeByte
        BY <1>1, <3>1, <3>2, <3>3 DEF DecodeEnds
      <3>5. Put(<<Or8((FromHex(c[2]) * 16) % 256, FromHex(c[3]) % 256)>>)
            /\ i' = i + 3
        BY <1>1, <3>1, <3>2, <3>3, <3>4 DEF DecodeByte
      <3>6. QED
        BY <3>1, <3>5, <2>6 DEF Put, Stays
    <2>9. QED
      BY <2>4, <2>7, <2>8
  <1>9. QED
    BY <1>4, <1>6, <1>7, <1>8, <1>2

-----------------------------------------------------------------------------
(* Where a text is read to when one more byte of the pattern is: forwards,  *)
(* from where it may have been read to, and backwards, from where it may   *)
(* have to go on.                                                          *)
After(x, c, t) ==
  {a \in 0..Len(x) : IF c = PERCENT THEN \E d \in t : d <= a ELSE a - 1 \in t /\ x[a] = c}

Before(x, c, t) ==
  {a \in 0..Len(x) : IF c = PERCENT THEN \E d \in t : a <= d ELSE a + 1 \in t /\ x[a + 1] = c}

LEMMA MatchedIs ==
  ASSUME NEW x \in Seq(Char), NEW p \in Seq(Char)
  PROVE  /\ Matched(x, p) \in [0..Len(p) -> SUBSET (0..Len(x))]
            /\ Matched(x, p)[0] = {0}
         /\ \A b \in 1..Len(p) : Matched(x, p)[b] = After(x, p[b], Matched(x, p)[b - 1])
  <1> DEFINE S == SUBSET (0..Len(x))
             Up(b, t) == After(x, p[b], t)
             V == CHOOSE M : M = [b \in 0..Len(p) |-> IF b = 0 THEN {0} ELSE Up(b, M[b - 1])]
  <1>1. Len(p) \in Nat /\ Len(x) \in Nat /\ {0} \in S
    OBVIOUS
  <1>2. \A b \in 1..Len(p), t \in S : Up(b, t) \in S
    BY DEF After
  <1>3. Matched(x, p) = V
    BY DEF Matched, After
  <1>4. \E f : f = [b \in 0..Len(p) |-> IF b = 0 THEN {0} ELSE Up(b, f[b - 1])]
    <2> HIDE DEF Up, S
    <2>1. PICK step : step = [b \in 1..Len(p) |-> [s \in S |-> Up(b, s)]]
      OBVIOUS
    <2>2. step \in [1..Len(p) -> [S -> S]]
      BY <1>2, <2>1
    <2>3. PICK f \in [0..Len(p) -> S] : Computes(f, Len(p), {0}, step)
      BY ONLY <1>1, <2>2, RecUp, Zenon
    <2>4. f[0] = {0} /\ \A b \in 1..Len(p) : f[b] = step[b][f[b - 1]]
      BY <2>3 DEF Computes
    <2>5. \A b \in 1..Len(p) : b - 1 \in 0..Len(p) /\ f[b - 1] \in S
      <3>1. \A b \in 1..Len(p) : b - 1 \in 0..Len(p)
        BY <1>1
      <3>2. QED
        BY <3>1
    <2>6. \A b \in 1..Len(p) : f[b] = Up(b, f[b - 1])
      BY <2>1, <2>4, <2>5
    <2>7. QED
      BY <1>1, <2>4, <2>6
  <1>5. V = [b \in 0..Len(p) |-> IF b = 0 THEN {0} ELSE Up(b, V[b - 1])]
    <2> HIDE DEF Up
    <2>1. QED
      BY <1>4
  <1> HIDE DEF V
  <1>6. V[0] = {0} /\ \A b \in 1..Len(p) : V[b] = Up(b, V[b - 1])
    <2> HIDE DEF Up, S
    <2>1. 0 \in 0..Len(p) /\ \A b \in 1..Len(p) : b \in 0..Len(p) /\ b # 0
      BY <1>1
    <2>2. QED
      BY <1>5, <2>1
  <1>7. V \in [0..Len(p) -> S]
    <2> HIDE DEF Up, S
    <2>1. V = [b \in 0..Len(p) |-> V[b]] /\ V[0] \in S
      BY <1>1, <1>5, <1>6
    <2>2. \A b \in 1..Len(p) : V[b - 1] \in S => V[b] \in S
      BY <1>2, <1>6
    <2>3. QED
      BY <1>1, <2>1, <2>2, RecTyped
  <1>8. QED
    BY <1>3, <1>6, <1>7

(* ahead[b]: where the first b bytes of p may have read x to if the others  *)
(* are to match what is left.                                              *)
IsAhead(ahead, x, p) ==
  /\ ahead \in [0..Len(p) -> SUBSET (0..Len(x))] /\ ahead[Len(p)] = {Len(x)}
  /\ \A b \in 1..Len(p) : ahead[b - 1] = Before(x, p[b], ahead[b])

Ahead(x, p) == CHOOSE ahead : IsAhead(ahead, x, p)

LEMMA AheadIs ==
  ASSUME NEW x \in Seq(Char), NEW p \in Seq(Char)
  PROVE  IsAhead(Ahead(x, p), x, p)
  <1> DEFINE S == SUBSET (0..Len(x))
             N == Len(p)
             Up(m, t) == Before(x, p[N - m + 1], t)
  <1>1. N \in Nat /\ Len(x) \in Nat /\ {Len(x)} \in S
    OBVIOUS
  <1>2. \A m \in 1..N, t \in S : Up(m, t) \in S
    BY DEF Before
  <1>3. PICK step : step = [m \in 1..N |-> [s \in S |-> Up(m, s)]]
    OBVIOUS
  <1> HIDE DEF Up, S, N
  <1>4. step \in [1..N -> [S -> S]]
    BY <1>2, <1>3
  <1>5. PICK g \in [0..N -> S] : Computes(g, N, {Len(x)}, step)
    BY ONLY <1>1, <1>4, RecUp, Zenon
  <1>6. g[0] = {Len(x)} /\ \A m \in 1..N : g[m] = step[m][g[m - 1]]
    BY <1>5 DEF Computes
  <1>7. \A m \in 1..N : g[m] = Up(m, g[m - 1])
    <2>1. \A m \in 1..N : m - 1 \in 0..N
      BY <1>1
    <2>2. \A m \in 1..N : g[m - 1] \in S
      BY <2>1
    <2>3. QED
      BY <1>3, <1>6, <2>2
  <1>8. PICK f : f = [b \in 0..N |-> g[N - b]]
    OBVIOUS
  <1>9. f \in [0..N -> S]
    <2>1. \A b \in 0..N : N - b \in 0..N
      BY <1>1
    <2>2. QED
      BY <2>1, <1>8
  <1>10. f[N] = {Len(x)}
    <2>1. N \in 0..N /\ N - N = 0
      BY <1>1
    <2>2. QED
      BY <2>1, <1>6, <1>8
  <1>11. ASSUME NEW b \in 1..N PROVE f[b - 1] = Before(x, p[b], f[b])
    <2>1. PICK m \in 1..N : m = N - b + 1 /\ m = N - (b - 1) /\ m - 1 = N - b
          /\ N - m + 1 = b
      <3>1. N - b + 1 \in 1..N
        BY <1>1
      <3>2. QED
        BY <3>1, <1>1
    <2>2. b - 1 \in 0..N /\ b \in 0..N
      BY <1>1
    <2>3. f[b - 1] = g[m] /\ f[b] = g[m - 1]
      BY <2>1, <2>2, <1>8
    <2>4. g[m] = Before(x, p[b], g[m - 1])
      BY <1>7, <2>1 DEF Up
    <2>5. QED
      BY <2>3, <2>4
  <1>12. IsAhead(f, x, p)
    BY <1>9, <1>10, <1>11 DEF IsAhead, S, N
  <1>13. QED
    BY <1>12 DEF Ahead

(* A match leads through places from which there is one.                   *)
LEMMA MatchIsAhead ==
  ASSUME NEW x \in Seq(Char), NEW p \in Seq(Char), Matches(x, p)
  PROVE  0 \in Ahead(x, p)[0]
  <1>1. PICK m, f : m = Matched(x, p) /\ f = Ahead(x, p)
    OBVIOUS
  <1>2. /\ m \in [0..Len(p) -> SUBSET (0..Len(x))] /\ m[0] = {0}
        /\ \A b \in 1..Len(p) : m[b] = After(x, p[b], m[b - 1])
        /\ f \in [0..Len(p) -> SUBSET (0..Len(x))] /\ f[Len(p)] = {Len(x)}
        /\ \A b \in 1..Len(p) : f[b - 1] = Before(x, p[b], f[b])
    BY <1>1, MatchedIs, AheadIs DEF IsAhead
  <1>3. Len(p) \in Nat /\ Len(x) \in Nat
    OBVIOUS
  <1>4. Len(x) \in m[Len(p)]
    BY <1>1 DEF Matches
  <1> DEFINE P == {d \in Nat : d <= Len(p) => \E a \in m[Len(p) - d] : a \in f[Len(p) - d]}
  <1>5. 0 \in P
    <2>1. Len(p) - 0 = Len(p)
      BY <1>3
    <2>2. QED
      BY <2>1, <1>2, <1>4
  <1>6. ASSUME NEW d \in P \cap Nat PROVE d + 1 \in P
    <2>1. SUFFICES ASSUME d + 1 <= Len(p)
                   PROVE  \E a \in m[Len(p) - (d + 1)] : a \in f[Len(p) - (d + 1)]
      OBVIOUS
    <2>2. PICK b \in 1..Len(p) : b = Len(p) - d /\ b - 1 = Len(p) - (d + 1)
          /\ b - 1 \in 0..Len(p)
      <3>1. Len(p) - d \in 1..Len(p)
        BY <2>1, <1>3
      <3>2. QED
        BY <3>1, <2>1, <1>3
    <2>3. PICK a \in m[b] : a \in f[b]
      BY <1>6, <2>1, <2>2, <1>3
    <2>4. a \in 0..Len(x) /\ a \in Int /\ m[b - 1] \in SUBSET (0..Len(x))
          /\ b \in 0..Len(p)
      <3>1. b \in 0..Len(p)
        BY <1>3
      <3>2. m[b] \in SUBSET (0..Len(x)) /\ m[b - 1] \in SUBSET (0..Len(x))
        BY <3>1, <2>2, <1>2
      <3>3. a \in 0..Len(x)
        BY <2>3, <3>2
      <3>4. QED
        BY <3>1, <3>2, <3>3, <1>3
    <2>5. /\ IF p[b] = PERCENT THEN \E c \in m[b - 1] : c <= a
             ELSE a - 1 \in m[b - 1] /\ x[a] = p[b]
      BY <2>3, <1>2 DEF After
    <2>6. \A c \in 0..Len(x) :
            (IF p[b] = PERCENT THEN \E e \in f[b] : c <= e ELSE c + 1 \in f[b] /\ x[c + 1] = p[b])
              => c \in f[b - 1]
      BY <1>2 DEF Before
    <2>7. CASE p[b] = PERCENT
      BY <2>2, <2>3, <2>4, <2>5, <2>6, <2>7
    <2>8. CASE p[b] # PERCENT
      <3>1. a - 1 \in m[b - 1] /\ x[a] = p[b]
        BY <2>5, <2>8
      <3>2. a - 1 \in 0..Len(x) /\ (a - 1) + 1 = a
        BY <3>1, <2>4
      <3>3. a - 1 \in f[b - 1]
        BY <3>1, <3>2, <2>3, <2>6, <2>8
      <3>4. QED
        BY <3>1, <3>3, <2>2
    <2>9. QED
      BY <2>7, <2>8
  <1>7. Nat \subseteq P
    <2> HIDE DEF P
    <2>1. QED
      BY <1>5, <1>6, NatInd
  <1>8. Len(p) \in P /\ Len(p) - Len(p) = 0
    BY <1>3, <1>7
  <1>9. QED
    BY <1>1, <1>2, <1>8

-----------------------------------------------------------------------------
(* mkLike is never further in the pattern than what it has matched: it has  *)
(* come to i and j by a match, and may begin again behind the last % from   *)
(* wherever it stands or may go back to.                                   *)
Reached(a, b) == a \in Matched(source, word)[b]

FromWild ==
  /\ mark # 0 /\ wild \in 2..Len(word) /\ word[wild - 1] = PERCENT /\ wild <= j
  /\ \E c \in Matched(source, word)[wild - 2] : c <= mark - 1 /\ c <= i - 1

LikeReached ==
  input.fn = "like" =>
    /\ pc = "like" =>
         /\ i <= Len(source) + 1 /\ j <= Len(word) + 1
         /\ mark <= Len(source) + 1 /\ (wild = 0 => mark = 0)
         /\ Reached(i - 1, j - 1)
         /\ wild # 0 => FromWild
    /\ pc = "done" => result \in BOOLEAN
       /\ (result = TRUE => Matches(source, word))

LEMMA ReachedOn ==
  ASSUME NEW x \in Seq(Char), NEW p \in Seq(Char), NEW b \in 1..Len(p)
  PROVE  /\ \A a \in 0..Len(x) : a \in Matched(x, p)[b] <=>
                IF p[b] = PERCENT THEN \E d \in Matched(x, p)[b - 1] : d <= a
                ELSE a - 1 \in Matched(x, p)[b - 1] /\ x[a] = p[b]
         /\ Matched(x, p)[b] \in SUBSET (0..Len(x))
            /\ Matched(x, p)[b - 1] \in SUBSET (0..Len(x))
  <1>1. Matched(x, p)[b] = After(x, p[b], Matched(x, p)[b - 1])
    BY MatchedIs
  <1>2. b \in 0..Len(p) /\ b - 1 \in 0..Len(p)
    OBVIOUS
  <1>3. Matched(x, p)[b] \in SUBSET (0..Len(x))
        /\ Matched(x, p)[b - 1] \in SUBSET (0..Len(x))
    BY <1>2, MatchedIs
  <1>4. QED
    BY <1>1, <1>3 DEF After

LEMMA LikeReachedKept ==
  ASSUME TypeOK, LikeReached, NoWild(source), Like, UNCHANGED input
  PROVE  LikeReached'
  <1>1. input.fn = "like" /\ pc = "like"
    BY Owner DEF Like, TextEnds, TextMatches, TextDiffers, Running
  <1>2. source \in Seq(Char) /\ word \in Seq(Char) /\ i \in Nat \ {0}
        /\ j \in Nat \ {0}
        /\ mark \in Nat /\ wild \in Nat
    BY CallTyped DEF TypeOK
  <1>3. PICK x \in Seq(Char), p \in Seq(Char), N \in Nat, L \in Nat :
          x = source /\ p = word /\ N = Len(x) /\ L = Len(p)
    BY <1>2
  <1>4. PICK M : M = Matched(x, p)
    OBVIOUS
  <1>5. /\ i \in 1..(N + 1) /\ j \in 1..(L + 1) /\ mark \in 0..(N + 1)
           /\ (wild = 0 => mark = 0)
        /\ i - 1 \in M[j - 1]
        /\ wild # 0 => /\ mark # 0 /\ wild \in 2..L /\ p[wild - 1] = PERCENT
           /\ wild <= j
                       /\ \E c \in M[wild - 2] : c <= mark - 1 /\ c <= i - 1
    BY <1>1, <1>2, <1>3, <1>4 DEF LikeReached, Reached, FromWild
  <1>6. /\ i \in 1..N => At(source, i) = x[i] /\ x[i] # PERCENT /\ x[i] # 0
        /\ i = N + 1 => At(source, i) = 0
    <2>1. i \in 1..N => x[i] \in Char /\ x[i] # PERCENT
      BY <1>3 DEF NoWild
    <2>2. \A c \in Char : c # 0
      BY DEF Char
    <2>3. i \in 1..N => At(source, i) = x[i]
      BY <1>3 DEF At
    <2>4. i = N + 1 => At(source, i) = 0
      BY <1>2, <1>3 DEF At
    <2>5. QED
      BY <2>1, <2>2, <2>3, <2>4
  <1>7. \A b \in Nat : (b \in 1..L => At(word, b) = p[b] /\ p[b] # 0)
        /\ (b \notin 1..L => At(word, b) = 0)
    <2>1. \A b \in 1..L : p[b] \in Char
      BY <1>3
    <2>2. \A c \in Char : c # 0
      BY DEF Char
    <2>3. QED
      BY <2>1, <2>2, <1>3 DEF At
  <1>8. /\ \A b \in 1..L : /\ \A a \in 0..N : a \in M[b] <=>
                                IF p[b] = PERCENT THEN \E d \in M[b - 1] : d <= a
                                ELSE a - 1 \in M[b - 1] /\ x[a] = p[b]
                           /\ M[b] \in SUBSET (0..N) /\ M[b - 1] \in SUBSET (0..N)
    <2>1. ASSUME NEW b \in 1..Len(p)
          PROVE  /\ \A a \in 0..N : a \in M[b] <=>
                       IF p[b] = PERCENT THEN \E d \in M[b - 1] : d <= a
                       ELSE a - 1 \in M[b - 1] /\ x[a] = p[b]
                 /\ M[b] \in SUBSET (0..N) /\ M[b - 1] \in SUBSET (0..N)
      BY <1>3, <1>4, ReachedOn
    <2>2. QED
      BY <2>1, <1>3
  <1>9. source' = source /\ word' = word /\ PERCENT # 0
    BY DEF source, word, PERCENT
  <1>10. Matches(source, word) <=> N \in M[L]
    BY <1>3, <1>4 DEF Matches
  <1>11. ASSUME pc' = "like", i' \in 1..(N + 1), j' \in 1..(L + 1),
                mark' \in 0..(N + 1),
                wild' = 0 => mark' = 0,
                i' - 1 \in M[j' - 1],
                wild' # 0 => /\ mark' # 0 /\ wild' \in 2..L
                /\ p[wild' - 1] = PERCENT /\ wild' <= j'
                             /\ \E c \in M[wild' - 2] : c <= mark' - 1
                                /\ c <= i' - 1
         PROVE  LikeReached'
    BY <1>3, <1>4, <1>9, <1>11 DEF LikeReached, Reached, FromWild
  <1>12. ASSUME pc' = "done", result' \in BOOLEAN, result' = TRUE => N \in M[L]
         PROVE  LikeReached'
    <2>1. Matches(source, word)' <=> N \in M[L]
      BY <1>9, <1>10 DEF Matches
    <2>2. QED
      BY <2>1, <1>12 DEF LikeReached
  <1>13. ASSUME wild # 0, NEW a \in 0..N, \E c \in M[wild - 2] : c <= a
         PROVE  a \in M[wild - 1]
    <2>1. PICK b \in 1..L : b = wild - 1 /\ b - 1 = wild - 2
      <3>1. wild - 1 \in 1..L /\ (wild - 1) - 1 = wild - 2
        BY <1>5, <1>13
      <3>2. QED
        BY <3>1
    <2>2. QED
      BY <2>1, <1>5, <1>8, <1>13
  <1>14. ASSUME NEW b \in 1..L, p[b] = PERCENT, NEW a \in M[b - 1]
         PROVE  a \in M[b]
    <2>1. a \in 0..N /\ a <= a
      <3>1. M[b - 1] \in SUBSET (0..N)
        BY <1>8
      <3>2. QED
        BY <1>14, <3>1
    <2>2. QED
      BY <2>1, <1>8, <1>14
  <1>15. CASE TextEnds
    <2>1. i = N + 1
      BY <1>5, <1>6, <1>15 DEF TextEnds
    <2>2. CASE At(word, j) = 0 /\ Return(TRUE)
      <3>1. j = L + 1
        BY <1>5, <1>7, <2>2
      <3>2. N \in M[L]
        BY <3>1, <2>1, <1>5
      <3>3. QED
        BY <3>2, <2>2, <1>12 DEF Return
    <2>3. CASE At(word, j) = PERCENT /\ j' = j + 1 /\ Stays /\ UNCHANGED <<i,
          mark, wild, n, block>>
      <3>1. j \in 1..L /\ p[j] = PERCENT
        BY <1>2, <1>7, <1>9, <2>3
      <3>2. i - 1 \in M[j]
        BY <3>1, <1>5, <1>14
      <3>3. j' - 1 = j
        BY <1>2, <2>3
      <3>4. QED
        BY <3>1, <3>2, <3>3, <2>3, <1>1, <1>5, <1>11 DEF Stays
    <2>4. CASE MayRetry /\ i' = mark /\ mark' = NextMark /\ j' = wild /\ Stays
               /\ UNCHANGED <<wild, n, block>>
      <3>1. mark # 0 /\ mark \in 1..N
        <4>1. mark # 0 /\ At(source, mark) # 0
          BY <2>4 DEF MayRetry
        <4>2. QED
          BY <4>1, <1>2, <1>3, AtIsByte
      <3>2. wild # 0 /\ i' = mark /\ j' = wild /\ mark' = mark + 1
            /\ wild' = wild /\ pc' = "like"
        BY <3>1, <2>4, <1>1, <1>5 DEF NextMark, Stays
      <3>3. PICK c \in M[wild - 2] : c <= mark - 1
        BY <3>2, <1>5
      <3>4. c \in Int
        <4>1. M[wild - 2] \in SUBSET (0..N)
          <5>1. PICK b \in 1..L : b - 1 = wild - 2
            <6>1. wild - 1 \in 1..L /\ (wild - 1) - 1 = wild - 2
              BY <1>5, <3>2
            <6>2. QED
              BY <6>1
          <5>2. QED
            BY <5>1, <1>8
        <4>2. QED
          BY <4>1, <3>3
      <3>5. mark - 1 \in 0..N /\ mark - 1 \in M[wild - 1]
        BY <3>1, <3>2, <3>3, <1>13
      <3>6. c <= mark' - 1 /\ c <= i' - 1
        BY <3>2, <3>3, <3>4, <1>2
      <3>7. i' \in 1..(N + 1) /\ j' \in 1..(L + 1) /\ mark' \in 0..(N + 1)
            /\ mark' # 0
        BY <3>1, <3>2, <1>5
      <3>8. QED
        BY <3>2, <3>3, <3>5, <3>6, <3>7, <1>5, <1>11
    <2>5. CASE Return(FALSE)
      BY <2>5, <1>12 DEF Return
    <2>6. QED
      BY <1>15, <2>2, <2>3, <2>4, <2>5 DEF TextEnds
  <1>16. CASE TextMatches
    <2>1. i \in 1..N /\ At(source, i) = At(word, j) /\ i' = i + 1 /\ j' = j + 1
          /\ pc' = "like"
          /\ mark' = mark /\ wild' = wild
      BY <1>1, <1>5, <1>6, <1>16 DEF TextMatches, Stays
    <2>2. j \in 1..L /\ p[j] = x[i] /\ p[j] # PERCENT
      BY <2>1, <1>2, <1>6, <1>7
    <2>3. i \in M[j]
      BY <2>1, <2>2, <1>5, <1>8
    <2>4. i' - 1 = i /\ j' - 1 = j /\ i' \in 1..(N + 1) /\ j' \in 1..(L + 1)
      BY <2>1, <2>2
    <2>5. wild # 0 => \E c \in M[wild - 2] : c <= mark - 1 /\ c <= i' - 1
      <3>1. SUFFICES ASSUME wild # 0
                     PROVE  \E c \in M[wild - 2] : c <= mark - 1 /\ c <= i' - 1
        OBVIOUS
      <3>2. PICK c \in M[wild - 2] : c <= mark - 1 /\ c <= i - 1
        BY <3>1, <1>5
      <3>3. c \in Int
        <4>1. M[wild - 2] \in SUBSET (0..N)
          <5>1. PICK b \in 1..L : b - 1 = wild - 2
            <6>1. wild - 1 \in 1..L /\ (wild - 1) - 1 = wild - 2
              BY <1>5, <3>1
            <6>2. QED
              BY <6>1
          <5>2. QED
            BY <5>1, <1>8
        <4>2. QED
          BY <4>1, <3>2
      <3>4. QED
        BY <3>2, <3>3, <2>1
    <2>6. wild # 0 => wild <= j'
      BY <2>1, <1>2, <1>5
    <2>7. QED
      BY <2>1, <2>3, <2>4, <2>5, <2>6, <1>5, <1>11
  <1>17. CASE TextDiffers
    <2>1. i \in 1..N /\ At(source, i) = x[i]
      BY <1>5, <1>6, <1>17 DEF TextDiffers
    <2>2. CASE At(word, j) = PERCENT
      <3>1. j \in 1..L /\ p[j] = PERCENT /\ j + 1 \in Nat
        BY <1>2, <1>7, <1>9, <2>2
      <3>2. CASE At(word, j + 1) = 0
        <4>1. j = L
          BY <3>1, <3>2, <1>7
        <4>2. N \in M[L]
          <5>1. i - 1 \in M[L - 1] /\ i - 1 <= N /\ p[L] = PERCENT /\ L \in 1..L
            BY <4>1, <3>1, <1>5, <2>1
          <5>2. QED
            BY <5>1, <1>8
        <4>3. Return(TRUE)
          BY <1>17, <2>2, <3>2 DEF TextDiffers
        <4>4. QED
          BY <4>2, <4>3, <1>12 DEF Return
      <3>3. CASE At(word, j + 1) # 0
        <4>1. wild' = j + 1 /\ mark' = i /\ j' = j + 1 /\ i' = i /\ pc' = "like"
          BY <1>1, <1>17, <2>2, <3>3 DEF TextDiffers, Stays
        <4>2. j + 1 \in 2..L
          BY <3>1, <3>3, <1>7
        <4>3. wild' - 2 = j - 1 /\ wild' - 1 = j /\ j' - 1 = j
              /\ i' - 1 = i - 1 /\ mark' - 1 = i - 1
          BY <4>1, <3>1, <2>1
        <4>4. i - 1 \in M[j] /\ i - 1 <= i - 1
          BY <3>1, <2>1, <1>5, <1>14
        <4>5. \E c \in M[wild' - 2] : c <= mark' - 1 /\ c <= i' - 1
          BY <4>3, <4>4, <1>5
        <4>6. QED
          BY <4>1, <4>2, <4>3, <4>4, <4>5, <3>1, <2>1, <1>5, <1>11
      <3>4. QED
        BY <3>2, <3>3
    <2>3. CASE At(word, j) # PERCENT /\ wild # 0
      <3>1. i' = i + 1 /\ j' = BackToWild /\ wild' = wild /\ mark' = mark
            /\ pc' = "like"
        BY <1>1, <1>17, <2>3 DEF TextDiffers, Stays
      <3>2. PICK c \in M[wild - 2] : c <= mark - 1 /\ c <= i - 1
        BY <2>3, <1>5
      <3>3. c \in Int
        <4>1. M[wild - 2] \in SUBSET (0..N)
          <5>1. PICK b \in 1..L : b - 1 = wild - 2
            <6>1. wild - 1 \in 1..L /\ (wild - 1) - 1 = wild - 2
              BY <1>5, <2>3
            <6>2. QED
              BY <6>1
          <5>2. QED
            BY <5>1, <1>8
        <4>2. QED
          BY <4>1, <3>2
      <3>4. i' - 1 = i /\ c <= i' - 1 /\ c <= i /\ i \in 0..N /\ i - 1 \in 0..N
        BY <3>1, <3>2, <3>3, <2>1
      <3>5. i \in M[wild - 1] /\ i - 1 \in M[wild - 1]
        BY <3>2, <3>4, <2>3, <1>13
      <3>6. wild \in 2..L /\ At(word, wild) = p[wild]
        BY <2>3, <1>5, <1>7
      <3>7. /\ i' - 1 \in M[j' - 1] /\ j' \in 1..(L + 1) /\ wild <= j'
        <4>1. CASE wild = j \/ At(source, i) # At(word, wild)
          <5>1. j' = wild
            BY <4>1, <3>1 DEF BackToWild
          <5>2. QED
            BY <5>1, <3>4, <3>5, <3>6
        <4>2. CASE ~(wild = j \/ At(source, i) # At(word, wild))
          <5>1. j' = wild + 1 /\ j' - 1 = wild /\ x[i] = p[wild]
            BY <4>2, <3>1, <3>6, <2>1 DEF BackToWild
          <5>2. p[wild] # PERCENT
            BY <5>1, <2>1, <1>6
          <5>3. i \in M[wild]
            BY <5>1, <5>2, <3>4, <3>5, <3>6, <1>8
          <5>4. QED
            BY <5>1, <5>3, <3>4, <3>6
        <4>3. QED
          BY <4>1, <4>2
      <3>8. QED
        BY <3>1, <3>2, <3>4, <3>7, <2>1, <2>3, <1>5, <1>11
    <2>4. CASE At(word, j) # PERCENT /\ wild = 0
      <3>1. Return(FALSE)
        BY <1>17, <2>4 DEF TextDiffers
      <3>2. QED
        BY <3>1, <1>12 DEF Return
    <2>5. QED
      BY <2>2, <2>3, <2>4
  <1>18. QED
    BY <1>15, <1>16, <1>17 DEF Like

-----------------------------------------------------------------------------
(* The bytes of p from w up to e, without e, stand in x behind its first k. *)
Stands(x, p, w, e, k) == \A m \in 0..(e - w - 1) : At(x, k + m + 1) = p[w + m]

NoneWild(p, w, e) == \A b \in w..(e - 1) : p[b] # PERCENT

(* Going on behind a byte that differed skips no occurrence of a stretch   *)
(* that cannot begin again inside itself.                                  *)
LEMMA NothingSkipped ==
  ASSUME NEW x \in Seq(Char), NEW p \in Seq(Char), NoFalseStart(p),
         NEW w \in 2..Len(p), p[w - 1] = PERCENT,
         NEW a \in w..(Len(p) + 1), NEW s \in Nat, NEW f \in Nat,
         f = s + (a - w) + 1,
         NoneWild(p, w, a), Stands(x, p, w, a, s),
         a <= Len(p) => At(x, f) # p[a] /\ p[a] # PERCENT,
         NEW e \in w..Len(p), p[e] = PERCENT, NoneWild(p, w, e),
         NEW k \in Nat, s <= k, k < f,
         k + 1 = f => w = a \/ At(x, f) # p[w]
  PROVE  ~Stands(x, p, w, e, k)
  <1>1. PICK L \in Nat : L = Len(p)
    OBVIOUS
  <1>2. e > a /\ a <= L
    <2>1. ~(e \in w..(a - 1))
      BY DEF NoneWild
    <2>2. e >= a
      BY <2>1, <1>1
    <2>3. QED
      BY <2>2, <1>1
  <1>3. SUFFICES ASSUME Stands(x, p, w, e, k) PROVE FALSE
    OBVIOUS
  <1>4. \A m \in 0..(e - w - 1) : At(x, k + m + 1) = p[w + m]
    BY <1>3 DEF Stands
  <1>5. \A m \in 0..(a - w - 1) : At(x, s + m + 1) = p[w + m]
    BY DEF Stands
  <1>6. At(x, k + 1) = p[w]
    <2>1. 0 \in 0..(e - w - 1)
      BY <1>1, <1>2
    <2>2. At(x, k + 0 + 1) = p[w + 0]
      BY <2>1, <1>4
    <2>3. k + 0 + 1 = k + 1 /\ w + 0 = w
      BY <1>1
    <2>4. QED
      BY <2>2, <2>3
  <1>7. CASE k = s
    <2>1. PICK m \in 0..(e - w - 1) : m = a - w
      <3>1. a - w \in 0..(e - w - 1)
        BY <1>1, <1>2
      <3>2. QED
        BY <3>1
    <2>2. k + m + 1 = f /\ w + m = a
      BY <2>1, <1>1, <1>7
    <2>3. At(x, f) = p[a]
      BY <2>1, <2>2, <1>4
    <2>4. QED
      BY <2>3, <1>1, <1>2
  <1>8. CASE s < k /\ k + 1 < f
    <2>1. PICK m \in 1..(a - w - 1) : k = s + m
      <3>1. k - s \in 1..(a - w - 1) /\ k = s + (k - s)
        BY <1>1, <1>8
      <3>2. QED
        BY <3>1
    <2>2. m \in 0..(a - w - 1) /\ k + 1 = s + m + 1
      BY <2>1, <1>1
    <2>3. At(x, k + 1) = p[w + m]
      BY <2>2, <1>5
    <2>4. PICK u \in 1..L, v \in 1..L, c \in Nat :
            u = w - 1 /\ v = e /\ c = w + m /\ u + 1 = w /\ c \in (u + 2)..(v - 2)
      <3>1. w - 1 \in 1..L /\ e \in 1..L /\ w + m \in ((w - 1) + 2)..(e - 2)
            /\ (w - 1) + 1 = w
            /\ w + m \in Nat
        BY <1>1, <1>2, <2>1
      <3>2. QED
        BY <3>1
    <2>5. \A d \in (u + 1)..(v - 1) : p[d] # PERCENT
      BY <2>4 DEF NoneWild
    <2>6. p[c] # p[u + 1]
      BY <1>1, <2>4, <2>5 DEF NoFalseStart
    <2>7. QED
      BY <2>3, <2>4, <2>6, <1>6
  <1>9. CASE s < k /\ k + 1 = f
    <2>1. w # a
      BY <1>9, <1>1
    <2>2. QED
      BY <2>1, <1>6, <1>9
  <1>10. k = s \/ (s < k /\ k + 1 < f) \/ (s < k /\ k + 1 = f)
    BY <1>1
  <1>11. QED
    BY <1>7, <1>8, <1>9, <1>10

(* A match that goes on from k has the next stretch of plain bytes there.  *)
LEMMA AheadStands ==
  ASSUME NEW x \in Seq(Char), NEW p \in Seq(Char), NEW w \in 1..Len(p),
         NEW e \in w..Len(p),
         NoneWild(p, w, e), NEW k \in Ahead(x, p)[w - 1]
  PROVE  k \in 0..Len(x) /\ Stands(x, p, w, e, k)
         /\ k + (e - w) \in Ahead(x, p)[e - 1]
  <1>1. PICK L \in Nat, N \in Nat, f \in {Ahead(x, p)} : L = Len(p)
        /\ N = Len(x) /\ f = Ahead(x, p)
    OBVIOUS
  <1>2. f \in [0..L -> SUBSET (0..N)]
        /\ \A b \in 1..L : f[b - 1] = Before(x, p[b], f[b])
    BY <1>1, AheadIs DEF IsAhead
  <1>3. k \in 0..N
    <2>1. w - 1 \in 0..L
      BY <1>1
    <2>2. QED
      BY <2>1, <1>1, <1>2
  <1> DEFINE P == {d \in Nat : d <= e - w =>
                     /\ k + d \in f[w - 1 + d]
                     /\ \A m \in 0..(d - 1) : At(x, k + m + 1) = p[w + m]}
  <1>4. 0 \in P
    <2>1. k + 0 = k /\ w - 1 + 0 = w - 1
      BY <1>1, <1>3
    <2>2. QED
      BY <2>1, <1>1
  <1>5. ASSUME NEW d \in P \cap Nat PROVE d + 1 \in P
    <2>1. SUFFICES ASSUME d + 1 <= e - w
                   PROVE  /\ k + (d + 1) \in f[w - 1 + (d + 1)]
                          /\ \A m \in 0..((d + 1) - 1) : At(x, k + m + 1) = p[w + m]
      OBVIOUS
    <2>2. k + d \in f[w - 1 + d]
          /\ \A m \in 0..(d - 1) : At(x, k + m + 1) = p[w + m]
      BY <1>5, <2>1, <1>1
    <2>3. PICK b \in 1..L : b = w + d /\ b - 1 = w - 1 + d
          /\ b = w - 1 + (d + 1) /\ b \in w..(e - 1)
      <3>1. w + d \in 1..L /\ w + d \in w..(e - 1)
        BY <2>1, <1>1
      <3>2. QED
        BY <3>1, <1>1
    <2>4. p[b] # PERCENT
      BY <2>3 DEF NoneWild
    <2>5. (k + d) + 1 \in f[b] /\ x[(k + d) + 1] = p[b] /\ k + d \in 0..N
      BY <2>2, <2>3, <2>4, <1>1, <1>2 DEF Before
    <2>6. (k + d) + 1 \in 1..N
      <3>1. b \in 0..L
        BY <2>3
      <3>2. (k + d) + 1 \in 0..N
        BY <2>5, <3>1, <1>2
      <3>3. QED
        BY <3>2, <2>5, <1>1
    <2>7. At(x, k + d + 1) = p[w + d]
      <3>1. (k + d) + 1 = k + d + 1
        BY <1>3
      <3>2. QED
        BY <3>1, <2>3, <2>5, <2>6, <1>1 DEF At
    <2>8. ASSUME NEW m \in 0..((d + 1) - 1) PROVE At(x, k + m + 1) = p[w + m]
      <3>1. m \in 0..(d - 1) \/ m = d
        OBVIOUS
      <3>2. QED
        BY <3>1, <2>2, <2>7
    <2>9. k + (d + 1) = (k + d) + 1
      BY <1>3
    <2>10. QED
      BY <2>3, <2>5, <2>8, <2>9
  <1>6. Nat \subseteq P
    <2> HIDE DEF P
    <2>1. QED
      BY <1>4, <1>5, NatInd
  <1>7. PICK d \in Nat : d = e - w
    <2>1. e - w \in Nat
      BY <1>1
    <2>2. QED
      BY <2>1
  <1>8. k + d \in f[w - 1 + d]
        /\ \A m \in 0..(d - 1) : At(x, k + m + 1) = p[w + m]
    <2>1. d \in P
      <3> HIDE DEF P
      <3>1. QED
        BY <1>6
    <2>2. d <= e - w
      BY <1>7
    <2>3. QED
      BY <2>1, <2>2
  <1>9. w - 1 + d = e - 1
    BY <1>1, <1>7
  <1>10. QED
    BY <1>1, <1>3, <1>7, <1>8, <1>9 DEF Stands

-----------------------------------------------------------------------------
(* While a byte is left to read: what has been matched since the last %    *)
(* begins behind `Start' bytes, and the next stretch of plain bytes begins *)
(* nowhere between where that % was, or where mkLike went back to, and there*)
Start == i - 1 - (j - wild)

Leftmost ==
  wild # 0 /\ i <= Len(source) =>
    /\ Start \in Nat /\ NoneWild(word, wild, j)
       /\ Stands(source, word, wild, j, Start)
    /\ \A e \in wild..Len(word), k \in Nat :
         word[e] = PERCENT /\ NoneWild(word, wild, e) /\ mark - 1 <= k
         /\ k < Start
           => ~Stands(source, word, wild, e, k)

(* If there is a match, there is one from where mkLike stands, or from     *)
(* behind the last % with more of the text under it.                       *)
StillMatches ==
  0 \in Ahead(source, word)[0] =>
    \/ i - 1 \in Ahead(source, word)[j - 1]
    \/ wild # 0 /\ \E k \in Ahead(source, word)[wild - 1] : mark - 1 <= k

LikeMissesNone ==
  input.fn = "like" =>
    /\ pc = "like" => Leftmost /\ StillMatches
    /\ pc = "done" => (result = FALSE => 0 \notin Ahead(source, word)[0])

LEMMA AheadOn ==
  ASSUME NEW x \in Seq(Char), NEW p \in Seq(Char)
  PROVE  /\ \A b \in 1..Len(p), a \in 0..Len(x) :
              a \in Ahead(x, p)[b - 1] <=>
                IF p[b] = PERCENT THEN \E d \in Ahead(x, p)[b] : a <= d
                ELSE a + 1 \in Ahead(x, p)[b] /\ x[a + 1] = p[b]
         /\ \A b \in 0..Len(p) : Ahead(x, p)[b] \in SUBSET (0..Len(x))
         /\ Ahead(x, p)[Len(p)] = {Len(x)}
  <1>1. PICK f : f = Ahead(x, p)
    OBVIOUS
  <1>2. /\ f \in [0..Len(p) -> SUBSET (0..Len(x))] /\ f[Len(p)] = {Len(x)}
        /\ \A b \in 1..Len(p) : f[b - 1] = Before(x, p[b], f[b])
    BY <1>1, AheadIs DEF IsAhead
  <1>3. QED
    BY <1>1, <1>2 DEF Before

(* Nothing is left to match at the end of the text but wildcards.          *)
LEMMA OnlyWildAtEnd ==
  ASSUME NEW x \in Seq(Char), NEW p \in Seq(Char), NEW w \in 1..Len(p),
         NEW b \in w..Len(p),
         Len(x) \in Ahead(x, p)[w - 1]
  PROVE  p[b] = PERCENT
  <1>1. PICK L \in Nat, N \in Nat, f \in {Ahead(x, p)} : L = Len(p)
        /\ N = Len(x) /\ f = Ahead(x, p)
    OBVIOUS
  <1>2. /\ \A c \in 1..L, a \in 0..N :
             a \in f[c - 1] <=> IF p[c] = PERCENT THEN \E d \in f[c] : a <= d
                                ELSE a + 1 \in f[c] /\ x[a + 1] = p[c]
        /\ \A c \in 0..L : f[c] \in SUBSET (0..N)
    <2>1. \A c \in 1..Len(p), a \in 0..Len(x) :
             a \in f[c - 1] <=> IF p[c] = PERCENT THEN \E d \in f[c] : a <= d
                                ELSE a + 1 \in f[c] /\ x[a + 1] = p[c]
      BY <1>1, AheadOn
    <2>2. \A c \in 0..Len(p) : f[c] \in SUBSET (0..Len(x))
      BY <1>1, AheadOn
    <2>3. QED
      BY <1>1, <2>1, <2>2
  <1>3. ASSUME NEW c \in 1..L, N \in f[c - 1]
        PROVE  p[c] = PERCENT /\ N \in f[c]
    <2>1. f[c] \in SUBSET (0..N) /\ N \in 0..N
      BY <1>2
    <2>2. N + 1 \notin f[c]
      BY <2>1
    <2>3. p[c] = PERCENT /\ \E d \in f[c] : N <= d
      BY <1>2, <1>3, <2>1, <2>2
    <2>4. \A d \in f[c] : N <= d => d = N
      BY <2>1
    <2>5. QED
      BY <2>3, <2>4
  <1> DEFINE P == {d \in Nat : w + d <= L => N \in f[w - 1 + d]}
  <1>4. 0 \in P
    <2>1. w - 1 + 0 = w - 1
      BY <1>1
    <2>2. QED
      BY <2>1, <1>1
  <1>5. ASSUME NEW d \in P \cap Nat PROVE d + 1 \in P
    <2>1. SUFFICES ASSUME w + (d + 1) <= L PROVE N \in f[w - 1 + (d + 1)]
      OBVIOUS
    <2>2. PICK c \in 1..L : c = w + d /\ c - 1 = w - 1 + d /\ c = w - 1 + (d + 1)
      <3>1. w + d \in 1..L
        BY <2>1, <1>1
      <3>2. QED
        BY <3>1, <1>1
    <2>3. N \in f[c - 1]
      BY <1>5, <2>1, <2>2, <1>1
    <2>4. QED
      BY <2>2, <2>3, <1>3
  <1>6. Nat \subseteq P
    <2> HIDE DEF P
    <2>1. QED
      BY <1>4, <1>5, NatInd
  <1>7. PICK d \in Nat : d = b - w
    <2>1. b - w \in Nat
      BY <1>1
    <2>2. QED
      BY <2>1
  <1>8. w + d <= L /\ w - 1 + d = b - 1 /\ b \in 1..L
    BY <1>1, <1>7
  <1>9. d \in P
    <2> HIDE DEF P
    <2>1. QED
      BY <1>6
  <1>10. N \in f[b - 1]
    BY <1>8, <1>9
  <1>11. QED
    BY <1>3, <1>8, <1>10

(* The stretch matched last ends no later than in any other match: one that*)
(* begins from behind the last % or later goes on from here or later.      *)
LEMMA EndsFirst ==
  ASSUME NEW x \in Seq(Char), NEW p \in Seq(Char), NEW w \in 1..Len(p),
         NEW e \in w..Len(p),
         p[e] = PERCENT, NoneWild(p, w, e), NEW s \in Nat, NEW h \in Nat,
         h = s + (e - w),
         NEW k \in Ahead(x, p)[w - 1], k < s => ~Stands(x, p, w, e, k)
  PROVE  \E d \in Ahead(x, p)[e] : h <= d
  <1>1. PICK L \in Nat, N \in Nat, f \in {Ahead(x, p)} : L = Len(p)
        /\ N = Len(x) /\ f = Ahead(x, p)
    OBVIOUS
  <1>2. k \in 0..N /\ Stands(x, p, w, e, k) /\ k + (e - w) \in f[e - 1]
    BY <1>1, AheadStands
  <1>3. e \in 1..L
    BY <1>1
  <1>4. e \in 0..L /\ e - 1 \in 0..L
    BY <1>1, <1>3
  <1>5. f[e - 1] \in SUBSET (0..N) /\ f[e] \in SUBSET (0..N)
    BY <1>1, <1>4, AheadOn
  <1>6. PICK a \in 0..N : a = k + (e - w) /\ a \in f[e - 1]
    BY <1>2, <1>5
  <1>7. PICK d \in f[e] : a <= d
    BY <1>1, <1>3, <1>6, AheadOn
  <1>8. s <= k /\ d \in Int /\ h <= a
    <2>1. s <= k
      BY <1>2
    <2>2. d \in Int
      BY <1>5, <1>7
    <2>3. QED
      BY <1>1, <1>2, <1>6, <2>1, <2>2
  <1>9. h <= d
    BY <1>6, <1>7, <1>8
  <1>10. QED
    BY <1>1, <1>9

LEMMA LikeMissesNoneKept ==
  ASSUME TypeOK, LikeReached, LikeMissesNone, NoWild(source),
         NoFalseStart(word), Like,
         UNCHANGED input
  PROVE  LikeMissesNone'
  <1>1. input.fn = "like" /\ pc = "like"
    BY Owner DEF Like, TextEnds, TextMatches, TextDiffers, Running
  <1>2. source \in Seq(Char) /\ word \in Seq(Char) /\ i \in Nat \ {0}
        /\ j \in Nat \ {0}
        /\ mark \in Nat /\ wild \in Nat
    BY CallTyped DEF TypeOK
  <1>3. PICK x \in Seq(Char), p \in Seq(Char), N \in Nat, L \in Nat :
          x = source /\ p = word /\ N = Len(x) /\ L = Len(p)
    BY <1>2
  <1>4. PICK f : f = Ahead(x, p)
    OBVIOUS
  <1>5. /\ i \in 1..(N + 1) /\ j \in 1..(L + 1) /\ mark \in 0..(N + 1)
           /\ (wild = 0 => mark = 0)
        /\ wild # 0 => mark # 0 /\ wild \in 2..L /\ p[wild - 1] = PERCENT
           /\ wild <= j
    BY <1>1, <1>2, <1>3 DEF LikeReached, FromWild
  <1>6. /\ i \in 1..N => At(source, i) = x[i] /\ x[i] # PERCENT /\ x[i] # 0
        /\ i = N + 1 => At(source, i) = 0
    <2>1. i \in 1..N => x[i] \in Char /\ x[i] # PERCENT
      BY <1>3 DEF NoWild
    <2>2. \A c \in Char : c # 0
      BY DEF Char
    <2>3. i \in 1..N => At(source, i) = x[i]
      BY <1>3 DEF At
    <2>4. i = N + 1 => At(source, i) = 0
      BY <1>2, <1>3 DEF At
    <2>5. QED
      BY <2>1, <2>2, <2>3, <2>4
  <1>7. \A b \in Nat : (b \in 1..L => At(word, b) = p[b] /\ p[b] # 0)
        /\ (b \notin 1..L => At(word, b) = 0)
    <2>1. \A b \in 1..L : p[b] \in Char
      BY <1>3
    <2>2. \A c \in Char : c # 0
      BY DEF Char
    <2>3. QED
      BY <2>1, <2>2, <1>3 DEF At
  <1>8. /\ \A b \in 1..L, a \in 0..N :
             a \in f[b - 1] <=> IF p[b] = PERCENT THEN \E d \in f[b] : a <= d
                                ELSE a + 1 \in f[b] /\ x[a + 1] = p[b]
        /\ \A b \in 0..L : f[b] \in SUBSET (0..N)
        /\ f[L] = {N}
    <2>1. \A b \in 1..Len(p), a \in 0..Len(x) :
             a \in f[b - 1] <=> IF p[b] = PERCENT THEN \E d \in f[b] : a <= d
                                ELSE a + 1 \in f[b] /\ x[a + 1] = p[b]
      BY <1>4, AheadOn
    <2>2. \A b \in 0..Len(p) : f[b] \in SUBSET (0..Len(x))
      BY <1>4, AheadOn
    <2>3. f[Len(p)] = {Len(x)}
      BY <1>4, AheadOn
    <2>4. QED
      BY <1>3, <2>1, <2>2, <2>3
  <1>9. source' = source /\ word' = word /\ PERCENT # 0
    BY DEF source, word, PERCENT
  <1>10. PICK s : s = Start
    OBVIOUS
  <1>11. wild # 0 /\ i <= N =>
           /\ s \in Nat /\ i = s + (j - wild) + 1 /\ NoneWild(p, wild, j)
              /\ Stands(x, p, wild, j, s)
           /\ \A e \in wild..L, k \in Nat :
                p[e] = PERCENT /\ NoneWild(p, wild, e) /\ mark - 1 <= k /\ k < s
                  => ~Stands(x, p, wild, e, k)
    <2>1. Leftmost
      BY <1>1 DEF LikeMissesNone
    <2>2. wild # 0 /\ i <= N =>
            /\ s \in Nat /\ NoneWild(p, wild, j) /\ Stands(x, p, wild, j, s)
            /\ \A e \in wild..L, k \in Nat :
                 p[e] = PERCENT /\ NoneWild(p, wild, e) /\ mark - 1 <= k /\ k < s
                   => ~Stands(x, p, wild, e, k)
      BY <2>1, <1>3, <1>10 DEF Leftmost
    <2>3. s = i - 1 - (j - wild) => i = s + (j - wild) + 1
      BY <1>2
    <2>4. QED
      BY <2>2, <2>3, <1>10 DEF Start
  <1>12. 0 \in f[0] => i - 1 \in f[j - 1]
         \/ (wild # 0 /\ \E k \in f[wild - 1] : mark - 1 <= k)
    BY <1>1, <1>3, <1>4 DEF LikeMissesNone, StillMatches
  <1>13. ASSUME pc' = "done", result' = FALSE => 0 \notin f[0]
         PROVE  LikeMissesNone'
    BY <1>3, <1>4, <1>9, <1>13 DEF LikeMissesNone
  <1>14. ASSUME pc' = "like",
                0 \in f[0] => i' - 1 \in f[j' - 1]
                \/ (wild' # 0 /\ \E k \in f[wild' - 1] : mark' - 1 <= k),
                wild' # 0 /\ i' <= N =>
                  \E t \in Nat :
                    /\ t = i' - 1 - (j' - wild') /\ NoneWild(p, wild', j')
                       /\ Stands(x, p, wild', j', t)
                    /\ \A e \in wild'..L, k \in Nat :
                         p[e] = PERCENT /\ NoneWild(p, wild', e)
                         /\ mark' - 1 <= k /\ k < t
                           => ~Stands(x, p, wild', e, k)
         PROVE  LikeMissesNone'
    <2>1. StillMatches'
      BY <1>3, <1>4, <1>9, <1>14 DEF StillMatches
    <2>2. NoneWild(word, wild, j)' = NoneWild(p, wild', j')
          /\ (\A t : Stands(source, word, wild, j, t)' = Stands(x, p, wild', j', t))
          /\ (\A e, k : Stands(source, word, wild, e, k)' = Stands(x, p, wild', e, k))
          /\ (\A e : NoneWild(word, wild, e)' = NoneWild(p, wild', e))
      BY <1>3, <1>9 DEF NoneWild, Stands, At
    <2>3. Leftmost'
      <3>1. SUFFICES ASSUME wild' # 0, i' <= N
                     PROVE  /\ Start' \in Nat /\ NoneWild(p, wild', j')
                               /\ Stands(x, p, wild', j', Start')
                            /\ \A e \in wild'..L, k \in Nat :
                                 p[e] = PERCENT /\ NoneWild(p, wild', e)
                                 /\ mark' - 1 <= k /\ k < Start'
                                   => ~Stands(x, p, wild', e, k)
        BY <1>3, <1>9 DEF Leftmost, NoneWild, Stands, At
      <3>2. QED
        BY <3>1, <1>14 DEF Start
    <2>4. QED
      BY <2>1, <2>3, <1>14 DEF LikeMissesNone
  <1>15. ASSUME wild # 0
         PROVE  /\ wild \in 1..L /\ wild - 1 \in 0..L
                   /\ f[wild - 1] \in SUBSET (0..N)
                /\ wild - wild = 0 /\ NoneWild(p, wild, wild)
                   /\ \A t : Stands(x, p, wild, wild, t)
    <2>1. wild \in 1..L /\ wild - 1 \in 0..L
      BY <1>5, <1>15
    <2>2. wild..(wild - 1) = {} /\ 0..(wild - wild - 1) = {} /\ wild - wild = 0
      BY <1>2
    <2>3. QED
      BY <2>1, <2>2, <1>8 DEF NoneWild, Stands
  <1>16. CASE TextEnds
    <2>1. i = N + 1 /\ i - 1 = N
      BY <1>5, <1>6, <1>16 DEF TextEnds
    <2>2. CASE At(word, j) = 0 /\ Return(TRUE)
      BY <2>2, <1>13 DEF Return
    <2>3. CASE At(word, j) = PERCENT /\ j' = j + 1 /\ Stays /\ UNCHANGED <<i,
          mark, wild, n, block>>
      <3>1. j \in 1..L /\ p[j] = PERCENT /\ j' - 1 = j /\ i' = i
            /\ wild' = wild /\ mark' = mark
            /\ pc' = "like"
        BY <1>1, <1>2, <1>7, <1>9, <2>3 DEF Stays
      <3>2. i - 1 \in f[j - 1] => i - 1 \in f[j]
        <4>1. SUFFICES ASSUME N \in f[j - 1] PROVE N \in f[j]
          BY <2>1
        <4>2. PICK d \in f[j] : N <= d
          BY <3>1, <4>1, <1>8
        <4>3. d \in 0..N
          <5>1. j \in 0..L
            BY <3>1
          <5>2. QED
            BY <5>1, <1>8
        <4>4. QED
          BY <4>2, <4>3
      <3>3. ~(i' <= N)
        BY <3>1, <2>1
      <3>4. QED
        BY <3>1, <3>2, <3>3, <1>12, <1>14
    <2>4. CASE MayRetry /\ i' = mark /\ mark' = NextMark /\ j' = wild /\ Stays
               /\ UNCHANGED <<wild, n, block>> /\ At(word, j) \notin {0, PERCENT}
      <3>1. mark # 0 /\ wild # 0 /\ i' = mark /\ mark' = mark + 1 /\ j' = wild
            /\ wild' = wild
            /\ pc' = "like"
        BY <2>4, <1>1, <1>5 DEF MayRetry, NextMark, Stays
      <3>2. j \in 1..L /\ p[j] # PERCENT
        BY <2>4, <1>2, <1>7
      <3>3. i - 1 \notin f[j - 1]
        <4>1. j \in 0..L
          BY <3>2
        <4>2. N + 1 \notin f[j]
          BY <4>1, <1>8
        <4>3. N \in 0..N
          OBVIOUS
        <4>4. QED
          BY <4>2, <4>3, <3>2, <2>1, <1>8
      <3>4. 0 \in f[0] => i' - 1 \in f[j' - 1]
            \/ (wild' # 0 /\ \E k \in f[wild' - 1] : mark' - 1 <= k)
        <4>1. SUFFICES ASSUME 0 \in f[0]
                       PROVE  mark - 1 \in f[wild - 1]
                              \/ \E k \in f[wild - 1] : (mark + 1) - 1 <= k
          BY <3>1
        <4>2. PICK k \in f[wild - 1] : mark - 1 <= k
          BY <4>1, <3>3, <1>12
        <4>3. k \in 0..N
          BY <3>1, <1>15
        <4>4. k = mark - 1 \/ (mark + 1) - 1 <= k
          BY <4>2, <4>3, <1>2
        <4>5. QED
          BY <4>2, <4>4
      <3>5. \E t \in Nat :
              /\ t = i' - 1 - (j' - wild') /\ NoneWild(p, wild', j')
                 /\ Stands(x, p, wild', j', t)
              /\ \A e \in wild'..L, k \in Nat :
                   p[e] = PERCENT /\ NoneWild(p, wild', e) /\ mark' - 1 <= k
                   /\ k < t
                     => ~Stands(x, p, wild', e, k)
        <4>1. mark - 1 \in Nat /\ mark - 1 = i' - 1 - (j' - wild')
          <5>1. mark - 1 \in Nat
            BY <3>1, <1>2
          <5>2. j' - wild' = 0 /\ i' = mark
            BY <3>1, <1>15
          <5>3. mark - 1 = mark - 1 - 0
            BY <1>2
          <5>4. QED
            BY <5>1, <5>2, <5>3
        <4>2. \A k \in Nat : ~(mark' - 1 <= k /\ k < mark - 1)
          BY <3>1, <1>2
        <4>3. QED
          BY <3>1, <4>1, <4>2, <1>15
      <3>6. QED
        BY <3>1, <3>4, <3>5, <1>14
    <2>5. CASE At(word, j) \notin {0, PERCENT} /\ ~MayRetry /\ Return(FALSE)
      <3>1. j \in 1..L /\ p[j] # PERCENT
        BY <2>5, <1>2, <1>7
      <3>2. i - 1 \notin f[j - 1]
        <4>1. j \in 0..L
          BY <3>1
        <4>2. N + 1 \notin f[j]
          BY <4>1, <1>8
        <4>3. N \in 0..N
          OBVIOUS
        <4>4. QED
          BY <4>2, <4>3, <3>1, <2>1, <1>8
      <3>3. ASSUME 0 \in f[0] PROVE FALSE
        <4>1. wild # 0 /\ mark # 0
          BY <3>2, <3>3, <1>5, <1>12
        <4>2. mark = N + 1
          <5>1. At(source, mark) = 0
            BY <2>5, <4>1 DEF MayRetry
          <5>2. mark \notin 1..N
            BY <5>1, <1>2, <1>3, AtIsByte
          <5>3. QED
            BY <5>2, <4>1, <1>5
        <4>3. PICK k \in f[wild - 1] : mark - 1 <= k
          BY <3>2, <3>3, <1>12
        <4>4. k = N
          <5>1. k \in 0..N
            BY <4>1, <1>15
          <5>2. QED
            BY <5>1, <4>2, <4>3
        <4>5. PICK b \in 1..L : b = wild
          BY <4>1, <1>15
        <4>6. N \in f[b - 1] /\ j \in b..L
          BY <4>3, <4>4, <4>5, <4>1, <3>1, <1>5
        <4>7. p[j] = PERCENT
          BY <4>6, <1>3, <1>4, OnlyWildAtEnd
        <4>8. QED
          BY <4>7, <3>1
      <3>4. QED
        BY <3>3, <2>5, <1>13 DEF Return
    <2>6. QED
      BY <1>16, <2>2, <2>3, <2>4, <2>5 DEF TextEnds
  <1>17. CASE TextMatches
    <2>1. i \in 1..N /\ At(source, i) = At(word, j) /\ i' = i + 1 /\ j' = j + 1
          /\ pc' = "like"
          /\ mark' = mark /\ wild' = wild
      BY <1>1, <1>5, <1>6, <1>17 DEF TextMatches, Stays
    <2>2. j \in 1..L /\ p[j] = x[i] /\ p[j] # PERCENT
      BY <2>1, <1>2, <1>6, <1>7
    <2>3. i' - 1 = i /\ j' - 1 = j /\ (i - 1) + 1 = i /\ i - 1 \in 0..N
      <3>1. (i + 1) - 1 = i /\ (j + 1) - 1 = j /\ (i - 1) + 1 = i
        BY <1>2
      <3>2. i - 1 \in 0..N
        BY <2>1
      <3>3. QED
        BY <3>1, <3>2, <2>1
    <2>4. i - 1 \in f[j - 1] => i \in f[j]
      BY <2>2, <2>3, <1>8
    <2>5. ASSUME wild' # 0, i' <= N
          PROVE  /\ s \in Nat
                 /\ s = i' - 1 - (j' - wild') /\ NoneWild(p, wild', j')
                    /\ Stands(x, p, wild', j', s)
                 /\ \A e \in wild'..L, k \in Nat :
                      p[e] = PERCENT /\ NoneWild(p, wild', e) /\ mark' - 1 <= k
                      /\ k < s
                        => ~Stands(x, p, wild', e, k)
      <3>1. /\ s \in Nat /\ i = s + (j - wild) + 1 /\ NoneWild(p, wild, j)
               /\ Stands(x, p, wild, j, s)
            /\ \A e \in wild..L, k \in Nat :
                 p[e] = PERCENT /\ NoneWild(p, wild, e) /\ mark - 1 <= k /\ k < s
                   => ~Stands(x, p, wild, e, k)
        BY <2>1, <2>5, <1>11
      <3>2. s = i' - 1 - (j' - wild')
        BY <2>1, <3>1, <1>2
      <3>3. NoneWild(p, wild, j + 1)
        <4>1. \A b \in wild..((j + 1) - 1) : b \in wild..(j - 1) \/ b = j
          BY <1>2
        <4>2. QED
          BY <4>1, <3>1, <2>2 DEF NoneWild
      <3>4. Stands(x, p, wild, j + 1, s)
        <4>1. \A m \in 0..((j + 1) - wild - 1) : m \in 0..(j - wild - 1)
              \/ m = j - wild
          BY <1>2
        <4>2. s + (j - wild) + 1 = i /\ wild + (j - wild) = j /\ At(x, i) = p[j]
          BY <3>1, <2>1, <2>2, <1>2, <1>3 DEF At
        <4>3. QED
          BY <4>1, <4>2, <3>1 DEF Stands
      <3>5. QED
        BY <3>1, <3>2, <3>3, <3>4, <2>1
    <2>6. QED
      BY <2>1, <2>3, <2>4, <2>5, <1>12, <1>14
  <1>18. CASE TextDiffers
    <2>1. i \in 1..N /\ At(source, i) = x[i] /\ At(source, i) # At(word, j)
          /\ i <= N
      BY <1>5, <1>6, <1>18 DEF TextDiffers
    <2>2. CASE At(word, j) = PERCENT
      <3>1. j \in 1..L /\ p[j] = PERCENT /\ j + 1 \in Nat
        BY <1>2, <1>7, <1>9, <2>2
      <3>2. CASE At(word, j + 1) = 0
        BY <1>18, <2>2, <3>2, <1>13 DEF TextDiffers, Return
      <3>3. CASE At(word, j + 1) # 0
        <4>1. wild' = j + 1 /\ mark' = i /\ j' = j + 1 /\ i' = i /\ pc' = "like"
          BY <1>1, <1>18, <2>2, <3>3 DEF TextDiffers, Stays
        <4>2. wild' - 1 = j /\ mark' - 1 = i - 1 /\ i - 1 \in Nat /\ wild' # 0
              /\ i - 1 \in 0..N
          BY <4>1, <3>1, <2>1
        <4>3. ASSUME 0 \in f[0] PROVE \E k \in f[j] : i - 1 <= k
          <5>1. CASE i - 1 \in f[j - 1]
            BY <5>1, <4>2, <3>1, <1>8
          <5>2. CASE i - 1 \notin f[j - 1]
            <6>1. wild # 0
              BY <5>2, <4>3, <1>12
            <6>2. PICK k \in f[wild - 1] : mark - 1 <= k
              BY <5>2, <4>3, <1>12
            <6>3. /\ s \in Nat /\ i = s + (j - wild) + 1 /\ NoneWild(p, wild, j)
                  /\ \A e \in wild..L, c \in Nat :
                       p[e] = PERCENT /\ NoneWild(p, wild, e) /\ mark - 1 <= c
                       /\ c < s
                         => ~Stands(x, p, wild, e, c)
              BY <6>1, <2>1, <1>11
            <6>4. PICK w \in 1..L, h \in Nat, t \in Nat : w = wild /\ h = i - 1
                  /\ t = s
              BY <6>1, <6>3, <4>2, <1>15
            <6>5. j \in w..L /\ h = t + (j - w)
              BY <6>4, <6>1, <6>3, <3>1, <1>2, <1>5
            <6>6. k \in Nat
              BY <6>1, <1>15
            <6>7. k < t => ~Stands(x, p, w, j, k)
              BY <6>2, <6>3, <6>4, <6>5, <6>6, <3>1
            <6>8. k \in f[w - 1] /\ NoneWild(p, w, j)
              BY <6>2, <6>3, <6>4
            <6>9. \E d \in f[j] : h <= d
              BY <6>5, <6>7, <6>8, <3>1, <1>3, <1>4, EndsFirst
            <6>10. QED
              BY <6>4, <6>9
          <5>3. QED
            BY <5>1, <5>2
        <4>4. \E t \in Nat :
                /\ t = i' - 1 - (j' - wild') /\ NoneWild(p, wild', j')
                   /\ Stands(x, p, wild', j', t)
                /\ \A e \in wild'..L, k \in Nat :
                     p[e] = PERCENT /\ NoneWild(p, wild', e) /\ mark' - 1 <= k
                     /\ k < t
                       => ~Stands(x, p, wild', e, k)
          <5>1. i - 1 = i' - 1 - (j' - wild')
            BY <4>1, <3>1, <2>1
          <5>2. wild'..(j' - 1) = {} /\ 0..(j' - wild' - 1) = {}
            BY <4>1, <3>1
          <5>3. \A k \in Nat : ~(mark' - 1 <= k /\ k < i - 1)
            BY <4>2
          <5>4. QED
            BY <4>2, <5>1, <5>2, <5>3 DEF NoneWild, Stands
        <4>5. QED
          BY <4>1, <4>2, <4>3, <4>4, <1>14
      <3>4. QED
        BY <3>2, <3>3
    <2>3. ASSUME At(word, j) # PERCENT
          PROVE  /\ j \in 1..L => p[j] # PERCENT /\ x[i] # p[j]
                 /\ i - 1 \notin f[j - 1]
      <3>1. j \in 1..L => p[j] # PERCENT /\ x[i] # p[j]
        BY <2>1, <2>3, <1>2, <1>7
      <3>2. CASE j \in 1..L
        <4>1. i - 1 \in 0..N /\ (i - 1) + 1 = i
          BY <2>1
        <4>2. QED
          BY <4>1, <3>1, <3>2, <1>8
      <3>3. CASE j \notin 1..L
        <4>1. j - 1 = L /\ i - 1 # N
          BY <3>3, <2>1, <1>5
        <4>2. QED
          BY <3>1, <3>3, <4>1, <1>8
      <3>4. QED
        BY <3>1, <3>2, <3>3
    <2>4. CASE At(word, j) # PERCENT /\ wild # 0
      <3>1. i' = i + 1 /\ j' = BackToWild /\ wild' = wild /\ mark' = mark
            /\ pc' = "like"
        BY <1>1, <1>18, <2>4 DEF TextDiffers, Stays
      <3>2. 0 \in f[0] => wild' # 0 /\ \E k \in f[wild' - 1] : mark' - 1 <= k
        BY <3>1, <2>3, <2>4, <1>12
      <3>3. /\ s \in Nat /\ i = s + (j - wild) + 1 /\ NoneWild(p, wild, j)
               /\ Stands(x, p, wild, j, s)
            /\ \A e \in wild..L, k \in Nat :
                 p[e] = PERCENT /\ NoneWild(p, wild, e) /\ mark - 1 <= k /\ k < s
                   => ~Stands(x, p, wild, e, k)
        BY <2>1, <2>4, <1>11
      <3>4. PICK w \in 2..L, a \in 2..(L + 1), h \in Nat, t \in Nat : w = wild
            /\ a = j /\ h = i /\ t = s
        <4>1. wild \in 2..L /\ j \in 2..(L + 1) /\ i \in Nat
          BY <2>4, <1>2, <1>5
        <4>2. QED
          BY <4>1, <3>3
      <3>5. /\ w <= a /\ h = t + (a - w) + 1 /\ NoneWild(p, w, a)
               /\ Stands(x, p, w, a, t)
            /\ \A e \in w..L, k \in Nat :
                 p[e] = PERCENT /\ NoneWild(p, w, e) /\ mark - 1 <= k /\ k < t
                   => ~Stands(x, p, w, e, k)
            /\ p[w - 1] = PERCENT /\ At(x, h) = x[h] /\ h \in 1..N
            /\ a <= L => At(x, h) # p[a] /\ p[a] # PERCENT
        <4>1. a <= L => a \in 1..L
          OBVIOUS
        <4>2. At(x, h) = x[h] /\ h \in 1..N
          BY <3>4, <2>1, <1>3
        <4>3. QED
          BY <4>1, <4>2, <3>3, <3>4, <2>3, <2>4, <1>5
      <3>6. ASSUME NEW e \in w..L, NEW k \in Nat, p[e] = PERCENT,
                   NoneWild(p, w, e), mark - 1 <= k,
                   k < h, k + 1 = h => w = a \/ At(x, h) # p[w]
            PROVE  ~Stands(x, p, w, e, k)
        <4>1. CASE k < t
          BY <4>1, <3>5, <3>6
        <4>2. CASE t <= k
          <5>1. e \in w..Len(p) /\ a \in w..(Len(p) + 1) /\ w \in 2..Len(p)
                /\ NoFalseStart(p)
            BY <3>4, <3>5, <1>3
          <5>2. a <= Len(p) => At(x, h) # p[a] /\ p[a] # PERCENT
            BY <3>5, <1>3
          <5>3. QED
            BY <5>1, <5>2, <4>2, <3>5, <3>6, NothingSkipped
        <4>3. QED
          BY <4>1, <4>2
      <3>7. CASE w = a \/ At(x, h) # p[w]
        <4>1. j' = w
          <5>1. At(word, wild) = p[w] /\ At(source, i) = At(x, h)
            BY <3>4, <1>3, <1>7, <1>2
          <5>2. QED
            BY <5>1, <3>1, <3>4, <3>7 DEF BackToWild
        <4>2. h = i' - 1 - (j' - wild')
          <5>1. i' = h + 1 /\ j' = w /\ wild' = w
            BY <4>1, <3>1, <3>4
          <5>2. h = h + 1 - 1 - (w - w)
            OBVIOUS
          <5>3. QED
            BY <5>1, <5>2
        <4>3. NoneWild(p, wild', j') /\ Stands(x, p, wild', j', h)
          BY <4>1, <3>1, <3>4, <2>4, <1>15
        <4>4. \A e \in wild'..L, k \in Nat :
                p[e] = PERCENT /\ NoneWild(p, wild', e) /\ mark' - 1 <= k /\ k < h
                  => ~Stands(x, p, wild', e, k)
          BY <3>1, <3>4, <3>6, <3>7
        <4>5. QED
          BY <4>2, <4>3, <4>4, <3>1, <3>2, <1>14
      <3>8. CASE ~(w = a \/ At(x, h) # p[w])
        <4>1. j' = w + 1
          <5>1. At(word, wild) = p[w] /\ At(source, i) = At(x, h)
            BY <3>4, <1>3, <1>7, <1>2
          <5>2. QED
            BY <5>1, <3>1, <3>4, <3>8 DEF BackToWild
        <4>2. PICK u \in Nat : u = h - 1 /\ u + 1 = h
          <5>1. h >= 1
            BY <3>5
          <5>2. h - 1 \in Nat /\ (h - 1) + 1 = h
            BY <5>1
          <5>3. QED
            BY <5>2
        <4>3. u = i' - 1 - (j' - wild')
          BY <4>1, <4>2, <3>1, <3>4
        <4>4. NoneWild(p, w, w + 1) /\ Stands(x, p, w, w + 1, u)
          <5>1. p[w] # PERCENT /\ At(x, u + 0 + 1) = p[w] /\ w + 0 = w
            BY <3>4, <3>5, <3>8, <4>2, <2>1, <1>6
          <5>2. w..((w + 1) - 1) = {w} /\ 0..((w + 1) - w - 1) = {0}
            OBVIOUS
          <5>3. QED
            BY <5>1, <5>2 DEF NoneWild, Stands
        <4>5. \A k \in Nat : k < u => k < h /\ k + 1 # h
          BY <4>2
        <4>6. \A e \in wild'..L, k \in Nat :
                p[e] = PERCENT /\ NoneWild(p, wild', e) /\ mark' - 1 <= k /\ k < u
                  => ~Stands(x, p, wild', e, k)
          BY <4>5, <3>1, <3>4, <3>6
        <4>7. QED
          BY <4>1, <4>3, <4>4, <4>6, <3>1, <3>2, <3>4, <1>14
      <3>9. QED
        BY <3>7, <3>8
    <2>5. CASE At(word, j) # PERCENT /\ wild = 0
      <3>1. Return(FALSE) /\ 0 \notin f[0]
        BY <1>18, <2>3, <2>5, <1>12 DEF TextDiffers
      <3>2. QED
        BY <3>1, <1>13 DEF Return
    <2>6. QED
      BY <2>2, <2>4, <2>5
  <1>19. QED
    BY <1>16, <1>17, <1>18 DEF Like

-----------------------------------------------------------------------------
(* All that the routines keep.                                             *)
AgreeInv ==
  /\ input \in Inputs
  /\ CountInv /\ RollInv /\ SubstrInv /\ ReplaceInv /\ EscapeInv /\ UrlInv
  /\ NoWild(source) => LikeReached
  /\ NoWild(source) /\ NoFalseStart(word) => LikeMissesNone

LEMMA LoopOwner ==
  ASSUME NEW f \in Routines, NEW l \in Loops[f] \cup {"done"}
  PROVE  /\ l = "length" => f \in {"instr", "strlen"}
         /\ l \in {"search", "roll"} => f = "search"
         /\ l \in {"start", "end"} => f = "substr"
         /\ l \in Loops[f] => l # "done"
         /\ l \in Loops[f] /\ (l \in FirstLoops \/ f = "decode") =>
              l \notin {"build", "roll", "end"} /\ (f = "encode" => l = "encode")
              /\ (f = "replace" => l = "count")
  BY DEF Loops, Routines, FirstLoops

LEMMA AgreeAtFirst == Init => AgreeInv
  <1> SUFFICES ASSUME Init PROVE AgreeInv
    OBVIOUS
  <1>1. TypeOK
    BY Initially DEF IInv
  <1>2. source \in Seq(Char) /\ word \in Seq(Char) /\ input.new \in Seq(Char)
        /\ input.from \in Int
        /\ Len(source) \in Nat /\ Len(word) \in Nat /\ Len(input.new) \in Nat
    <2>1. source \in Seq(Char) /\ word \in Seq(Char) /\ input.new \in Seq(Char)
          /\ input.from \in Int
      BY <1>1, CallTyped
    <2>2. QED
      BY <2>1
  <1>3. /\ input.fn \in Routines /\ pc \in Loops[input.fn]
        /\ pc # "done" /\ pc \notin {"build", "roll", "end"}
        /\ input.fn = "encode" => pc = "encode"
        /\ input.fn = "replace" => pc = "count"
    <2>1. input.fn \in Routines /\ pc \in Loops[input.fn]
          /\ (pc \in FirstLoops \/ input.fn = "decode")
      BY <1>1, CallTyped DEF Init
    <2>2. QED
      BY <2>1, LoopOwner
  <1>4. i = 1 /\ i - 1 = 0 /\ j - 1 = 0 /\ wild = 0 /\ mark = 0 /\ out = <<>>
        /\ ~crashed
        /\ (input.fn = "substr" => n = input.from)
           /\ (input.fn # "substr" => n = 0)
    BY DEF Init
  <1>5. CountInv
    <2>1. pc = "length" => input.fn # "substr"
      BY <1>1, Owner
    <2>2. CharNo(source, 0) = 0
      BY CharNoStep
    <2>3. 1 <= UpTo
      BY <1>1, <1>2, OccurrencesAreNat
    <2>4. QED
      BY <2>1, <2>2, <2>3, <1>3, <1>4 DEF CountInv, Done
  <1>6. RollInv
    BY <1>3 DEF RollInv, Done
  <1>7. SubstrInv
    <2>1. CharNo(source, 0) = 0
      BY CharNoStep
    <2>2. pc = "start" => input.fn = "substr"
      BY <1>1, Owner
    <2>3. pc = "start" => n = input.from - CharNo(source, i - 1)
      BY <2>1, <2>2, <1>2, <1>4
    <2>4. SubstrAgrees
      BY <1>3, <1>4 DEF SubstrAgrees
    <2>5. 1..(i - 1) = {} /\ i <= Len(source) + 1
      BY <1>2, <1>4
    <2>6. QED
      BY <2>3, <2>4, <2>5, <1>3 DEF SubstrInv
  <1>8. ReplaceInv
    <2>1. SUFFICES ASSUME input.fn = "replace" PROVE ReplaceInv
      BY DEF ReplaceInv
    <2>2. pc = "count" /\ n = 0
      BY <2>1, <1>3, <1>4
    <2>3. Open(source, word, 1)
      <3>1. \A m \in Exchanged(source, word) : m \in 1..Len(source)
        BY <1>2, ExchangedAre
      <3>2. QED
        BY <3>1 DEF Open
    <2>4. Len(Built(0)) = 0
      <3>1. Built(0) = <<>>
        BY <1>2, ReplacingIs DEF Built
      <3>2. QED
        BY <3>1
    <2>5. 0 + 0 * (Len(input.new) - Len(word)) = 0 /\ 0 \in 0..0
          /\ 1 <= Len(source) + 1
      BY <1>2
    <2>6. QED
      BY <2>2, <2>3, <2>4, <2>5, <1>4 DEF ReplaceInv
  <1>9. EscapeInv
    <2>1. <<>> \in Seq(Byte) /\ Len(<<>>) = 0 /\ SubSeq(source, 1, 0) = <<>>
          /\ 1 <= Len(source) + 1
      BY <1>2
    <2>2. Reading(<<>>)[0] = [read |-> <<>>, escape |-> FALSE]
      BY <2>1, ReadingIs
    <2>3. QED
      BY <2>1, <2>2, <1>3, <1>4 DEF EscapeInv
  <1>10. UrlInv
    <2>1. Sent
      <3>1. PICK p : p = [k \in 0..0 |-> 0]
        OBVIOUS
      <3>2. p \in [0..0 -> Nat] /\ p[0] = 0 /\ 1..0 = {} /\ Len(<<>>) = 0
        BY <3>1
      <3>3. CodedIn(p, source, <<>>, 0)
        BY <3>2 DEF CodedIn
      <3>4. QED
        BY <3>2, <3>3, <1>4 DEF Sent
    <2>2. 1 <= Len(source) + 1
      BY <1>2
    <2>3. QED
      BY <2>1, <2>2, <1>3, <1>4 DEF UrlInv
  <1>11. LikeReached
    <2>1. 0 \in Matched(source, word)[0]
      BY <1>2, MatchedIs
    <2>2. 1 <= Len(source) + 1 /\ 0 <= Len(source) + 1 /\ 1 <= Len(word) + 1
          /\ j = 1
      BY <1>2 DEF Init
    <2>3. QED
      BY <2>1, <2>2, <1>3, <1>4 DEF LikeReached, Reached
  <1>12. LikeMissesNone
    BY <1>3, <1>4 DEF LikeMissesNone, Leftmost, StillMatches
  <1>13. QED
    BY <1>5, <1>6, <1>7, <1>8, <1>9, <1>10, <1>11, <1>12 DEF AgreeInv, Init

LEMMA AgreeUnchanged ==
  ASSUME AgreeInv, UNCHANGED vars
  PROVE  AgreeInv'
  <1>1. /\ source' = source /\ word' = word /\ input' = input /\ pc' = pc
           /\ i' = i /\ j' = j
        /\ mark' = mark /\ wild' = wild /\ n' = n /\ text' = text /\ out' = out
           /\ room' = room
        /\ result' = result /\ crashed' = crashed
    BY DEF vars, place, block, source, word
  <1>2. Occurrences' = Occurrences
    BY <1>1 DEF Occurrences
  <1>3. UpTo' = UpTo /\ LastTry' = LastTry
    BY <1>1, <1>2 DEF UpTo, LastTry
  <1>4. CountInv' /\ RollInv'
    BY <1>1, <1>2, <1>3 DEF AgreeInv, CountInv, RollInv, Done
  <1>5. SubstrInv'
    <2>1. SubstrAgrees'
      BY <1>1 DEF AgreeInv, SubstrInv, SubstrAgrees
    <2>2. \A s : Begins(s)' = Begins(s)
      BY <1>1 DEF Begins
    <2>3. QED
      BY <2>1, <2>2, <1>1 DEF AgreeInv, SubstrInv
  <1>6. ReplaceInv'
    BY <1>1 DEF AgreeInv, ReplaceInv, Endless, Built
  <1>7. EscapeInv'
    BY <1>1 DEF AgreeInv, EscapeInv, EscapeAgrees, PlainUpTo, Done
  <1>8. UrlInv'
    BY <1>1 DEF AgreeInv, UrlInv, Sent, Received
  <1>9. (NoWild(source) => LikeReached)'
    BY <1>1 DEF AgreeInv, LikeReached, Reached, FromWild
  <1>10. (NoWild(source) /\ NoFalseStart(word) => LikeMissesNone)'
    BY <1>1 DEF AgreeInv, LikeMissesNone, Leftmost, StillMatches, Start
  <1>11. QED
    BY <1>1, <1>4, <1>5, <1>6, <1>7, <1>8, <1>9, <1>10 DEF AgreeInv

LEMMA AgreeStep ==
  ASSUME IInv, IInv', AgreeInv, Step, UNCHANGED input
  PROVE  AgreeInv'
  <1>1. TypeOK /\ TypeOK' /\ SearchInv
    BY DEF IInv
  <1>2. source' = source /\ word' = word /\ input' = input
    BY DEF source, word
  <1>3. /\ pc' = "length" => input.fn \in {"instr", "strlen"}
        /\ pc' = "roll" => input.fn = "search"
        /\ pc' \in {"start", "end"} => input.fn = "substr"
    <2>1. input'.fn \in Routines /\ pc' \in Loops[input'.fn] \cup {"done"}
      BY <1>1 DEF TypeOK, Call
    <2>2. QED
      BY <2>1, <1>2, LoopOwner
  <1>4. CountInv'
    <2>1. CASE input.fn \in {"instr", "strlen"}
      BY <2>1, <1>1, StepOf, CountAgrees DEF AgreeInv
    <2>2. CASE input.fn \notin {"instr", "strlen"}
      BY <2>2, <1>2, <1>3 DEF CountInv, Done
    <2>3. QED
      BY <2>1, <2>2
  <1>5. RollInv'
    <2>1. CASE input.fn = "search"
      BY <2>1, <1>1, StepOf, SearchAgreesKept DEF AgreeInv
    <2>2. CASE input.fn # "search"
      BY <2>2, <1>2, <1>3 DEF RollInv, Done
    <2>3. QED
      BY <2>1, <2>2
  <1>6. SubstrInv'
    <2>1. CASE input.fn = "substr"
      BY <2>1, <1>1, StepOf, SubstrAgreesKept DEF AgreeInv
    <2>2. CASE input.fn # "substr"
      BY <2>2, <1>2, <1>3 DEF SubstrInv, SubstrAgrees
    <2>3. QED
      BY <2>1, <2>2
  <1>7. ReplaceInv'
    <2>1. CASE input.fn = "replace"
      BY <2>1, <1>1, StepOf, ReplaceAgreesKept DEF AgreeInv
    <2>2. CASE input.fn # "replace"
      BY <2>2, <1>2 DEF ReplaceInv
    <2>3. QED
      BY <2>1, <2>2
  <1>8. EscapeInv'
    <2>1. CASE input.fn = "escape"
      BY <2>1, <1>1, StepOf, EscapeAgreesKept DEF AgreeInv
    <2>2. CASE input.fn # "escape"
      BY <2>2, <1>2 DEF EscapeInv
    <2>3. QED
      BY <2>1, <2>2
  <1>9. UrlInv'
    <2>1. CASE input.fn = "encode"
      BY <2>1, <1>1, StepOf, EncodeByteUrl, EncodeEndsUrl, DecodeUrl DEF
         AgreeInv
    <2>2. CASE input.fn # "encode"
      BY <2>2, <1>2 DEF UrlInv
    <2>3. QED
      BY <2>1, <2>2
  <1>10. ASSUME NoWild(source) PROVE LikeReached'
    <2>1. CASE input.fn = "like"
      BY <2>1, <1>1, <1>10, StepOf, LikeReachedKept DEF AgreeInv
    <2>2. CASE input.fn # "like"
      BY <2>2, <1>2 DEF LikeReached
    <2>3. QED
      BY <2>1, <2>2
  <1>11. ASSUME NoWild(source), NoFalseStart(word) PROVE LikeMissesNone'
    <2>1. CASE input.fn = "like"
      BY <2>1, <1>1, <1>11, StepOf, LikeMissesNoneKept DEF AgreeInv
    <2>2. CASE input.fn # "like"
      BY <2>2, <1>2 DEF LikeMissesNone
    <2>3. QED
      BY <2>1, <2>2
  <1>12. NoWild(source)' = NoWild(source)
         /\ NoFalseStart(word)' = NoFalseStart(word)
    BY <1>2 DEF NoWild, NoFalseStart
  <1>13. QED
    BY <1>2, <1>4, <1>5, <1>6, <1>7, <1>8, <1>9, <1>10, <1>11, <1>12 DEF AgreeInv

LEMMA AgreeInductive == Spec => [](IInv /\ AgreeInv)
  <1>1. IInv /\ IInv' /\ AgreeInv /\ [Next]_vars => AgreeInv'
    BY AgreeStep, AgreeUnchanged DEF Next, Over
  <1>2. QED
    BY Inductive, AgreeAtFirst, <1>1, PTL DEF Spec

-----------------------------------------------------------------------------
(* like is never true of a text its pattern does not match, and never false*)
(* of one that it matches if no stretch between two % can begin again      *)
(* inside itself (mkLike, like.c), for texts and patterns of any length.   *)
THEOREM LikesAgree == Spec => []LikeAgrees
  <1>1. IInv /\ AgreeInv => LikeAgrees
    <2> SUFFICES ASSUME IInv, AgreeInv, Done("like"), NoWild(source)
                 PROVE  /\ result => Matches(source, word)
                        /\ NoFalseStart(word) /\ Matches(source, word) => result
      BY DEF LikeAgrees
    <2>1. source \in Seq(Char) /\ word \in Seq(Char)
      BY CallTyped DEF IInv
    <2>2. input.fn = "like" /\ pc = "done"
      BY DEF Done
    <2>3. result \in BOOLEAN /\ (result = TRUE => Matches(source, word))
      BY <2>2 DEF AgreeInv, LikeReached
    <2>4. NoFalseStart(word) /\ result = FALSE => 0 \notin Ahead(source, word)[0]
      BY <2>2 DEF AgreeInv, LikeMissesNone
    <2>5. Matches(source, word) => 0 \in Ahead(source, word)[0]
      BY <2>1, MatchIsAhead
    <2>6. CASE result = TRUE
      BY <2>3, <2>6
    <2>7. CASE result = FALSE
      BY <2>4, <2>5, <2>7
    <2>8. QED
      BY <2>3, <2>6, <2>7
  <1>2. QED
    BY AgreeInductive, <1>1, PTL

(* replace gives the text in which the occurrences that do not overlap an   *)
(* earlier one are exchanged, and never writes beyond the block it counted  *)
(* for it (mkReplace, replace.c), as long as an int can count them.        *)
THEOREM ReplacesAgree == Spec => []ReplaceAgrees
  <1>1. IInv /\ AgreeInv => ReplaceAgrees
    <2> SUFFICES ASSUME IInv, AgreeInv, input.fn = "replace",
                        Len(source) < IntModulus
                 PROVE  /\ ~crashed
                        /\ pc = "build" => Len(out) < room
                        /\ pc = "done"
                           => result = ReplacedText(source, word, input.new)
      BY DEF ReplaceAgrees
    <2>1. source \in Seq(Char) /\ word \in Seq(Char) /\ input.new \in Seq(Char)
          /\ i \in Nat \ {0}
      BY CallTyped DEF IInv, TypeOK
    <2>2. /\ Endless => pc = "count" /\ ~crashed
          /\ ~Endless =>
               /\ ~crashed
               /\ pc # "done" => i <= Len(source) + 1
               /\ pc = "build" => out = Built(i - 1)
                  /\ room = Len(Built(Len(source))) + 1
               /\ pc = "done" => result = Built(Len(source))
      BY DEF AgreeInv, ReplaceInv
    <2>3. ASSUME pc = "build" PROVE Len(out) < room
      <3>1. i - 1 \in 0..Len(source) /\ Len(source) \in 0..Len(source)
        BY <2>1, <2>2, <2>3
      <3>2. /\ Built(i - 1) \in Seq(Char) /\ Built(Len(source)) \in Seq(Char)
            /\ Len(Built(i - 1)) <= Len(Built(Len(source)))
        BY <2>1, <3>1, ReplacingGrows DEF Built
      <3>3. out = Built(i - 1) /\ room = Len(Built(Len(source))) + 1
        BY <2>2, <2>3
      <3>4. Len(Built(i - 1)) \in Nat /\ Len(Built(Len(source))) \in Nat
        BY <3>2
      <3>5. QED
        BY <3>2, <3>3, <3>4
    <2>4. pc = "done" => result = ReplacedText(source, word, input.new)
      BY <2>2 DEF Built, ReplacedText
    <2>5. QED
      BY <2>2, <2>3, <2>4
  <1>2. QED
    BY AgreeInductive, <1>1, PTL

(* A search finds the first occurrence if there is one and only then, instr *)
(* gives the number of the character it begins at, to as many digits as %g *)
(* keeps, and strlen the number of characters (memmem.c, mkUtils.c), for    *)
(* texts of any length that Tens has numbers for.                          *)
THEOREM SearchesAgree == Spec => []SearchAgrees
  <1>1. IInv /\ AgreeInv => SearchAgrees
    <2> SUFFICES ASSUME IInv, AgreeInv PROVE SearchAgrees
      OBVIOUS
    <2>1. ASSUME Done("instr"), Occurrences # {}
          PROVE  LET first == CharNo(source, Min(Occurrences) - 1) + 1 IN
                 /\ first < Exact => result = first
                 /\ 2 * Exact * (result - first) \in (-10 * first)..(10 * first)
      <3>1. PICK first : first = CharNo(source, Min(Occurrences) - 1) + 1
        OBVIOUS
      <3>2. first \in Nat /\ first < Exact * 1000000
        <4>1. Len(source) \in Nat /\ Len(source) + 1 < Exact * 1000000
          <5>1. source \in Seq(Char)
            BY CallTyped DEF IInv
          <5>2. QED
            BY <5>1, ExactAssumption DEF AgreeInv, source
        <4>2. PICK p \in 1..(Len(source) + 1) : p = Min(Occurrences)
          BY <2>1, OccurrencesAreNat DEF IInv
        <4>3. CharNo(source, p - 1) \in Nat /\ CharNo(source, p - 1) <= p - 1
          BY <4>1, CharNoAtMost
        <4>4. QED
          BY <3>1, <4>1, <4>2, <4>3, ExactAssumption
      <3>3. result \in Printed(first)
        BY <2>1, <3>1 DEF AgreeInv, CountInv
      <3>4. QED
        BY <3>1, <3>2, <3>3, PrintedIsNear
    <2>2. QED
      BY <2>1 DEF AgreeInv, CountInv, RollInv, SearchAgrees
  <1>2. QED
    BY AgreeInductive, <1>1, PTL

(* substr gives the characters asked for, and ends the process only where   *)
(* the text has too few of them (mkSubstr, mkUTF8index).                   *)
THEOREM SubstrsAgree == Spec => []SubstrAgrees
  <1>1. IInv /\ AgreeInv => SubstrAgrees
    BY DEF AgreeInv, SubstrInv
  <1>2. QED
    BY AgreeInductive, <1>1, PTL

(* A script reads an escaped text as the text that was escaped             *)
(* (mkEscapeJavaScriptQuoteCharacter), followed by what stands behind its  *)
(* block only if every byte of it was escaped.                             *)
THEOREM EscapesAgree == Spec => []EscapeAgrees
  <1>1. IInv /\ AgreeInv => EscapeAgrees
    BY DEF AgreeInv, EscapeInv, EscapeAgrees, Done
  <1>2. QED
    BY AgreeInductive, <1>1, PTL

(* url_decode gives back what url_encode was given, whatever isalnum says   *)
(* of bytes above 127.                                                     *)
THEOREM UrlsRoundTrip == Spec => []UrlRoundTrip
  <1>1. IInv /\ AgreeInv => UrlRoundTrip
    BY DEF AgreeInv, UrlInv, UrlRoundTrip, Done
  <1>2. QED
    BY AgreeInductive, <1>1, PTL

(* What the routines that search, make or print texts give is what they are *)
(* asked for, whatever the texts and the rows.                             *)
THEOREM TextRoutinesAgree == Spec => []TextsAgree
  BY LikesAgree, ReplacesAgree, SearchesAgree, SubstrsAgree, EscapesAgree,
     UrlsRoundTrip, RowsArePrinted, PTL DEF TextsAgree
=============================================================================
