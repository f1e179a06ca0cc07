-------------------------- MODULE MCTextFunctions --------------------------
(***************************************************************************)
(* Calls for TLC: short texts over the bytes each routine tells apart.     *)
(***************************************************************************)
EXTENDS TextFunctions

Upto(bytes, length) == UNION {[1..k -> bytes] : k \in 0..length}

NoCall == [fn |-> "like", source |-> <<>>, word |-> <<>>, new |-> <<>>,
           from |-> 1, count |-> 0, rows |-> <<>>]

LowA == 97
LowB == 98
LowC == 99
Trail == 169                       \* the second byte of a UTF-8 character
Two   == 195                       \* its first

Likes ==
  {[NoCall EXCEPT !.source = x, !.word = p] :
     x \in Upto({LowA, LowB}, 4) \cup Upto({LowA, PERCENT}, 2),
     p \in Upto({LowA, LowB, PERCENT}, 4)}

(* Two wildcards with a text between and a text behind, in a longer text.  *)
Stretches(length, first, last) ==
  {[NoCall EXCEPT !.source = x, !.word = <<PERCENT>> \o u \o <<PERCENT>> \o v] :
     x \in [1..length -> {LowA, LowB}], u \in Upto({LowA, LowB}, first), v \in Upto({LowA, LowB}, last)}

FalseStarts == Stretches(8, 3, 2)

Replaces ==
  {[NoCall EXCEPT !.fn = "replace", !.source = x, !.word = w, !.new = v] :
     x \in Upto({LowA, LowB}, 4), w \in Upto({LowA, LowB}, 2), v \in Upto({LowA, LowC}, 3)}

Searches ==
  {[NoCall EXCEPT !.fn = fn, !.source = x, !.word = w] :
     fn \in {"search"}, x \in Upto({LowA, LowB, LowC}, 4), w \in Upto({LowA, LowB, LowC}, 2)}

(* Well-formed UTF-8 texts of characters of one and of two bytes.          *)
Utf8(length) ==
  {x \in Upto({LowA, LowB, Two, Trail}, length) :
     \A k \in 1..length + 1 : (At(x, k) = Trail) <=> (At(x, k - 1) = Two)}

Counts ==
  {[NoCall EXCEPT !.fn = fn, !.source = x, !.word = w] :
     fn \in {"instr", "strlen"}, x \in Utf8(4), w \in Utf8(2)}

(* Texts in which the word comes behind more characters than are exact.    *)
LateWords ==
  {[NoCall EXCEPT !.fn = "instr", !.source = Append([m \in 1..k |-> LowA], LowB),
                  !.word = <<LowB>>] : k \in 8..26 \cup 98..116}

Leftovers == {<<>>, <<LowC>>, <<BACKSLASH>>, <<LowA, QUOTE>>}

Substrs ==
  {[NoCall EXCEPT !.fn = "substr", !.source = x, !.from = k, !.count = l] :
     x \in Utf8(4) \cup {<<Trail>> \o y : y \in Utf8(3)}, k \in -1..5, l \in -1..4}

Escapes ==
  {[NoCall EXCEPT !.fn = "escape", !.source = x] :
     x \in Upto({LowA, LETTER_N, QUOTE, BACKSLASH, NEWLINE}, 4)}

Encodes ==
  {[NoCall EXCEPT !.fn = "encode", !.source = x] :
     x \in Upto({LowA, 52, SPACE, PLUS, PERCENT, Two}, 3) \cup {<<b>> : b \in Char}}

Decodes ==
  {[NoCall EXCEPT !.fn = "decode", !.source = x] :
     x \in Upto({LowA, 52, 90, PLUS, PERCENT}, 4)}

RowOf(size, names, has) == [size |-> size, names |-> names, has |-> has]

Options ==
  {[NoCall EXCEPT !.fn = "options", !.rows = r] :
     r \in Upto({RowOf(size, {"id"}, {}) : size \in {1, 239, 241, 499, 1200}}, 4)}

Trees ==
  {[NoCall EXCEPT !.fn = "tree", !.rows = r] :
     r \in Upto({RowOf(1, names, has) :
                   names \in {Names, {"id", "parent"}, {"text", "parent"}},
                   has \in {{}, {"icon"}, {"icon", "type"}}}
                  \cup {RowOf(1, {}, {})}, 3)}

AllInputs == Likes \cup Stretches(6, 3, 1) \cup Replaces \cup Searches \cup Counts \cup LateWords \cup Substrs \cup Escapes
               \cup Encodes \cup Decodes \cup Options \cup Trees
=============================================================================
