---------------------------- MODULE TextFunctions ----------------------------
(***************************************************************************)
(* The C routines HTSQL expressions and responses are computed with: like, *)
(* replace, instr, strlen, substr, the search in a posted body, the        *)
(* escaping of texts sent inside scripts, URL coding, and the two builders *)
(* of lists, options of a data list and nodes of a tree.                   *)
(*                                                                         *)
(* A behaviour is one call: Init picks the routine and its arguments, a    *)
(* step is one turn of the routine's loop.  A text is a sequence of bytes  *)
(* without its terminator; positions count from 1, and 0 is a NULL         *)
(* pointer.  mkMalloc (not in this repository) is taken to return zeroed   *)
(* memory, as mkReplace and mkEscapeJavaScriptQuoteCharacter need it.      *)
(***************************************************************************)
EXTENDS Integers, Sequences, FiniteSetsExt

CONSTANTS
  Inputs,          \* the calls: a routine and its arguments
  NULL,
  IntModulus,      \* values of an int counter: its width, made small
  Exact,           \* numbers below it are printed exactly: 10^6 for %g, made small
  Behind           \* what the memory behind a block may hold up to a zero byte

Byte == 0..255
Char == 1..255
Names   == {"id", "text", "parent"}
Columns == {"type", "icon", "children"}

Routines == {"like", "replace", "instr", "strlen", "search", "substr",
             "escape", "encode", "decode", "options", "tree"}

(* A row of the record set: the bytes of its option, and which columns of a*)
(* tree node are not NULL.                                                 *)
Row == [size : Nat, names : SUBSET Names, has : SUBSET Columns]

Call == [fn : Routines, source : Seq(Char), word : Seq(Char), new : Seq(Char),
         from : Int, count : Int, rows : Seq(Row)]

ASSUME InputsAssumption == Inputs \subseteq Call /\ IntModulus \in Nat \ {0}
ASSUME NullAssumption   == NULL \notin Seq(Byte)
ASSUME BehindAssumption == Behind \subseteq Seq(Char)

(* The numbers to print are short enough for the tens in Tens.             *)
ASSUME ExactAssumption ==
  /\ Exact \in Nat \ {0}
  /\ \A call \in Inputs : Len(call.source) + 1 < Exact * 1000000

VARIABLES
  input,    \* the call
  pc,       \* the loop the call is in, "done" after its return
  i, j,     \* the two positions the loop moves
  mark,     \* pAfterLastTame of mkLike
  wild,     \* pAfterLastWild of mkLike
  n,        \* the counter: cnt, len, pos or hay_hash
  text,     \* the text being read, if it is not the argument
  out,      \* the bytes written to the result's block
  room,     \* bytes allocated for it
  result,
  crashed,  \* a NULL pointer was followed, or strcat_s ended the process
  list,     \* data list: bytes kept, memUsed, memReserved, and was it cut?
  strings,  \* tree: nodeStr, iconStr, childrenStr: "null", "live" or "freed"
  misused   \* tree: was a freed string read or freed again?

place  == <<i, j, mark, wild, n>>
block  == <<text, out, room>>
lists  == <<list, strings, misused>>
vars   == <<input, pc, place, block, result, crashed, lists>>

source == input.source
word   == input.word

At(x, k) == IF k \in 1..Len(x) THEN x[k] ELSE 0     \* 0: the terminator
Rest(x, k) == SubSeq(x, k, Len(x))

PERCENT   == 37
PLUS      == 43
SPACE     == 32
QUOTE     == 34
BACKSLASH == 92
NEWLINE   == 10
LETTER_N  == 110

Signed(b) == IF b > 127 THEN b - 256 ELSE b           \* char is signed
Lead(b)   == b \div 64 # 2                            \* (b & 0xC0) != 0x80
Occurs(x, w, k) ==                                    \* strstr(&x[k], w) == &x[k]
  k + Len(w) - 1 <= Len(x) /\ \A m \in 1..Len(w) : x[k + m - 1] = w[m]

Running(loop) == pc = loop /\ ~crashed
Return(value) == pc' = "done" /\ result' = value /\ UNCHANGED <<crashed, place, block, lists>>
Crash         == crashed' = TRUE /\ UNCHANGED <<pc, result, place, block, lists>>
Stays         == UNCHANGED <<pc, result, crashed, lists>>

Loops ==                       \* the loops a routine goes through, "done" at last
  [like |-> {"like"}, replace |-> {"count", "build"}, instr |-> {"length"},
   strlen |-> {"length"}, search |-> {"search", "roll"}, substr |-> {"start", "end"},
   escape |-> {"escape"}, encode |-> {"encode", "decode"}, decode |-> {"decode"},
   options |-> {"options"}, tree |-> {"tree"}]

FirstLoops == {"like", "count", "length", "search", "start", "escape", "encode",
               "options", "tree"}

Init ==
  /\ input \in Inputs
  /\ pc \in Loops[input.fn]
  /\ pc \in FirstLoops \/ input.fn = "decode"
  /\ i = 1 /\ j = 1 /\ mark = 0 /\ wild = 0
  /\ n = (IF input.fn = "substr" THEN input.from ELSE 0)
  /\ text = <<>> /\ out = <<>> /\ room = 0
  /\ result = NULL /\ crashed = FALSE
  /\ list = [kept |-> 0, used |-> 0, reserved |-> 250, cut |-> FALSE]
  /\ strings = [c \in Columns |-> "null"] /\ misused = FALSE

-----------------------------------------------------------------------------
(* mkLike(source, word): i and j are pTameText and pWildText.              *)

RetryAtEnd == mark # 0
MayRetry   == mark # 0 /\ At(source, mark) # 0     \* is there a later start to try?

SameMark == mark
NextMark == mark + 1

TextEnds ==
  /\ Running("like") /\ At(source, i) = 0
  /\ \/ /\ At(word, j) = 0
        /\ Return(TRUE)
     \/ /\ At(word, j) = PERCENT
        /\ j' = j + 1
        /\ Stays /\ UNCHANGED <<i, mark, wild, n, block>>
     \/ /\ At(word, j) \notin {0, PERCENT} /\ MayRetry
        /\ i' = mark /\ mark' = NextMark /\ j' = wild
        /\ Stays /\ UNCHANGED <<wild, n, block>>
     \/ /\ At(word, j) \notin {0, PERCENT} /\ ~MayRetry
        /\ Return(FALSE)

TextMatches ==
  /\ Running("like") /\ At(source, i) # 0 /\ At(source, i) = At(word, j)
  /\ i' = i + 1 /\ j' = j + 1
  /\ Stays /\ UNCHANGED <<mark, wild, n, block>>

PastWild   == wild + 1
BackToWild == IF wild = j \/ At(source, i) # At(word, wild) THEN wild ELSE wild + 1

TextDiffers ==
  /\ Running("like") /\ At(source, i) # 0 /\ At(source, i) # At(word, j)
  /\ \/ /\ At(word, j) = PERCENT
        /\ IF At(word, j + 1) = 0
             THEN Return(TRUE)
             ELSE /\ wild' = j + 1 /\ mark' = i /\ j' = j + 1
                  /\ Stays /\ UNCHANGED <<i, n, block>>
     \/ /\ At(word, j) # PERCENT /\ wild # 0
        /\ i' = i + 1 /\ j' = BackToWild
        /\ Stays /\ UNCHANGED <<mark, wild, n, block>>
     \/ /\ At(word, j) # PERCENT /\ wild = 0
        /\ Return(FALSE)

Like == TextEnds \/ TextMatches \/ TextDiffers

-----------------------------------------------------------------------------
(* mkReplace(source, word, new).                                           *)

CountWord ==
  /\ Running("count") /\ At(source, i) # 0
  /\ IF Occurs(source, word, i)
       THEN n' = (n + 1) % IntModulus /\ i' = i + Len(word)
       ELSE n' = n /\ i' = i + 1
  /\ Stays /\ UNCHANGED <<j, mark, wild, block>>

LengthNoEnd == Len(source) + n * (Len(input.new) - Len(word))
NewLength   == Len(source) + n * (Len(input.new) - Len(word)) + 1

Allocate ==                    \* len, of which the block has one byte more
  /\ Running("count") /\ At(source, i) = 0
  /\ room' = NewLength
  /\ i' = 1 /\ pc' = "build"
  /\ UNCHANGED <<j, mark, wild, n, text, out, result, crashed, lists>>

CopyNewWord ==
  /\ Running("build") /\ At(source, i) # 0 /\ Occurs(source, word, i)
  /\ IF Len(input.new) < room - Len(out)
       THEN /\ out' = out \o input.new /\ i' = i + Len(word)
            /\ Stays /\ UNCHANGED <<j, mark, wild, n, text, room>>
       ELSE Crash

CopyByte ==
  /\ Running("build") /\ At(source, i) # 0 /\ ~Occurs(source, word, i)
  /\ out' = Append(out, source[i]) /\ i' = i + 1
  /\ Stays /\ UNCHANGED <<j, mark, wild, n, text, room>>

Replaced == Running("build") /\ At(source, i) = 0 /\ Return(out)

Replace == CountWord \/ Allocate \/ CopyNewWord \/ CopyByte \/ Replaced

-----------------------------------------------------------------------------
(* mkInstr counts the characters before the first occurrence that strstr   *)
(* finds, mkStrlen all of them.  mkInstr prints its number with %g, which  *)
(* keeps as many leading digits as Exact has zeros.                        *)

Occurrences == {k \in 1..(Len(source) + 1) : Occurs(source, word, k)}

UpTo ==                        \* where the count stops
  IF input.fn = "strlen" \/ Occurrences = {} THEN Len(source) + 1 ELSE Min(Occurrences)

CountChar ==
  /\ Running("length") /\ i < UpTo
  /\ input.fn = "instr" => Occurrences # {}
  /\ i' = i + 1 /\ n' = (IF Lead(source[i]) THEN n + 1 ELSE n)
  /\ Stays /\ UNCHANGED <<j, mark, wild, block>>

Tens    == {1, 10, 100, 1000, 10000, 100000, 1000000}
Unit(k) == Min({t \in Tens : k < Exact * t})           \* value of the last digit kept
Printed(k) ==                  \* mkDoubleToChar: a tie is rounded either way
  {r \in 0..(k + Unit(k)) : r % Unit(k) = 0 /\ 2 * (r - k) \in (-Unit(k))..Unit(k)}

Counted ==
  /\ Running("length")
  /\ \/ input.fn = "strlen" /\ i = UpTo /\ Return(n)
     \/ /\ input.fn = "instr" /\ Occurrences # {} /\ i = UpTo
        /\ \E r \in Printed(n + 1) : Return(r)
     \/ input.fn = "instr" /\ Occurrences = {} /\ Return(0)

-----------------------------------------------------------------------------
(* mkMemmem(source, word): n is the rolling hash, j the last byte read.    *)

HashOf(x) ==
  LET H[k \in 0..Len(x)] == IF k = 0 THEN 0 ELSE H[k - 1] + Signed(x[k])
  IN H[Len(x)]

SearchBegins ==
  /\ Running("search")
  /\ \/ Len(source) < Len(word) /\ Return(0)
     \/ Len(source) >= Len(word) /\ word = <<>> /\ Return(1)
     \/ /\ Len(source) >= Len(word) /\ word # <<>>
        /\ n' = HashOf(SubSeq(source, 1, Len(word))) /\ j' = Len(word)
        /\ pc' = "roll"
        /\ UNCHANGED <<i, mark, wild, block, result, crashed, lists>>

LastTryShort == Len(source) - Len(word) + 1
LastTry      == Len(source) - Len(word) + 2
Hit  == n = HashOf(word) /\ At(source, i) = At(word, 1) /\ Occurs(source, word, i)

SearchFound == Running("roll") /\ i < LastTry /\ Hit /\ Return(i)
SearchEnds  == Running("roll") /\ i = LastTry /\ Return(0)

Roll ==
  /\ Running("roll") /\ i < LastTry /\ ~Hit
  /\ n' = n - Signed(At(source, i)) + Signed(At(source, i + Len(word)))
  /\ i' = i + 1 /\ j' = i + Len(word)
  /\ Stays /\ UNCHANGED <<mark, wild, block>>

Search == SearchBegins \/ SearchFound \/ SearchEnds \/ Roll

-----------------------------------------------------------------------------
(* mkSubstr(source, from, count) with mkUTF8index: n is what its pos has   *)
(* left.  The number of the first character, less one and plus one again,  *)
(* is unsigned: one that is not positive never comes down to zero.         *)

Scans(x) ==                    \* a turn of mkUTF8index that goes on
  LET left == IF Lead(At(x, i)) THEN n - 1 ELSE n IN
  /\ At(x, i) # 0 /\ left # 0
  /\ n' = left /\ i' = i + 1
  /\ Stays /\ UNCHANGED <<j, mark, wild, block>>

Reaches(x) == At(x, i) # 0 /\ (IF Lead(At(x, i)) THEN n - 1 ELSE n) = 0

CharsOnly == input.count
CharsLeft == input.count + 1

StartFound ==
  /\ Running("start") /\ Reaches(source)
  /\ \/ input.count = 0 /\ Return(Rest(source, i))
     \/ input.count < 0 /\ Return(NULL)
     \/ /\ input.count > 0
        /\ text' = Rest(source, i) /\ i' = 1 /\ n' = CharsLeft
        /\ pc' = "end"
        /\ UNCHANGED <<j, mark, wild, out, room, result, crashed, lists>>

StartMissing ==                \* pos is NULL, and so is mkStrdup's copy of it
  /\ Running("start") /\ At(source, i) = 0
  /\ IF input.count > 0 THEN Crash ELSE Return(NULL)

EndFound   == Running("end") /\ Reaches(text) /\ Return(SubSeq(text, 1, i - 1))
EndMissing == Running("end") /\ At(text, i) = 0 /\ Crash     \* *end2 of NULL

Substr ==
  \/ Running("start") /\ Scans(source)
  \/ Running("end") /\ Scans(text)
  \/ StartFound \/ StartMissing \/ EndFound \/ EndMissing

-----------------------------------------------------------------------------
(* mkEscapeJavaScriptQuoteCharacter, url_encode and url_decode.            *)

EscapedQuotes(b) ==
  CASE b = QUOTE -> <<BACKSLASH, b>>
    [] b = NEWLINE -> <<BACKSLASH, LETTER_N>>
    [] OTHER -> <<b>>
Escaped(b) ==
  CASE b \in {QUOTE, BACKSLASH} -> <<BACKSLASH, b>>
    [] b = NEWLINE -> <<BACKSLASH, LETTER_N>>
    [] OTHER -> <<b>>

Put(bytes) == out' = out \o bytes /\ Stays /\ UNCHANGED <<j, mark, wild, n, text>>

EscapeRoomShort == Len(source) + 1
EscapeRoom      == IF source = <<>> THEN 2 ELSE 2 * Len(source)

EscapeByte ==
  /\ Running("escape") /\ At(source, i) # 0
  /\ room' = EscapeRoom
  /\ i' = i + 1 /\ Put(Escaped(source[i]))

EscapeEnds ==                  \* no terminator: whoever reads it stops at a zero byte
  /\ Running("escape") /\ At(source, i) = 0
  /\ \E tail \in IF Len(out) < EscapeRoom THEN {<<>>} ELSE Behind : Return(out \o tail)

Alnum == (48..57) \cup (65..90) \cup (97..122)
PlainPlus == Alnum \cup {45, 46, 95, 126, PLUS}
Plain     == Alnum \cup {45, 46, 95, 126}

Hex(d) == IF d < 10 THEN 48 + d ELSE 87 + d                   \* to_hex
FromHex(b) ==                                                 \* from_hex
  CASE b \in 48..57 -> b - 48
    [] b \in 65..90 -> b - 55
    [] OTHER -> Signed(b) - 87

(* isalnum of a negative char is undefined: it may say yes or no.          *)
Coded(b) ==
  CASE b \in Plain -> {<<b>>}
    [] b = SPACE -> {<<PLUS>>}
    [] b > 127 -> {<<b>>, <<PERCENT, Hex(b \div 16), Hex(b % 16)>>}
    [] OTHER -> {<<PERCENT, Hex(b \div 16), Hex(b % 16)>>}

EncodeByte ==
  /\ Running("encode") /\ At(source, i) # 0
  /\ room' = 3 * Len(source) + 1
  /\ i' = i + 1
  /\ \E bytes \in Coded(source[i]) : Put(bytes)

EncodeEnds ==                  \* the other side decodes what it was sent
  /\ Running("encode") /\ At(source, i) = 0
  /\ text' = out /\ out' = <<>> /\ room' = 0 /\ i' = 1 /\ pc' = "decode"
  /\ UNCHANGED <<j, mark, wild, n, result, crashed, lists>>

Given  == IF input.fn = "encode" THEN text ELSE source        \* url_decode's str
Added(x, y) == x + y
Or8(x, y) ==
  LET Bit(p) == IF (x \div p) % 2 = 1 \/ (y \div p) % 2 = 1 THEN p ELSE 0
  IN Bit(1) + Bit(2) + Bit(4) + Bit(8) + Bit(16) + Bit(32) + Bit(64) + Bit(128)

DecodeByte ==
  LET b == At(Given, i)
      high == At(Given, i + 1)
      low  == At(Given, i + 2) IN
  /\ Running("decode") /\ b # 0
  /\ room' = Len(Given) + 1
  /\ \/ /\ b = PERCENT /\ high # 0 /\ low # 0
        /\ Put(<<Or8((FromHex(high) * 16) % 256, FromHex(low) % 256)>>) /\ i' = i + 3
     \/ /\ b = PERCENT /\ (high = 0 \/ low = 0)
        /\ Put(<<>>) /\ i' = i + 1
     \/ /\ b # PERCENT
        /\ Put(<<IF b = PLUS THEN SPACE ELSE b>>) /\ i' = i + 1

DecodeEnds == Running("decode") /\ At(Given, i) = 0 /\ Return(out)

Convert == EscapeByte \/ EscapeEnds \/ EncodeByte \/ EncodeEnds \/ DecodeByte \/ DecodeEnds

-----------------------------------------------------------------------------
(* __populateDatalistWithRecordSet: one option a row.                      *)

GrownOnce(l, size) ==
  IF l.used + size > l.reserved - 10
    THEN [kept |-> IF l.kept < 500 THEN l.kept ELSE 500, used |-> l.used + size,
          reserved |-> l.reserved, cut |-> l.cut \/ l.kept >= 500]
    ELSE [l EXCEPT !.used = l.used + size]

Grown(l, size) ==              \* memUsed already counts the new option
  LET used  == l.used + size
      block2 == l.reserved * 2 IN
  IF used > l.reserved - 10
    THEN [kept |-> IF l.kept < block2 THEN l.kept ELSE block2, used |-> used,
          reserved |-> block2, cut |-> l.cut \/ l.kept >= block2]
    ELSE [l EXCEPT !.used = used]

AddOption ==
  /\ Running("options") /\ i <= Len(input.rows)
  /\ LET size == input.rows[i].size
         grown == Grown(list, size)
     IN list' = [grown EXCEPT !.kept = @ + size]
  /\ i' = i + 1
  /\ UNCHANGED <<pc, result, crashed, j, mark, wild, n, block, strings, misused>>

OptionsSent == Running("options") /\ i > Len(input.rows) /\ Return(list.kept)

(* __sendAddTreeNodeResponse: out collects what the rows are shown with.  A *)
(* row is put together up to the first NULL among id, text and parent; the  *)
(* other columns come last.                                                *)

Preceding == [id |-> {}, text |-> {"id"}, parent |-> {"id", "text"},
           type |-> Names, icon |-> Names, children |-> Names]
Shown(r, held) ==
  {c \in r.names \cup {d \in Columns : held[d] # "null"} : Preceding[c] \subseteq r.names}

PointersOnce(r) ==
  [c \in Columns |-> IF c \in r.has /\ strings[c] = "null" THEN "live" ELSE strings[c]]
Pointers(r) == [c \in Columns |-> IF c \in r.has THEN "live" ELSE strings[c]]

AddNode ==
  /\ Running("tree") /\ i <= Len(input.rows) /\ input.rows[i].names # {}
  /\ LET held == Pointers(input.rows[i]) IN
     /\ out' = Append(out, Shown(input.rows[i], held))
     /\ misused' = (misused \/ \E c \in Columns : held[c] = "freed")
     /\ strings' = [c \in Columns |-> IF held[c] = "null" THEN "null" ELSE "freed"]
  /\ i' = i + 1
  /\ UNCHANGED <<pc, result, crashed, j, mark, wild, n, text, room, list>>

TreeSent ==
  /\ Running("tree")
  /\ i <= Len(input.rows) => input.rows[i].names = {}
  /\ Return(out)

Lists == AddOption \/ OptionsSent \/ AddNode \/ TreeSent

-----------------------------------------------------------------------------
Step == Like \/ Replace \/ CountChar \/ Counted \/ Search \/ Substr \/ Convert \/ Lists

Over == (pc = "done" \/ crashed) /\ UNCHANGED vars
Next == (Step /\ UNCHANGED input) \/ Over

Spec == Init /\ [][Next]_vars /\ WF_vars(Step /\ UNCHANGED input)

Done(fn) == input.fn = fn /\ pc = "done"

-----------------------------------------------------------------------------
(* Properties.                                                             *)

(* The variables hold what the C locals can hold.                          *)
TypeOK ==
  /\ input \in Call
  /\ pc \in Loops[input.fn] \cup {"done"}
  /\ i \in Nat \ {0} /\ j \in Nat \ {0} /\ mark \in Nat /\ wild \in Nat /\ n \in Int
  /\ text \in Seq(Byte) /\ room \in Int
  /\ out \in IF input.fn = "tree" THEN Seq(SUBSET (Names \cup Columns)) ELSE Seq(Byte)
  /\ crashed \in BOOLEAN /\ misused \in BOOLEAN
  /\ list \in [kept : Nat, used : Nat, reserved : Nat, cut : BOOLEAN]
  /\ strings \in [Columns -> {"null", "live", "freed"}]

(* like.c keeps its four pointers on the two texts, their terminators       *)
(* included; mkMemmem reads at most the byte behind the body it searches;  *)
(* url_decode never steps over the terminator.                             *)
ReadsInside ==
  /\ i <= Len(source) + 1 \/ input.fn \notin {"like", "search", "escape"}
  /\ input.fn = "like" => j <= Len(word) + 1 /\ mark <= Len(source) + 1 /\ wild <= Len(word) + 1
  /\ pc = "roll" => j <= Len(source) + 1
  /\ pc = "decode" => i <= Len(Given) + 1

ToEscape     == {QUOTE, BACKSLASH, NEWLINE}
PlainUpTo(k) == \E m \in 1..k : source[m] \notin ToEscape

(* What is written fits in what was allocated: escaped texts, encoded and   *)
(* decoded texts with their terminator.  An escaped text has room for one  *)
(* too, so that whoever reads it stays in the block (mkUtils.c:34), unless *)
(* every byte of it was escaped.                                           *)
WritesInside ==
  /\ input.fn = "escape" => Len(out) <= room
  /\ Done("escape") /\ PlainUpTo(Len(source)) => Len(result) < room
  /\ pc \in {"encode", "decode"} /\ i > 1 => Len(out) < room

(* No call leaves the memory it was given: all of the above (like.c,        *)
(* memmem.c, mkUtils.c).                                                   *)
StaysInside == ReadsInside /\ WritesInside

(* Lengths of the beginnings of x that the first b bytes of p match.       *)
Matched(x, p) ==
  LET M[b \in 0..Len(p)] ==
        IF b = 0 THEN {0}
        ELSE LET m == M[b - 1] IN
             {a \in 0..Len(x) : IF p[b] = PERCENT THEN \E c \in m : c <= a
                                ELSE a - 1 \in m /\ x[a] = p[b]}
  IN M

Matches(x, p) == Len(x) \in Matched(x, p)[Len(p)]

NoWild(x) == \A k \in 1..Len(x) : x[k] # PERCENT

(* No stretch of p between two % has its first byte again before its last.  *)
NoFalseStart(p) ==
  \A a, b \in 1..Len(p) :
    p[a] = PERCENT /\ p[b] = PERCENT /\ (\A c \in (a + 1)..(b - 1) : p[c] # PERCENT)
      => \A c \in (a + 2)..(b - 2) : p[c] # p[a + 1]

(* x LIKE p is true exactly if p matches x, % standing for any bytes (like.h *)
(* line 20).  TLC refutes it: after a false start mkLike goes on behind the *)
(* byte that differed and may skip the occurrence it is looking for.       *)
LikeMatches == Done("like") /\ NoWild(source) => result = Matches(source, word)

(* What holds of it: it is never true without a match, and it misses none   *)
(* if no stretch between two wildcards can start again inside itself; both *)
(* when x has no % of its own, which mkLike would take for a plain byte.   *)
LikeAgrees ==
  Done("like") /\ NoWild(source) =>
    /\ result => Matches(source, word)
    /\ NoFalseStart(word) /\ Matches(source, word) => result

(* The positions up to k at which w is exchanged: those where it occurs and *)
(* does not overlap an earlier one that is.                                *)
Taken(x, w) ==
  LET T[k \in 0..Len(x)] ==
        IF k = 0 THEN {}
        ELSE LET t == T[k - 1] IN
             IF Occurs(x, w, k) /\ \A m \in t : m + Len(w) <= k THEN t \cup {k} ELSE t
  IN T

(* The text that the first k bytes of x become.                            *)
Replacing(x, w, new) ==
  LET R[k \in 0..Len(x)] ==
        IF k = 0 THEN <<>>
        ELSE IF k \in Taken(x, w)[k] THEN R[k - 1] \o new
        ELSE IF \E m \in Taken(x, w)[k] : k < m + Len(w) THEN R[k - 1]
        ELSE Append(R[k - 1], x[k])
  IN R

ReplacedText(x, w, new) == Replacing(x, w, new)[Len(x)]

(* replace() gives the text in which the occurrences that do not overlap an *)
(* earlier one are exchanged, within the block allocated for it (replace.c),*)
(* as long as an int can count them.                                       *)
ReplaceAgrees ==
  input.fn = "replace" /\ Len(source) < IntModulus =>
    /\ ~crashed
    /\ pc = "build" => Len(out) < room
    /\ pc = "done" => result = ReplacedText(source, word, input.new)

(* The rolling sum of mkMemmem misses no occurrence and finds none that is  *)
(* not there; instr gives the character, not the byte, it begins at, 0 if  *)
(* there is none, exactly as long as it is below Exact and to that many     *)
(* digits above; strlen counts characters.                                 *)
CharNo(x, k) == Cardinality({m \in 1..k : Lead(x[m])})

SearchAgrees ==
  /\ Done("search") => result = IF Occurrences = {} THEN 0 ELSE Min(Occurrences)
  /\ Done("instr") =>
       IF Occurrences = {} THEN result = 0
       ELSE LET first == CharNo(source, Min(Occurrences) - 1) + 1 IN
            /\ first < Exact => result = first
            /\ 2 * Exact * (result - first) \in (-10 * first)..(10 * first)
  /\ Done("strlen") => result = CharNo(source, Len(source))

(* substr gives characters `from' to `from + count - 1', to the end if      *)
(* count is 0; it ends the process only if `count' characters from there on*)
(* would include the last one or go beyond it, or `from' is not positive   *)
(* (which finds something only in a text that begins inside a character).  *)
SubstrAgrees ==
  input.fn = "substr" =>
    LET first == input.from
        Wanted(k) == /\ CharNo(source, k) >= first
                     /\ input.count > 0 => CharNo(source, k) < first + input.count
        wanted == {k \in 1..Len(source) : Wanted(k)} IN
    /\ crashed => input.count > 0 /\ (first < 1 \/ first + input.count > CharNo(source, Len(source)))
    /\ pc = "done" /\ result # NULL /\ (first >= 1 \/ Lead(At(source, 1))) =>
         result = SubSeq(source, Min(wanted), Max(wanted))
    /\ pc = "done" /\ result = NULL =>
         input.count < 0 \/ first < 1 \/ first > CharNo(source, Len(source))

(* What a script reads in the first k bytes of a quoted text.              *)
Reading(x) ==
  LET R[k \in 0..Len(x)] ==
        IF k = 0 THEN [read |-> <<>>, escape |-> FALSE]
        ELSE LET r == R[k - 1] IN
             IF r.escape
               THEN [read |-> Append(r.read, IF x[k] = LETTER_N THEN NEWLINE ELSE x[k]),
                     escape |-> FALSE]
             ELSE IF x[k] = BACKSLASH THEN [r EXCEPT !.escape = TRUE]
             ELSE [r EXCEPT !.read = Append(r.read, x[k])]
  IN R

JsRead(x) == Reading(x)[Len(x)].read

(* The script that gets an escaped text reads the text it was made of; if   *)
(* every byte of it was escaped, possibly followed by more.                *)
EscapeAgrees ==
  Done("escape") =>
    /\ source = <<>> \/ PlainUpTo(Len(source)) => JsRead(result) = source
    /\ Len(source) <= Len(JsRead(result)) /\ SubSeq(JsRead(result), 1, Len(source)) = source

(* Any text that is URL encoded and decoded again is the same text.         *)
UrlRoundTrip == Done("encode") => result = source

(* The growing block of options never cuts off what it holds as long as no  *)
(* option is longer than twice the 250 bytes it starts with.               *)
OptionsKept ==
  (\A r \in 1..Len(input.rows) : input.rows[r].size < 500) =>
    ~list.cut /\ list.kept = list.used

Own(r) == r.names \cup r.has

(* No freed string is used, and no row up to the first without a name is    *)
(* missing, as long as every row has the columns of the first one; a node  *)
(* is then shown with exactly its own columns if it has id, text and parent*)
(* (if it has not, with nothing that is not its own).                      *)
TreeRowsOwn ==
  (\A r \in 1..Len(input.rows) : input.rows[r].has = input.rows[1].has) =>
    /\ ~misused
    /\ Done("tree") =>
         /\ \A r \in 1..Len(result) :
              /\ result[r] \subseteq Own(input.rows[r])
              /\ Names \subseteq Own(input.rows[r]) => result[r] = Own(input.rows[r])
         /\ \A r \in 1..Len(input.rows) :
              (\A q \in 1..r : input.rows[q].names # {}) => r <= Len(result)

(* What is printed for a record set is all of it and nothing else: both of  *)
(* the above (populateDatalist.c, addTreeNode.c).                          *)
RowsPrinted == OptionsKept /\ TreeRowsOwn

(* What the routines that search, make or print texts give is what the     *)
(* texts and rows they are given ask for: all of the above.                *)
TextsAgree ==
  /\ LikeAgrees /\ ReplaceAgrees /\ SearchAgrees /\ SubstrAgrees /\ EscapeAgrees /\ UrlRoundTrip
  /\ RowsPrinted

(* Every call ends, except replace() of the empty text in a text that is not*)
(* empty: its counting loop stays where it is.                             *)
EveryCallEnds ==
  (input.fn = "replace" /\ word = <<>> /\ source # <<>>) \/ <>(pc = "done" \/ crashed)
=============================================================================
