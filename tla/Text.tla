-------------------------------- MODULE Text --------------------------------
(***************************************************************************)
(* Strings, as sequences of one-character atoms, with the operations of    *)
(* Rust's str that crates/oxidarr-cardigann and crates/oxidarr-indexer     *)
(* build on.  A regular expression is a literal here (its own syntax is    *)
(* the regex crate's); an opening parenthesis alone is one that does not   *)
(* compile.                                                                *)
(***************************************************************************)
EXTENDS Integers, Sequences, SequencesExt

\* Concatenation of a sequence of strings.
Glue(parts) == FlattenSeq(parts)

\* p stands at position i of s.
StandsAt(s, p, i) == i + Len(p) - 1 <= Len(s) /\ SubSeq(s, i, i + Len(p) - 1) = p

\* The first position of p in s at or after i; 0 when there is none.
Earliest(positions) == IF positions = {} THEN 0 ELSE CHOOSE i \in positions : \A k \in positions : i <= k
FindFrom(s, p, i) == Earliest({k \in i..(Len(s) + 1) : StandsAt(s, p, k)})

Has(s, p) == FindFrom(s, p, 1) /= 0

StartsWith(s, p) == StandsAt(s, p, 1)

From(s, i) == SubSeq(s, i, Len(s))

\* str::split on a non-empty separator: "" gives one empty part.
SplitOn(s, sep) ==
    LET rest[i \in 1..Len(s) + 1] ==
            LET k == FindFrom(s, sep, i)
            IN IF k = 0 THEN <<From(s, i)>> ELSE <<SubSeq(s, i, k - 1)>> \o rest[k + Len(sep)]
    IN rest[1]

JoinWith(parts, sep) == Glue([i \in DOMAIN parts |-> IF i = 1 THEN parts[1] ELSE sep \o parts[i]])

\* str::replace: leftmost, not overlapping; an empty pattern matches between
\* any two characters and at both ends.
Substitute(s, p, r) ==
    IF p = <<>> THEN r \o Glue([i \in DOMAIN s |-> <<s[i]>> \o r])
    ELSE JoinWith(SplitOn(s, p), r)

\* str::trim_matches over a set of characters.
Within(s, kept) ==
    IF kept = {} THEN <<>> ELSE SubSeq(s, Earliest(kept), CHOOSE i \in kept : \A k \in kept : k <= i)
TrimOf(s, chars) == Within(s, {i \in DOMAIN s : s[i] \notin chars})

Blanks == {" "}
Trim(s) == TrimOf(s, Blanks)

\* str::split_whitespace: no empty parts.
Words(s) == SelectSeq(SplitOn(s, <<" ">>), LAMBDA w : w /= <<>>)

\* str::to_lowercase; only these letters have a case here.
LowerOf == [T |-> "t", X |-> "x", A |-> "a"]
LowerChar(c) == IF c \in DOMAIN LowerOf THEN LowerOf[c] ELSE c
Lower(s) == [i \in DOMAIN s |-> LowerChar(s[i])]
Raise(s) ==
    [i \in DOMAIN s |-> IF \E c \in DOMAIN LowerOf : LowerOf[c] = s[i]
                        THEN CHOOSE c \in DOMAIN LowerOf : LowerOf[c] = s[i] ELSE s[i]]

\* str::parse of an integer: an optional sign and at least one digit.
Digits == <<"0", "1", "2", "3", "4", "5", "6", "7", "8", "9">>
DigitChars == {Digits[i] : i \in DOMAIN Digits}
Unsigned(s) == IF s /= <<>> /\ s[1] \in {"+", "-"} THEN Tail(s) ELSE s
IsNumber(s) == Unsigned(s) /= <<>> /\ \A i \in DOMAIN Unsigned(s) : Unsigned(s)[i] \in DigitChars
DigitValue(c) == (CHOOSE i \in DOMAIN Digits : Digits[i] = c) - 1
Number(s) ==
    LET digits == Unsigned(s)
        size[n \in 0..Len(digits)] == IF n = 0 THEN 0 ELSE 10 * size[n - 1] + DigitValue(digits[n])
    IN IF s[1] = "-" THEN -size[Len(digits)] ELSE size[Len(digits)]

Compiles(pattern) == pattern /= <<"(">>

=============================================================================
