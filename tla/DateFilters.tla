----------------------------- MODULE DateFilters -----------------------------
(***************************************************************************)
(* The filters that read the clock: dateparse and timeparse                *)
(* (crates/oxidarr-cardigann/src/filters.rs and netlayout.rs), timeago and *)
(* fuzzytime (fuzzydate.rs).  Time is in minutes of UTC since day 0; a     *)
(* year is 365 days, its months those of a common year.                    *)
(*                                                                         *)
(* A date text is a sequence of lexemes: a word, a number, a character, a  *)
(* time of day on either clock, a fraction of a second with its dot, a     *)
(* UTC offset.                                                             *)
(***************************************************************************)
EXTENDS Integers, Sequences, FiniteSets, SequencesExt, Text

CONSTANTS
    MaxTime,        \* the last instant chrono holds; the first is 0
    MaxDuration     \* TimeDelta's bound

Lex(l, v) == [l |-> l, v |-> v]
Wd(w) == Lex("word", w)
Num(n) == Lex("num", n)
Char(c) == Lex("char", c)
Clock24(m) == Lex("clock24", m)               \* minutes of the day
Clock12(h, m, pm) == [l |-> "clock12", v |-> [h |-> h, m |-> m, pm |-> pm]]
Frac == Lex("frac", "")
Offset(minutes) == Lex("offset", minutes)

Day == 1440
DaysPerYear == 365
MonthNames == <<"jan", "feb", "mar", "apr", "may", "jun", "jul", "aug", "sep", "oct", "nov", "dec">>
MonthLength == <<31, 28, 31, 30, 31, 30, 31, 31, 30, 31, 30, 31>>

None == [ok |-> FALSE]
Some(t) == [ok |-> TRUE, t |-> t]
Instant(t) == IF t \in 0..MaxTime THEN Some(t) ELSE None      \* checked_add, checked_sub

IsDate(y, m, d) == y >= 0 /\ m \in 1..12 /\ d \in 1..MonthLength[m]
Midnight(y, m, d) ==
    Day * (DaysPerYear * y + FoldLeft(+, 0, SubSeq(MonthLength, 1, m - 1)) + d - 1)
YearOf(t) == t \div (Day * DaysPerYear)
DayStart(t) == t - (t % Day)

----------------------------------------------------------------------------
(* fuzzydate.rs *)

UnitMinutes ==
    [min |-> 1, minutes |-> 1, hour |-> 60, hours |-> 60, hrs |-> 60, day |-> Day, days |-> Day,
     week |-> 7 * Day, weeks |-> 7 * Day, month |-> 30 * Day, months |-> 30 * Day,
     year |-> DaysPerYear * Day, years |-> DaysPerYear * Day]

UnitDuration(unit, count) ==
    IF unit \in DOMAIN UnitMinutes /\ count * UnitMinutes[unit] \in -MaxDuration..MaxDuration
    THEN Some(count * UnitMinutes[unit]) ELSE None

IsWord(lexeme, w) == lexeme.l = "word" /\ lexeme.v = w
IsFiller(lexeme) == IsWord(lexeme, "and") \/ (lexeme.l = "char" /\ lexeme.v = ",")

\* Pairs of a number and a unit, added up one by one; every step is checked.
ParseTimeAgo(input, now) ==
    LET toks == SelectSeq(Front(input), LAMBDA x : ~IsFiller(x))
        n == Len(toks) \div 2
        pair(i) == IF toks[2 * i - 1].l = "num" /\ toks[2 * i].l = "word"
                   THEN UnitDuration(toks[2 * i].v, toks[2 * i - 1].v) ELSE None
        total == FoldLeft(LAMBDA sum, i : IF sum.ok /\ pair(i).ok /\ sum.t + pair(i).t \in -MaxDuration..MaxDuration
                                          THEN Some(sum.t + pair(i).t) ELSE None,
                          Some(0), [i \in 1..n |-> i])
    IN IF input /= <<>> /\ IsWord(Last(input), "ago") /\ toks /= <<>> /\ Len(toks) % 2 = 0 /\ total.ok
       THEN Instant(now - total.t) ELSE None

\* %H:%M, then %I:%M with am or pm.
ParseTimeOfDay(input) ==
    IF Len(input) /= 1 THEN None
    ELSE CASE input[1].l = "clock24" /\ input[1].v \in 0..(Day - 1) -> Some(input[1].v)
           [] input[1].l = "clock12" /\ input[1].v.h \in 1..12 /\ input[1].v.m \in 0..59 ->
                Some((input[1].v.h % 12) * 60 + input[1].v.m + IF input[1].v.pm THEN 720 ELSE 0)
           [] OTHER -> None

NamedDays == [yesterday |-> -Day, today |-> 0, tomorrow |-> Day]

ParseNamedDay(input, now) ==
    LET rest == Tail(input)
        time == IF rest /= <<>> /\ IsWord(rest[1], "at") THEN Tail(rest) ELSE rest
        at == IF time = <<>> THEN Some(0) ELSE ParseTimeOfDay(time)
    IN IF input[1].l = "word" /\ input[1].v \in DOMAIN NamedDays /\ at.ok
       THEN Some(DayStart(now) + NamedDays[input[1].v] + at.t) ELSE None

ParseBareTime(input, now) ==
    LET at == ParseTimeOfDay(input) IN IF at.ok THEN Some(DayStart(now) + at.t) ELSE None

Month(lexeme) ==
    IF lexeme.l = "word" /\ \E m \in 1..12 : MonthNames[m] = lexeme.v
    THEN CHOOSE m \in 1..12 : MonthNames[m] = lexeme.v ELSE 0

\* "Mon DD YYYY", or "DD Mon" with the year of now.
ParseMonthNameDate(input, now) ==
    LET Date(y, m, d) == IF IsDate(y, m, d) THEN Instant(Midnight(y, m, d)) ELSE None
    IN CASE Len(input) = 3 /\ Month(input[1]) > 0 /\ input[2].l = "num" /\ input[3].l = "num" ->
              Date(input[3].v, Month(input[1]), input[2].v)
         [] Len(input) = 2 /\ Month(input[2]) > 0 /\ input[1].l = "num" ->
              Date(YearOf(now), Month(input[2]), input[1].v)
         [] OTHER -> None

FirstSome(a, b, c) == IF a.ok THEN a ELSE IF b.ok THEN b ELSE c

\* strip_trailing_offset: the last lexeme, when it is an offset.
OffsetOf(input) == IF input /= <<>> /\ Last(input).l = "offset" THEN Some(Last(input).v) ELSE None
BodyOf(input) == IF OffsetOf(input).ok THEN Front(input) ELSE input

\* MUTANT: looking the day up in UTC.
ParseFuzzyUtc(input, now) ==
    LET body == BodyOf(input)
        shift == IF OffsetOf(input).ok THEN OffsetOf(input).t ELSE 0
        local == FirstSome(ParseNamedDay(body, now), ParseBareTime(body, now), ParseMonthNameDate(body, now))
    IN IF body = <<>> THEN None
       ELSE IF ParseTimeAgo(body, now).ok THEN ParseTimeAgo(body, now)
       ELSE IF local.ok THEN Instant(local.t - shift) ELSE None

ParseFuzzy(input, now) ==
    LET body == BodyOf(input)
        shift == IF OffsetOf(input).ok THEN OffsetOf(input).t ELSE 0
        ago == ParseTimeAgo(body, now)
        anchor == Instant(now + shift)
        local == FirstSome(ParseNamedDay(body, anchor.t), ParseBareTime(body, anchor.t),
                           ParseMonthNameDate(body, anchor.t))
    IN IF body = <<>> THEN None
       ELSE IF ago.ok THEN ago
       ELSE IF anchor.ok /\ local.ok THEN Instant(local.t - shift) ELSE None

----------------------------------------------------------------------------
(* netlayout.rs: a .NET layout, character by character, to chrono items. *)

Tokens ==
    [yyyy |-> "%Y", MM |-> "%m", M |-> "%-m", dd |-> "%d", d |-> "%-d", HH |-> "%H", H |-> "%-H",
     mm |-> "%M", m |-> "%-M", fff |-> "%.3f", zzz |-> "%:z", zz |-> "%z", K |-> "%:z"]
TokenLetters == {"y", "M", "d", "H", "m", "f", "z", "K", "Q"}     \* Q: in no token
Letter(token) == CASE token = "yyyy" -> "y" [] token \in {"MM", "M"} -> "M" [] token \in {"dd", "d"} -> "d"
                   [] token \in {"HH", "H"} -> "H" [] token \in {"mm", "m"} -> "m" [] token = "fff" -> "f"
                   [] token \in {"zzz", "zz"} -> "z" [] token = "K" -> "K"
Width(token) == CASE token = "yyyy" -> 4 [] token \in {"fff", "zzz"} -> 3
                  [] token \in {"M", "d", "H", "m", "K"} -> 1 [] OTHER -> 2

\* A literal % is written %% for strftime.
LiteralItem(c) == IF c = "%" THEN "%%" ELSE c
LiteralItems(s) == [i \in DOMAIN s |-> LiteralItem(s[i])]

RunLength(layout) ==
    CHOOSE n \in 1..Len(layout) : /\ \A k \in 1..n : layout[k] = layout[1]
                                  /\ n < Len(layout) => layout[n + 1] /= layout[1]

RECURSIVE NetLayout(_)
\* A quoted literal (to the end when nothing closes it), an escaped character,
\* a whole run of one letter that must be a token, or a character as it is.
NetLayout(layout) ==
    LET c == layout[1]
        close == FindFrom(layout, <<"'">>, 2)
        run == RunLength(layout)
        token == {t \in DOMAIN Tokens : Letter(t) = c /\ Width(t) = run}
        Then(items, next) ==
            LET rest == NetLayout(From(layout, next))
            IN IF rest.ok THEN [rest EXCEPT !.items = items \o @] ELSE rest
    IN IF layout = <<>> THEN [ok |-> TRUE, items |-> <<>>]
       ELSE CASE c = "'" -> IF close = 0 THEN Then(LiteralItems(Tail(layout)), Len(layout) + 1)
                            ELSE Then(LiteralItems(SubSeq(layout, 2, close - 1)), close + 1)
              [] c = "\\" -> Then(<<LiteralItem(IF Len(layout) = 1 THEN c ELSE layout[2])>>, 3)
              [] c \in TokenLetters ->
                    IF token = {} THEN [ok |-> FALSE] ELSE Then(<<Tokens[CHOOSE t \in token : TRUE]>>, run + 1)
              [] OTHER -> Then(<<LiteralItem(c)>>, 2)

----------------------------------------------------------------------------
(* parse_net_datetime *)

OffsetItems == {"%:z", "%z"}
FieldOf == [i \in {"%Y", "%m", "%-m", "%d", "%-d", "%H", "%-H", "%M", "%-M"} |->
              CASE i = "%Y" -> "Y" [] i \in {"%m", "%-m"} -> "m" [] i \in {"%d", "%-d"} -> "d"
                [] i \in {"%H", "%-H"} -> "H" [] OTHER -> "M"]

\* chrono: one lexeme for each item; the fields read, none when one differs.
Reads(items, input) ==
    LET at(f) == {i \in DOMAIN items : items[i] \in DOMAIN FieldOf /\ FieldOf[items[i]] = f}
        fits(i) == CASE items[i] \in DOMAIN FieldOf -> input[i].l = "num"
                     [] items[i] \in OffsetItems -> input[i].l = "offset"
                     [] items[i] = "%.3f" -> input[i].l = "frac"
                     [] OTHER -> input[i].l = "char" /\ LiteralItem(input[i].v) = items[i]
        fields == {f \in {"Y", "m", "d", "H", "M"} : at(f) /= {}}
    IN IF Len(items) = Len(input) /\ \A i \in DOMAIN items : fits(i)
       THEN [ok |-> TRUE, f |-> [f \in fields |-> input[CHOOSE i \in at(f) : TRUE].v]]
       ELSE [ok |-> FALSE]

HasDate(f) == {"Y", "m", "d"} \subseteq DOMAIN f /\ IsDate(f.Y, f.m, f.d)
HasTime(f) == {"H", "M"} \subseteq DOMAIN f /\ f.H \in 0..23 /\ f.M \in 0..59

\* Date and time, else the date at midnight, else the time on now's date.
ParseNaive(items, input, now) ==
    LET read == Reads(items, input)
    IN IF ~read.ok THEN None
       ELSE CASE HasDate(read.f) /\ HasTime(read.f) ->
                   Some(Midnight(read.f.Y, read.f.m, read.f.d) + 60 * read.f.H + read.f.M)
              [] HasDate(read.f) -> Some(Midnight(read.f.Y, read.f.m, read.f.d))
              [] HasTime(read.f) -> Some(DayStart(now) + 60 * read.f.H + read.f.M)
              [] OTHER -> None

StripTrailingOffset(items) ==
    IF items /= <<>> /\ Last(items) \in OffsetItems
    THEN IF Len(items) > 1 /\ items[Len(items) - 1] = " " THEN SubSeq(items, 1, Len(items) - 2) ELSE Front(items)
    ELSE items

\* A format with an offset reads the offset first, and does without when the
\* text has none.
ParseNetDatetime(layout, input, now) ==
    LET format == NetLayout(layout)
        items == Substitute(format.items, <<".", "%.3f">>, <<"%.3f">>)
        offsets == {i \in DOMAIN items : items[i] \in OffsetItems}
        local == ParseNaive(items, input, now)
        complete == HasDate(Reads(items, input).f) /\ HasTime(Reads(items, input).f)
    IN IF ~format.ok THEN None
       ELSE IF offsets = {} THEN local
       ELSE IF local.ok /\ complete THEN Some(local.t - input[CHOOSE i \in offsets : TRUE].v)
       ELSE ParseNaive(StripTrailingOffset(items), input, now)

----------------------------------------------------------------------------
(* What a text with a date in it says. *)

\* The offset after a day or a time says whose day it is: the result is on that
\* calendar day there, at the time given there, however near midnight or New
\* Year it is here.  A span that has passed is the same everywhere.
FuzzyIsLocal(input, now) ==
    LET result == ParseFuzzy(input, now)
        body == BodyOf(input)
        shift == IF OffsetOf(input).ok THEN OffsetOf(input).t ELSE 0
        there == result.t + shift
    IN result.ok =>
        CASE IsWord(Last(body), "ago") ->
               result = ParseFuzzy(body, now)
          [] body[1].l = "word" /\ body[1].v \in DOMAIN NamedDays ->
               /\ there \div Day = (now + shift) \div Day + NamedDays[body[1].v] \div Day
               /\ Last(body).l = "word" => there % Day = 0
          [] Len(body) = 1 -> there \div Day = (now + shift) \div Day
          [] Len(body) = 2 -> /\ YearOf(there) = YearOf(now + shift)
                              /\ there % Day = 0
          [] OTHER -> there % Day = 0

\* A text written by a layout is read back by it: the instant itself when the
\* offset is there, the same local time as UTC when the layout's trailing
\* offset is missing from the text, midnight without a time, now's date
\* without a date.  spelled is a layout, token by token and literal by literal.
Spell(spelled) ==
    Glue([i \in DOMAIN spelled |->
            IF spelled[i] \in DOMAIN Tokens THEN [k \in 1..Width(spelled[i]) |-> Letter(spelled[i])]
            ELSE IF spelled[i] \in TokenLetters \cup {"\\", "'"} THEN <<"\\", spelled[i]>>
            ELSE <<spelled[i]>>])
\* The dot before fff is the fraction's own.
Written(layout, f) ==
    LET spelled == Substitute(layout, <<".", "fff">>, <<"fff">>) IN
    [i \in DOMAIN spelled |->
        IF spelled[i] \notin DOMAIN Tokens THEN Char(spelled[i])
        ELSE CASE Letter(spelled[i]) = "y" -> Num(f.Y) [] Letter(spelled[i]) = "M" -> Num(f.m)
               [] Letter(spelled[i]) = "d" -> Num(f.d) [] Letter(spelled[i]) = "H" -> Num(f.H)
               [] Letter(spelled[i]) = "m" -> Num(f.M) [] Letter(spelled[i]) = "f" -> Frac
               [] OTHER -> Offset(f.z)]
\* No token runs into another of the same letter.
Apart(spelled) ==
    \A i \in 1..(Len(spelled) - 1) :
        {spelled[i], spelled[i + 1]} \subseteq DOMAIN Tokens => Letter(spelled[i]) /= Letter(spelled[i + 1])
Tells(spelled, letters) == letters \subseteq {Letter(t) : t \in ToSet(spelled) \cap DOMAIN Tokens}
IsZone(token) == token \in {"zzz", "zz", "K"}

DatesReadBack(spelled, f, now) ==
    LET read == ParseNetDatetime(Spell(spelled), Written(spelled, f), now)
        bare == ParseNetDatetime(Spell(spelled), Written(Front(spelled), f), now)
        date == Midnight(f.Y, f.m, f.d)
        zoned == \E i \in DOMAIN spelled : IsZone(spelled[i])
        Utc == CASE Tells(spelled, {"y", "M", "d", "H", "m"}) -> Some(date + 60 * f.H + f.M)
                 [] ~Tells(spelled, {"y", "M", "d", "H", "m"}) /\ Tells(spelled, {"y", "M", "d"}) -> Some(date)
                 [] ~Tells(spelled, {"y", "M", "d"}) /\ Tells(spelled, {"H", "m"}) ->
                      Some(DayStart(now) + 60 * f.H + f.M)
                 [] OTHER -> None
    IN Apart(spelled) =>
        /\ NetLayout(Spell(spelled)).ok
        /\ ~zoned => read = Utc
        /\ zoned /\ Tells(spelled, {"y", "M", "d", "H", "m"}) => read = Some(Utc.t - f.z)
        /\ Len(spelled) > 1 /\ IsZone(Last(spelled)) /\ spelled[Len(spelled) - 1] /= " "
             /\ (\A i \in 1..(Len(spelled) - 1) : ~IsZone(spelled[i])) => bare = Utc
=============================================================================
