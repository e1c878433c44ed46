------------------------------- MODULE Filter -------------------------------
(* The filter language of subscriptions (sd/filter.c): what filter_parse()  *)
(* makes of a text, what filter_str() prints, and which properties          *)
(* (sd/props.c) filter_matches() accepts. A string is a sequence of         *)
(* characters and a character a string of length one; a C string's          *)
(* terminating NUL is the end of the sequence. An index is one higher than  *)
(* the offset of the code. slist and flist are sequences.                   *)
(*                                                                          *)
(* The state is the text a client subscribes with and the properties of a   *)
(* service, which the filter is matched with.                               *)
EXTENDS Props

CONSTANTS
    Filters,        \* the filters whose texts clients write
    Alphabet,       \* the characters of a slip of the pen
    Names, Values,  \* of the properties of a service
    INT64_MAX,      \* the largest integer
    MaxProps        \* bound on the number of properties

ASSUME BoundsAssumption == INT64_MAX \in Nat /\ MaxProps \in Nat

VARIABLES
    origin,  \* the filter whose printed form text is, or Nil if it was edited
    text,
    props    \* struct props: the pairs, in the order they were added

filterVars == <<origin, text, props>>

BEGIN_EXPR == "("
END_EXPR == ")"
ANY == "*"
ESCAPE == "\\"
NOT == "!"
AND == "&"
OR == "|"
EQUAL == "="
GREATER_THAN == ">"
LESS_THAN == "<"

SPECIAL_CHARS ==
    {BEGIN_EXPR, END_EXPR, ANY, ESCAPE, NOT, AND, OR, EQUAL, GREATER_THAN, LESS_THAN}

\* The escape character taken for an ordinary one.
is_special_NoEscape(c) == c \in SPECIAL_CHARS \ {ESCAPE}

is_special(c) == c \in SPECIAL_CHARS

-----------------------------------------------------------------------------
(* Integers and their decimal form.                                         *)

Digit == <<"0", "1", "2", "3", "4", "5", "6", "7", "8", "9">>

DigitChars == Range(Digit)

RECURSIVE Decimal(_)

Decimal(n) == (IF n >= 10 THEN Decimal(n \div 10) ELSE <<>>) \o <<Digit[(n % 10) + 1]>>

\* snprintf("%ld", n)
IntStr(n) == IF n < 0 THEN <<"-">> \o Decimal(-n) ELSE Decimal(n)

RECURSIVE DigitsValue(_)

DigitsValue(s) ==
    IF s = <<>> THEN 0
    ELSE 10 * DigitsValue(Front(s)) + ((CHOOSE d \in 1..10 : Digit[d] = Last(s)) - 1)

Digits(s) == IF s # <<>> /\ Head(s) \in {"-", "+"} THEN Tail(s) ELSE s

\* strtoll() converts all of s.
IsNumber(s) == Digits(s) # <<>> /\ Range(Digits(s)) \subseteq DigitChars

\* strtoll() of a number: out of range, the nearest integer in range.
strtoll(s) ==
    LET n == IF Head(s) = "-" THEN -DigitsValue(Digits(s)) ELSE DigitsValue(Digits(s))
    IN  IF n > INT64_MAX THEN INT64_MAX
        ELSE IF n < -INT64_MAX - 1 THEN -INT64_MAX - 1
        ELSE n

-----------------------------------------------------------------------------
(* The filters. An absent part of a substring filter is the empty string:   *)
(* the parser makes no empty parts.                                         *)

comparison_create(op, key, value) == [op |-> op, key |-> key, value |-> value]

greater_than_create(key, n) == comparison_create(GREATER_THAN, key, IntStr(n))

less_than_create(key, n) == comparison_create(LESS_THAN, key, IntStr(n))

present_create(key) == [op |-> "present", key |-> key]

substring_create(key, initial, intermediate, final) ==
    [op |-> "substring", key |-> key, initial |-> initial,
     intermediate |-> intermediate, final |-> final]

not_create(operand) == [op |-> NOT, operand |-> operand]

composite_create(op, operands) == [op |-> op, operands |-> operands]

-----------------------------------------------------------------------------
(* Printing.                                                                *)

filter_escape(s) ==
    FlattenSeq([i \in DOMAIN s |-> IF is_special(s[i]) THEN <<ESCAPE, s[i]>> ELSE <<s[i]>>])

comparison_str(f) == filter_escape(f.key) \o <<f.op>> \o filter_escape(f.value)

present_str(f) == filter_escape(f.key) \o <<EQUAL, ANY>>

substring_str(f) ==
    filter_escape(f.key) \o <<EQUAL>> \o filter_escape(f.initial) \o <<ANY>>
    \o FlattenSeq([i \in DOMAIN f.intermediate |->
                      Append(filter_escape(f.intermediate[i]), ANY)])
    \o filter_escape(f.final)

RECURSIVE filter_str(_)

not_str(f) == <<NOT>> \o filter_str(f.operand)

composite_str(f) ==
    <<f.op>> \o FlattenSeq([i \in DOMAIN f.operands |-> filter_str(f.operands[i])])

filter_str(f) ==
    <<BEGIN_EXPR>>
    \o (CASE f.op \in {AND, OR} -> composite_str(f)
          [] f.op = NOT -> not_str(f)
          [] f.op = "present" -> present_str(f)
          [] f.op = "substring" -> substring_str(f)
          [] OTHER -> comparison_str(f))
    \o <<END_EXPR>>

-----------------------------------------------------------------------------
(* Parsing. A parser takes the input and the index it starts at, and        *)
(* returns what it has parsed and the index of the next character.          *)

Parsed(val, at) == [val |-> val, at |-> at]

Failed == Parsed(Nil, 0)

HasFailed(r) == r.at = 0

\* Is there a character to take? What input_is_current() says of the character
\* is only tested for the end of the input, so that any other one will do.
input_expect(s, i, expected) == i <= Len(s)

RECURSIVE parse_str(_, _, _)

\* The characters up to a special one, after those in result.
parse_str(s, i, result) ==
    IF i > Len(s) THEN Failed
    ELSE IF s[i] = ESCAPE
         THEN IF i + 1 <= Len(s) /\ is_special(s[i + 1])
              THEN parse_str(s, i + 2, Append(result, s[i + 1]))
              ELSE Failed
    ELSE IF is_special(s[i]) THEN Parsed(result, i)
    ELSE parse_str(s, i + 1, Append(result, s[i]))

\* A leading space is not a digit or a sign: isspace() and strtoll() in one.
parse_int(s, i) ==
    LET r == parse_str(s, i, <<>>)
    IN  IF HasFailed(r) \/ ~IsNumber(r.val) THEN Failed
        ELSE Parsed(strtoll(r.val), r.at)

RECURSIVE parse_parts(_, _, _)

\* The intermediate parts, each before a *, and the final one.
parse_parts(s, i, intermediate) ==
    LET r == parse_str(s, i, <<>>)
    IN  IF HasFailed(r) THEN Failed
        ELSE IF s[r.at] # ANY THEN Parsed([intermediate |-> intermediate, final |-> r.val], r.at)
        ELSE IF r.val = <<>> THEN Failed
        ELSE parse_parts(s, r.at + 1, Append(intermediate, r.val))

parse_substring_and_present(s, i, key, first_part_value) ==
    LET r == parse_parts(s, i, <<>>)
    IN  IF HasFailed(r) THEN Failed
        ELSE IF first_part_value = <<>> /\ r.val = [intermediate |-> <<>>, final |-> <<>>]
        THEN Parsed(present_create(key), r.at)
        ELSE Parsed(substring_create(key, first_part_value, r.val.intermediate, r.val.final), r.at)

parse_equal(s, i, key) ==
    LET r == parse_str(s, i + 1, <<>>)
    IN  IF ~input_expect(s, i, EQUAL) \/ HasFailed(r) THEN Failed
        ELSE IF s[r.at] = ANY THEN parse_substring_and_present(s, r.at + 1, key, r.val)
        ELSE Parsed(comparison_create(EQUAL, key, r.val), r.at)

parse_greater_and_less_than(s, i, key, op) ==
    LET r == parse_int(s, i + 1)
    IN  IF ~input_expect(s, i, op) \/ HasFailed(r) THEN Failed
        ELSE IF op = GREATER_THAN THEN Parsed(greater_than_create(key, r.val), r.at)
        ELSE Parsed(less_than_create(key, r.val), r.at)

\* What follows a key depends on the operator.
parse_operator(s, i, key) ==
    CASE s[i] = EQUAL -> parse_equal(s, i, key)
      [] s[i] \in {GREATER_THAN, LESS_THAN} ->
            parse_greater_and_less_than(s, i, key, s[i])
      [] OTHER -> Failed

\* An empty key goes through.
parse_simple_EmptyKey(s, i) ==
    LET r == parse_str(s, i, <<>>)
    IN  IF HasFailed(r) THEN Failed ELSE parse_operator(s, r.at, r.val)

parse_simple(s, i) ==
    LET r == parse_str(s, i, <<>>)
    IN  IF HasFailed(r) \/ r.val = <<>> THEN Failed ELSE parse_operator(s, r.at, r.val)

RECURSIVE parse(_, _)

parse_not(s, i) ==
    LET r == parse(s, i + 2)
    IN  IF \/ ~input_expect(s, i, NOT)
           \/ ~input_expect(s, i + 1, BEGIN_EXPR)
           \/ HasFailed(r)
           \/ ~input_expect(s, r.at, END_EXPR)
        THEN Failed
        ELSE Parsed(not_create(r.val), r.at + 1)

RECURSIVE parse_operands(_, _, _)

parse_operands(s, i, operands) ==
    IF i > Len(s) THEN Failed
    ELSE IF s[i] = BEGIN_EXPR
         THEN LET r == parse(s, i + 1)
              IN  IF HasFailed(r) \/ ~input_expect(s, r.at, END_EXPR) THEN Failed
                  ELSE parse_operands(s, r.at + 1, Append(operands, r.val))
    ELSE IF s[i] = END_EXPR /\ Len(operands) >= 2 THEN Parsed(operands, i)
    ELSE Failed

parse_composite(s, i, op) ==
    LET r == parse_operands(s, i + 1, <<>>)
    IN  IF HasFailed(r) THEN Failed ELSE Parsed(composite_create(op, r.val), r.at)

parse(s, i) ==
    IF i > Len(s) THEN Failed
    ELSE CASE s[i] \in {AND, OR} -> parse_composite(s, i, s[i])
           [] s[i] = NOT -> parse_not(s, i)
           [] OTHER -> parse_simple(s, i)

filter_parse(s) ==
    LET r == parse(s, 2)
    IN  IF \/ ~input_expect(s, 1, BEGIN_EXPR)
           \/ HasFailed(r)
           \/ ~input_expect(s, r.at, END_EXPR)
           \/ r.at < Len(s)
        THEN Nil
        ELSE r.val

-----------------------------------------------------------------------------
(* Matching.                                                                *)

comparison_matches(f, ps) ==
    \E v \in ValuesOf(ps, f.key) :
        \/ /\ f.op = EQUAL
           /\ f.value = IF v.type = "str" THEN v.str ELSE IntStr(v.int64)
        \/ /\ f.op = GREATER_THAN
           /\ v.type = "int64"
           /\ v.int64 > strtoll(f.value)
        \/ /\ f.op = LESS_THAN
           /\ v.type = "int64"
           /\ v.int64 < strtoll(f.value)

\* The offset of the first occurrence of part in s from offset from on, or -1.
strstr(s, from, part) ==
    LET found == {o \in from..Len(s) - Len(part) : SubSeq(s, o + 1, o + Len(part)) = part}
    IN  IF found = {} THEN -1 ELSE CHOOSE o \in found : \A x \in found : o <= x

\* Where to continue after a part of that length that was found at start.
next_offset(start, length) == -start + length

\* The final part is looked for at the end, wherever the parts before it end.
ends_with_Overlapping(s, offset, final) == IsSuffix(final, s)

\* The final part is at the end, and not before offset.
ends_with(s, offset, final) == Len(s) - offset >= Len(final) /\ IsSuffix(final, s)

RECURSIVE search_from(_, _, _, _)

\* The results of looking for the intermediate parts and then the final one from
\* offset on. What is read before the first character of s is undefined.
search_from(s, offset, parts, final) ==
    CASE parts = <<>> /\ final = <<>> -> {TRUE}
      [] offset < 0 /\ (parts # <<>> \/ final # <<>>) -> BOOLEAN
      [] offset >= 0 /\ parts = <<>> /\ final # <<>> -> {ends_with(s, offset, final)}
      [] offset >= 0 /\ parts # <<>> ->
            LET start == strstr(s, offset, Head(parts))
            IN  IF start = -1 THEN {FALSE}
                ELSE search_from(s, next_offset(start, Len(Head(parts))), Tail(parts), final)

\* The results the search in one string value can have.
substring_search(f, s) ==
    IF IsPrefix(f.initial, s)
    THEN search_from(s, Len(f.initial), f.intermediate, f.final)
    ELSE {FALSE}

\* The search stops at the first value that matches.
substring_matches(f, ps) ==
    LET results == {substring_search(f, v.str) : v \in {x \in ValuesOf(ps, f.key) : x.type = "str"}}
    IN  IF {TRUE} \in results THEN {TRUE}
        ELSE IF BOOLEAN \in results THEN BOOLEAN
        ELSE {FALSE}

RECURSIVE filter_matches(_, _)

not_matches(f, ps) == {~b : b \in filter_matches(f.operand, ps)}

\* An operand of an OR that matches, or one of an AND that does not, decides.
composite_matches(f, ps) ==
    LET results == {filter_matches(f.operands[i], ps) : i \in DOMAIN f.operands}
        decisive == (f.op = OR)
    IN  IF {decisive} \in results THEN {decisive}
        ELSE IF BOOLEAN \in results THEN BOOLEAN
        ELSE {~decisive}

\* The set of results filter_matches() can have.
filter_matches(f, ps) ==
    CASE f.op \in {AND, OR} -> composite_matches(f, ps)
      [] f.op = NOT -> not_matches(f, ps)
      [] f.op = "present" -> {props_has(ps, f.key)}
      [] f.op = "substring" -> substring_matches(f, ps)
      [] OTHER -> {comparison_matches(f, ps)}

-----------------------------------------------------------------------------
(* The steps: what a client writes and what a service has.                  *)

FilterInit ==
    /\ origin \in Filters
    /\ text = filter_str(origin)
    /\ props = <<>>

\* A client's text has a character left out, put in or replaced. Only the
\* parser sees it: the properties matter to printed texts alone.
Slip(i, taken, put) ==
    /\ origin # Nil
    /\ props = <<>>
    /\ i + taken <= Len(text) + 1
    /\ origin' = Nil
    /\ text' = SubSeq(text, 1, i - 1) \o put \o SubSeq(text, i + taken, Len(text))
    /\ UNCHANGED props

props_add(name, value) ==
    /\ origin # Nil
    /\ Len(props) < MaxProps
    /\ props' = Append(props, Pair(name, value))
    /\ UNCHANGED <<origin, text>>

FilterNext ==
    \/ \E i \in 1..Len(text) + 1, taken \in {0, 1}, put \in {<<>>} \cup {<<c>> : c \in Alphabet} :
            Slip(i, taken, put)
    \/ \E name \in Names, value \in Values : props_add(name, value)

FilterSpec == FilterInit /\ [][FilterNext]_filterVars

-----------------------------------------------------------------------------
(* Properties.                                                              *)

\* What filter_str() prints of a filter, filter_parse() reads as the same
\* filter, escaped characters included. Different filters therefore print
\* differently, which is what makes filter_equal(), a comparison of printed
\* forms, an equality.
RoundTrip == origin # Nil => filter_parse(text) = origin

RECURSIVE WellFormed(_)

\* What the matcher and the printer take for granted of a filter.
WellFormed(f) ==
    CASE f.op \in {AND, OR} ->
            Len(f.operands) >= 2 /\ \A i \in DOMAIN f.operands : WellFormed(f.operands[i])
      [] f.op = NOT -> WellFormed(f.operand)
      [] f.op = "substring" ->
            /\ f.key # <<>>
            /\ \/ f.initial # <<>> \/ f.intermediate # <<>> \/ f.final # <<>>
            /\ <<>> \notin Range(f.intermediate)
      [] f.op \in {GREATER_THAN, LESS_THAN} ->
            f.key # <<>> /\ IsNumber(f.value) /\ f.value = IntStr(strtoll(f.value))
      [] OTHER -> f.key # <<>>

\* Whatever a client writes is rejected, or becomes a filter that is well
\* formed and that the daemon prints (for a listing of subscriptions) as a
\* text that is accepted and means the same: no text, however malformed,
\* gives a filter that does not survive the way to another client and back.
NormalForm ==
    LET f == filter_parse(text)
    IN  f # Nil => WellFormed(f) /\ filter_parse(filter_str(f)) = f

\* A value has the initial part, the intermediate ones in their order and the
\* final part, none of them overlapping.
Glob(f, s) ==
    LET n == Len(f.intermediate)
        part(j) == IF j = 0 THEN f.initial ELSE IF j > n THEN f.final ELSE f.intermediate[j]
    IN  \E at \in [0..n + 1 -> 0..Len(s)] :
            /\ at[0] = 0
            /\ at[n + 1] + Len(part(n + 1)) = Len(s)
            /\ \A j \in 0..n : at[j] + Len(part(j)) <= at[j + 1]
            /\ \A j \in 0..n + 1 : SubSeq(s, at[j] + 1, at[j] + Len(part(j))) = part(j)

RECURSIVE Meaning(_, _)

\* What a filter means: some property with its key has a value it allows.
Meaning(f, ps) ==
    CASE f.op = AND -> \A i \in DOMAIN f.operands : Meaning(f.operands[i], ps)
      [] f.op = OR -> \E i \in DOMAIN f.operands : Meaning(f.operands[i], ps)
      [] f.op = NOT -> ~Meaning(f.operand, ps)
      [] OTHER ->
            \E i \in DOMAIN ps :
                LET value == ps[i].value
                IN  /\ ps[i].name = f.key
                    /\ CASE f.op = "present" -> TRUE
                         [] f.op = "substring" -> value.type = "str" /\ Glob(f, value.str)
                         [] f.op = EQUAL ->
                                value \in {pvalue_str_create(f.value)}
                                    \cup {pvalue_int64_create(n) : n \in {m \in -INT64_MAX - 1..INT64_MAX :
                                                                    IntStr(m) = f.value}}
                         [] f.op = GREATER_THAN -> value.type = "int64" /\ value.int64 > strtoll(f.value)
                         [] f.op = LESS_THAN -> value.type = "int64" /\ value.int64 < strtoll(f.value)

RECURSIVE SearchesOn(_)

\* The filter looks for a part after an intermediate one.
SearchesOn(f) ==
    CASE f.op \in {AND, OR} -> \E i \in DOMAIN f.operands : SearchesOn(f.operands[i])
      [] f.op = NOT -> SearchesOn(f.operand)
      [] f.op = "substring" ->
            Len(f.intermediate) + (IF f.final = <<>> THEN 0 ELSE 1) >= 2 /\ f.intermediate # <<>>
      [] OTHER -> FALSE

\* filter_matches() has one result, the one the filter means, for every set of
\* properties with any number of values under one name, as long as the filter
\* looks for nothing after an intermediate part.
MatchesMeaning ==
    origin # Nil /\ ~SearchesOn(origin) =>
        filter_matches(origin, props) = {Meaning(origin, props)}

\* The same of every filter: the test of substring filters in
\* test/sd/filter_testcases.c takes "(key=*a*l*)" to ask for an "a" and, after
\* it, an "l".
SubstringsInOrder ==
    origin # Nil => Meaning(origin, props) \in filter_matches(origin, props)

\* check_valid() in test/sd/filter_testcases.c takes a text for accepted only
\* if the filter is printed as that text.
AcceptedAsWritten ==
    filter_parse(text) # Nil => filter_str(filter_parse(text)) = text
=============================================================================
