------------------------------ MODULE MCFilter ------------------------------
(* The filter language on small instances: filters of every kind, with      *)
(* escaped characters, and property values that they nearly match.          *)
EXTENDS Filter

\* "a", "b" and strings of them.
A == <<"a">>
B == <<"b">>

Parts == {<<>>, A, B}

Comparisons ==
    {comparison_create(EQUAL, k, v) : k \in {A, <<"=", "b">>},
                                      v \in {<<>>, A, <<"1">>, <<"\\">>, <<"*", "a">>}}
    \cup {greater_than_create(A, n) : n \in {-12, 0, 11}}
    \cup {less_than_create(A, n) : n \in {-1, 10}}
    \cup {present_create(A), present_create(<<"!">>)}

Substrings ==
    {substring_create(A, i, m, f) : i \in Parts, f \in Parts,
                                    m \in {<<>>, <<A>>, <<B, A>>, <<A, A>>}}
        \ {substring_create(A, <<>>, <<>>, <<>>)}

\* The operands of the composite filters.
Operands ==
    {comparison_create(EQUAL, A, A), less_than_create(A, 1), present_create(B),
     substring_create(A, A, <<>>, A), not_create(present_create(A))}

Composites ==
    {not_create(f) : f \in Operands}
    \cup {composite_create(op, <<f, g>>) : op \in {AND, OR}, f, g \in Operands}
    \cup {composite_create(AND, <<present_create(A), f, present_create(B)>>) : f \in Operands}

AllFilters == Comparisons \cup Substrings \cup Composites

AllCharacters == SPECIAL_CHARS \cup {"a", "1", "-", " "}

SomeNames == {A, B}

SomeValues ==
    {pvalue_str_create(s) : s \in {A, <<"a", "a">>, <<"a", "b">>, <<"b", "a">>, <<"b", "b", "a">>,
                            <<"1">>}}
    \cup {pvalue_int64_create(n) : n \in {-12, 1, 11}}
=============================================================================
