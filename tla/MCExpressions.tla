--------------------------- MODULE MCExpressions ---------------------------
(* Sentences for TLC: one language for each group of constructs that meet. *)
EXTENDS Expressions

L(n, from, ts) == [start |-> <<>>, tokens |-> ts, longest |-> n, entry |-> from]

\* Longer sentences, of which the first words are given
Behind(words, n, ts) == [L(n, "statement", ts) EXCEPT !.start = words]

MCLanguages ==
  { L(9,  "statement", {"a", "<", "and", "(", ")"}),                    \* joined operators
    L(6,  "value",     {"a", "+", "*", "<", "and", "not", "(", ")"}),   \* every family
    L(9,  "statement", {"a", "<", "+", "[", "]", ","}),                 \* lists and subscripts
    L(10, "value",     {"a", "<", "*", ":=", "+="}),
    L(10, "value",     {"a", "(", ")", ",", "=", "."}),                 \* calls, bare tuples
    L(9,  "statement", {"a", "[", "]", "(", ":", ","}),                 \* slices
    L(11, "statement", {"a", "{", "}", ":", ","}),                      \* dictionaries, sets
    L(10, "statement", {"a", "[", "]", "for", "in", "if", ","}),        \* comprehensions
    L(10, "statement", {"a", "<", "(", ")", "if", "else"}),             \* conditional expressions
    L(8,  "statement", {"a", "[", "]", "(", ")", ":", "for", "in", "if"}),
    Behind(<<"[", "a", "for", "a", "in">>, 13, {"a", "(", ")", "]", "if", "else"}),   \* inside generators
    Behind(<<"[", "a", "for", "a", "in">>, 15, {"a", "<", "[", "]", ","}),
    Behind(<<"a", "<", "[", "a", "for">>, 13, {"a", "<", "in", "if", "]", "+"}),     \* ... of an operand
    Behind(<<"a", "[">>, 9, {"a", "(", ")", "]", ":", ","}) }                \* inside subscripts

CycleLanguages == {L(9, "statement", {"a", "<", "[", "]", ","})}
SubscriptLanguages == {L(7, "statement", {"a", "[", "]", ":", ","})}
HangLanguages == {L(4, "statement", {"a", "+", "not"})}
=============================================================================
