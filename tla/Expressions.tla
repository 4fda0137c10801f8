----------------------------- MODULE Expressions -----------------------------
(***************************************************************************)
(* lython::Parser (src/parser/parser.cpp): how parse_expression and what   *)
(* it calls make a tree of the tokens of an expression.                    *)
(*                                                                         *)
(* The parser is a set of operators on a record p: the tokens and the      *)
(* place it is at, the nodes made so far, the stack parsing_context, what  *)
(* the last call returned (`out`, Null for nullptr) and how it failed: by  *)
(* an exception ("error"), or by a loop that does not advance ("hang").    *)
(* A node has the node that owns it (GCObject::parent, 0 the statement),   *)
(* its sub-expressions in the order they were added, and before each of    *)
(* them the words it stands for in the source.                             *)
(*                                                                         *)
(* The state machine types a sentence token by token and reads what there  *)
(* is; a sentence the parser refuses, or stops before the end of, is typed *)
(* on only if the grammar may still take it.                               *)
(*                                                                         *)
(* One identifier stands for names, constants and strings, one operator    *)
(* for each family; lambda, await, yield and format strings are left out.  *)
(***************************************************************************)
EXTENDS Integers, Sequences, FiniteSets, SequencesExt

\* Which sentences are typed behind which words, and who reads them:
\* "statement" (the end of parse_statement) or "value" (parse_assign, ...).
CONSTANT Languages   \* records [start, tokens, longest, entry]

ASSUME LanguagesAssumption ==
  \A l \in Languages : l.longest \in Nat /\ l.entry \in {"statement", "value"}

VARIABLES language, text, read

vars == <<language, text, read>>

Grammar == INSTANCE ExpressionGrammar

Null == -1

(***************************************************************************)
(* Tokens and nodes                                                        *)
(***************************************************************************)
UnaryKind  == {"+", "not"}
BinaryKind == {"+", "*", "+="}
CmpKind    == {"<", "in"}
BoolKind   == {"and"}
tok_operator == {"+", "*", "<", "and", "not"}

is_binary_operator_family(t) == t \in BinaryKind \union CmpKind \union BoolKind

token(p)      == IF p.pos <= Len(p.text) THEN p.text[p.pos] ELSE "eof"
peek_token(p) == IF p.pos < Len(p.text) THEN p.text[p.pos + 1] ELSE "eof"
next_token(p) == [p EXCEPT !.pos = @ + 1]

Throw(p) == [p EXCEPT !.failed = "error"]

expect_token(p, t) == IF token(p) = t THEN next_token(p) ELSE Throw(p)

\* What follows a call that may throw.
Then(p, F(_)) == IF p.failed = "no" THEN F(p) ELSE p

\* GCObject::new_object, with the sub-expressions the caller sets right away.
new_object(p, kind, parent, kids) ==
  [p EXCEPT !.nodes = Append(@, [kind |-> kind, parent |-> parent, kids |-> kids,
                                 words |-> [i \in DOMAIN kids |-> <<>>]]),
            !.out = Len(p.nodes) + 1]

move(p, n, newparent) == [p EXCEPT !.nodes[n].parent = newparent]

\* n gets one more sub-expression, and the words before it.
Attach(p, n, words, kid) ==
  [p EXCEPT !.nodes[n].kids = Append(@, kid), !.nodes[n].words = Append(@, words),
            !.out = n]

allow_slice(p)      == p.context # <<>> /\ Last(p.context) = "Slice"
InComprehension(p)  == p.context # <<>> /\ Last(p.context) = "Comprehension"

Push(p, c) == [p EXCEPT !.context = Append(@, c)]

\* A fault the runs must find: a context that outlives its brackets.
KeepContext(p) == p

Pop(p) == [p EXCEPT !.context = Front(@)]

RECURSIVE parse_expression(_, _, _)

\* The next sub-expression of n; what it makes belongs to owner.
Operand(p, n, owner, words) ==
  Then(parse_expression(p, owner, FALSE), LAMBDA r : Attach(r, n, words, r.out))

(***************************************************************************)
(* Operators                                                               *)
(***************************************************************************)
\* safe_comparator_add, safe_value_add: neither itself nor what is there.
\* A Compare keeps its first operand apart, in `left`.
MayAdd(p, n, value) ==
  LET node == p.nodes[n]
      from == IF node.kind = "Compare" THEN 2 ELSE 1
  IN  /\ value # n
      /\ \A i \in from..Len(node.kids) : node.kids[i] # value

\* The node an operator's operands go to. A comparison whose parent is a
\* comparison, and an `and` whose parent is one, join it.
Join(p, parent, kind, lhs) ==
  IF parent # 0 /\ p.nodes[parent].kind = kind
  THEN IF MayAdd(p, parent, lhs)
       THEN [p EXCEPT !.nodes[parent].kids = Append(@, lhs), !.out = parent]
       ELSE Throw(p)
  ELSE new_object(p, kind, parent, <<lhs>>)

OpenOperator(p, parent, lhs) ==
  CASE token(p) \in BinaryKind -> new_object(p, "BinOp", parent, <<lhs>>)
    [] token(p) \in CmpKind    -> Join(p, parent, "Compare", lhs)
    [] token(p) \in BoolKind   -> Join(p, parent, "BoolOp", lhs)

\* The operator is a word before the operand that is still to come.
Word(p, n) == [p EXCEPT !.nodes[n].words = Append(@, <<token(p)>>)]

\* Faults the runs must find: the operand added unconditionally, or in front.
CloseOperatorOnItself(p, n, t) ==
  [p EXCEPT !.nodes[n].kids = Append(@, p.out), !.out = n]

CloseOperatorSwapped(p, n, t) ==
  IF p.out = n THEN p
  ELSE [p EXCEPT !.nodes[n].kids = <<p.out>> \o @, !.out = n]

\* The right operand has been read: p.out. It is the node itself when its
\* first operator has joined it, which has added the operands already.
CloseOperator(p, n, t) ==
  LET rhs == p.out
      added == [p EXCEPT !.nodes[n].kids = Append(@, rhs), !.out = n]
  IN  CASE t \in BinaryKind -> added
        [] t \in CmpKind    -> IF rhs # n /\ MayAdd(p, n, rhs) THEN added ELSE p
        [] t \in BoolKind   -> IF rhs # n THEN added ELSE p

\* One turn of the loop, and the next. min_precedence is 0 in every call, and
\* the climbing loop behind the right operand never runs: parse_expression
\* stops at no operator.
RECURSIVE parse_operators(_, _, _)
parse_operators(p, parent, lhs) ==
  LET t == token(p)
      Open(q) == LET n == q.out
                 IN  Then(parse_expression(next_token(Word(q, n)), n, FALSE),
                          LAMBDA r : parse_operators(CloseOperator(r, n, t), n, n))
  IN  IF is_binary_operator_family(t)
      THEN Then(OpenOperator(p, parent, lhs), Open)
      ELSE [p EXCEPT !.out = lhs]

\* A `*` makes a Starred, and leaves an empty UnaryOp with the owner.
parse_prefix_unary(p, parent) ==
  IF token(p) = "*" \/ token(p) \in UnaryKind
  THEN LET q == new_object(p, IF token(p) = "*" THEN "Starred" ELSE "UnaryOp", parent, <<>>)
       IN  Operand(next_token(q), q.out, q.out, <<token(p)>>)
  ELSE Throw(p)

(***************************************************************************)
(* What follows an expression                                              *)
(***************************************************************************)
parse_attribute(p, parent, primary) ==
  Then(expect_token(next_token(new_object(p, "Attribute", parent, <<primary>>)), "a"),
       LAMBDA q : [q EXCEPT !.nodes[Len(p.nodes) + 1].words = <<<<>>, <<".", "a">>>>])

parse_named_expr(p, parent, primary) ==
  LET q == new_object(p, "NamedExpr", parent, <<primary>>)
  IN  Operand(next_token(q), q.out, parent, <<":=">>)

parse_ifexp(p, parent, primary) ==
  LET q == new_object(p, "IfExp", parent, <<primary>>)
      n == q.out
      Else(r) == Then(expect_token(r, "else"), LAMBDA s : Operand(s, n, n, <<"else">>))
  IN  Then(Operand(next_token(move(q, primary, n)), n, n, <<"if">>), Else)

\* Called for a ',' too, which is then not the ':' it expects.
parse_slice(p, parent, primary) ==
  LET q == new_object(p, "Slice", parent, <<primary>>)
      n == q.out
  IN  Then(expect_token(q, ":"),
           LAMBDA r : Then(Operand(r, n, n, <<":">>),
                           LAMBDA s : IF token(s) = ":"
                                      THEN Operand(next_token(s), n, n, <<":">>)
                                      ELSE s))

\* Once an argument has a keyword, every later one must.
RECURSIVE parse_call_args(_, _, _)
parse_call_args(p, expr, keyword) ==
  LET kw == keyword \/ (token(p) = "a" /\ peek_token(p) = "=")
      Named(q) == Then(expect_token(q, "="), LAMBDA r : Operand(r, expr, expr, <<"a", "=">>))
      arg == IF kw THEN Then(expect_token(p, "a"), Named) ELSE Operand(p, expr, expr, <<>>)
      More(q) == IF token(q) = ","
                 THEN parse_call_args(next_token(q), expr, kw)
                 ELSE expect_token(q, ")")
  IN  IF token(p) = ")" THEN next_token(p) ELSE Then(arg, More)

parse_call(p, parent, primary) ==
  LET q == new_object(p, "Call", parent, <<primary>>)
  IN  Then(parse_call_args(next_token(q), q.out, FALSE), LAMBDA r : [r EXCEPT !.out = q.out])

\* The TupleExpr of several subscripts is left out: no ',' gets that far.
RECURSIVE Subscripts(_, _)
Subscripts(p, expr) ==
  IF token(p) = "]" THEN p
  ELSE Then(Operand(p, expr, expr, <<>>),
            LAMBDA q : IF token(q) = "," THEN Subscripts(next_token(q), expr)
                                         ELSE expect_token(q, "]"))

parse_subscript(p, parent, primary) ==
  LET q == new_object(p, "Subscript", parent, <<primary>>)
  IN  Then(Subscripts(next_token(Push(q, "Slice")), q.out),
           LAMBDA r : IF Len(r.nodes[q.out].kids) = 1 THEN Throw(r)
                      ELSE [Pop(r) EXCEPT !.out = q.out])

(***************************************************************************)
(* Brackets                                                                *)
(***************************************************************************)
\* Elements after a first one and its ','; close is "eof" for a bare tuple.
RECURSIVE Elements(_, _, _, _)
Elements(p, n, parent, close) ==
  Then(Operand(p, n, parent, <<>>),
       LAMBDA q : CASE token(q) = "," -> Elements(next_token(q), n, parent, close)
                    [] close = "eof"  -> q
                    [] OTHER          -> expect_token(q, close))

parse_literal(p, kind, parent, child, close) ==
  LET q == new_object(p, kind, parent, <<child>>)
  IN  Then(Elements(q, q.out, parent, close), LAMBDA r : [r EXCEPT !.out = q.out])

\* A ',' before the closing bracket ends the loop and leaves the bracket.
RECURSIVE Items(_, _, _, _)
Items(p, n, parent, close) ==
  LET Value(q) == Then(expect_token(q, ":"), LAMBDA r : Operand(r, n, parent, <<":">>))
      More(q)  == IF token(q) = "," THEN Items(next_token(q), n, parent, close)
                                    ELSE expect_token(q, close)
  IN  IF token(p) = close THEN p
      ELSE Then(Then(Operand(p, n, parent, <<>>), Value), More)

\* The element a bracket starts with: an expression, or a key and its value.
First(p, kind, parent, child) ==
  LET q == new_object(p, kind, parent, child)
  IN  IF Len(child) = 2 THEN [q EXCEPT !.nodes[q.out].words[2] = <<":">>] ELSE q

parse_dictliteral(p, parent, child, close) ==
  LET q == First(p, "DictExpr", parent, child)
  IN  Then(Items(q, q.out, parent, close), LAMBDA r : [r EXCEPT !.out = q.out])

\* A '(' before the targets is eaten, and its ')' not. The tuple of several
\* targets is left out.
RECURSIVE Targets(_, _, _, _)
RECURSIVE parse_expression_primary(_, _)
Targets(p, n, parent, words) ==
  Then(parse_expression_primary(p, parent),
       LAMBDA q : LET r == Attach(q, n, words, q.out)
                  IN  IF token(r) = "," THEN Targets(next_token(r), n, parent, <<>>) ELSE r)

parse_star_targets(p, n, parent) ==
  Targets(IF token(p) = "(" THEN next_token(p) ELSE p, n, parent, <<"for">>)

RECURSIVE Conditions(_, _)
Conditions(p, n) ==
  IF token(p) = "if"
  THEN Then(Operand(next_token(p), n, n, <<"if">>), LAMBDA q : Conditions(q, n))
  ELSE p

\* What is behind `for` belongs to the comprehension n.
RECURSIVE Generators(_, _, _)
Generators(p, n, close) ==
  LET In(q)  == Then(expect_token(q, "in"), LAMBDA r : Operand(r, n, n, <<"in">>))
      Ifs(q) == Conditions(q, n)
      For(q) == Then(Then(parse_star_targets(q, n, n), In), Ifs)
  IN  IF token(p) = close THEN p
      ELSE Then(Then(expect_token(p, "for"), For), LAMBDA q : Generators(q, n, close))

parse_comprehension(p, parent, child, close) ==
  LET q == First(p, "Comprehension", parent, child)
  IN  Then(Generators(Push(q, "Comprehension"), q.out, close),
           LAMBDA r : [expect_token(Pop(r), close) EXCEPT !.out = q.out])

\* The first element is read before the node is made, so it belongs to
\* `parent` until the end.
Bracketed(p, parent, open, child) ==
  LET close == Grammar!Closing(open)
      dictionary == Len(child) = 2
      kind == CASE open = "(" -> "TupleExpr" [] open = "[" -> "ListExpr" [] open = "{" -> "SetExpr"
      expr == CASE token(p) = "for"               -> parse_comprehension(p, parent, child, close)
                [] token(p) = "," /\ dictionary   ->
                     parse_dictliteral(next_token(p), parent, child, close)
                [] token(p) = "," /\ ~dictionary  ->
                     parse_literal(next_token(p), kind, parent, child[1], close)
                [] OTHER                          -> Throw(p)
  IN  IF token(p) \notin {"for", ","} /\ open = "(" /\ ~dictionary
      THEN [expect_token(p, ")") EXCEPT !.out = child[1]]
      ELSE Then(expr, LAMBDA q : move(q, child[1], q.out))

parse_comprehension_or_literal(p, parent) ==
  LET Item(key) == Then(parse_expression(next_token(key), parent, FALSE),
                        LAMBDA r : Bracketed(r, parent, token(p), <<key.out, r.out>>))
  IN  Then(parse_expression(next_token(p), parent, FALSE),
           LAMBDA q : IF token(q) = ":" THEN Item(q)
                      ELSE Bracketed(q, parent, token(p), <<q.out>>))

(***************************************************************************)
(* Expressions                                                             *)
(***************************************************************************)
parse_expression_primary(p, parent) ==
  CASE token(p) = "a"            -> next_token(new_object(p, "Name", parent, <<>>))
    [] token(p) \in Grammar!Brackets -> parse_comprehension_or_literal(p, parent)
    [] token(p) \in tok_operator -> parse_prefix_unary(p, parent)
    [] OTHER                     -> Throw(p)

parse_expression_1(p, parent, primary, comma) ==
  LET t == token(p)
  IN  CASE t = "("  -> parse_call(p, parent, primary)
        [] t = "."  -> parse_attribute(p, parent, primary)
        [] t = ":=" -> parse_named_expr(p, parent, primary)
        [] t = "if" /\ ~InComprehension(p) -> parse_ifexp(p, parent, primary)
        [] t \in tok_operator \union {"in"} -> parse_operators(p, parent, primary)
        [] t = "["  -> parse_subscript(p, parent, primary)
        [] t = "," /\ comma -> parse_literal(next_token(p), "TupleExpr", parent, primary, "eof")
        [] \/ t = "," /\ ~comma /\ allow_slice(p)
           \/ t = ":" /\ allow_slice(p)    -> parse_slice(p, parent, primary)
        [] OTHER    -> [p EXCEPT !.out = Null]

\* Ends at the first nullptr; a call that returns what it was given, and has
\* read nothing, is repeated for ever.
RECURSIVE Continue(_, _, _)
Continue(p, parent, comma) ==
  LET q == parse_expression_1(p, parent, p.out, comma)
  IN  CASE q.failed # "no" -> q
        [] q.out = Null    -> p
        [] q = p           -> [p EXCEPT !.failed = "hang"]
        [] OTHER           -> Continue(q, parent, comma)

parse_expression(p, parent, comma) ==
  Then(parse_expression_primary(p, parent), LAMBDA q : Continue(q, parent, comma))

Start(s) == [text |-> s, pos |-> 1, nodes |-> <<>>, context |-> <<>>,
             out |-> Null, failed |-> "no"]

\* The end of parse_statement promotes to a tuple; the value of an
\* assignment or of return is read with `comma`.
Parse(s, from) ==
  Then(parse_expression(Start(s), 0, from = "value"),
       LAMBDA p : IF from = "statement" /\ token(p) = ","
                  THEN parse_literal(next_token(p), "TupleExpr", 0, p.out, "eof")
                  ELSE p)

(***************************************************************************)
(* Sentences                                                               *)
(***************************************************************************)
Accepted == read.failed = "no" /\ read.pos > Len(text)

\* Refused at the end of what there is.
Unfinished(p) == p.failed = "error" /\ p.pos > Len(p.text)

Closers == {")", "]", "}"}

\* What closes the brackets that s leaves open.
RECURSIVE Closing(_, _)
Closing(s, open) ==
  IF s = <<>> THEN open
  ELSE Closing(Tail(s), CASE Head(s) \in Grammar!Brackets -> <<Grammar!Closing(Head(s))>> \o open
                          [] Head(s) \in Closers /\ open # <<>> -> Tail(open)
                          [] OTHER -> open)

\* Some way to end it makes it a sentence of the grammar.
Ends == {<<>>, <<"a">>, <<"else", "a">>, <<":", "a">>, <<"in", "a">>}

Hopeful ==
  \E end \in Ends :
    LET rest == end \o Closing(text, <<>>)
    IN  /\ Len(text \o rest) <= language.longest
        /\ ToSet(rest) \subseteq language.tokens
        /\ Grammar!Sentence(text \o rest)

Init ==
  /\ language \in Languages
  /\ text = language.start
  /\ read = Parse(language.start, language.entry)

Type ==
  /\ Len(text) < language.longest
  /\ Accepted \/ Unfinished(read) \/ (read.failed # "hang" /\ Hopeful)
  /\ \E t \in language.tokens : text' = Append(text, t)
  /\ read' = Parse(text', language.entry)
  /\ UNCHANGED language

Next == Type

Spec == Init /\ [][Next]_vars

(***************************************************************************)
(* Properties                                                              *)
(***************************************************************************)
\* The nodes the statement reaches through sub-expressions.
RECURSIVE Below(_, _)
Below(p, S) ==
  LET more == UNION {ToSet(p.nodes[n].kids) : n \in S}
  IN  IF more \subseteq S THEN S ELSE Below(p, S \union more)

Tree == Below(read, {read.out})

Cyclic(n) == n \in Below(read, ToSet(read.nodes[n].kids))

RECURSIVE Owners(_, _)
Owners(p, S) ==
  LET more == {p.nodes[n].parent : n \in S} \ {0}
  IN  IF more \subseteq S THEN S ELSE Owners(p, S \union more)

OwnsItself(n) == read.nodes[n].parent # 0 /\ n \in Owners(read, {read.nodes[n].parent})

RECURSIVE Yield(_, _)
Yield(p, n) ==
  IF p.nodes[n].kind = "Name" THEN <<"a">>
  ELSE FlattenSeq([i \in DOMAIN p.nodes[n].words |->
         p.nodes[n].words[i] \o IF i <= Len(p.nodes[n].kids)
                                THEN Yield(p, p.nodes[n].kids[i]) ELSE <<>>])

\* j is inside the brackets that k opens, or is in.
Encloses(k, j) ==
  LET Count(S, m) == Cardinality({i \in k + 1..m : text[i] \in S})
  IN  k < j /\ \A m \in k + 1..j - 1 : Count(Grammar!Brackets, m) >= Count(Closers, m)

\* A bracket behind an operand: the arguments of a call, or a subscript.
IsTrailer(k) ==
  text[k] \in {"(", "["} /\ k > 1 /\ text[k - 1] \in {"a"} \union Closers

\* Two operators of one family, the second behind a bracket or a `:=` that
\* the operand of the first opened and that is still open there, or followed
\* by a `+=` (which continues the chain they make as if it were a `+`). Calls,
\* subscripts and what is behind `for` have a node of their own in between.
Reopened ==
  LET Family(t) == IF t \in CmpKind THEN 1 ELSE IF t \in BoolKind THEN 2 ELSE 0
  IN  \E i, j \in DOMAIN text : \E k \in i + 1..j - 1 :
        /\ Family(text[i]) # 0 /\ Family(text[i]) = Family(text[j])
        /\ \/ /\ text[k] \in Grammar!Brackets \union {":="} /\ Encloses(k, j)
              /\ \A m \in i + 1..j - 1 : IsTrailer(m) \/ text[m] = "for" => ~Encloses(m, j)
           \/ \E m \in j + 1..Len(text) : text[m] = "+="

\* A comma inside a subscript, not behind a `for` in there: parse_slice gets it.
CommaInSubscript ==
  \E k, j \in DOMAIN text :
    /\ text[j] = "," /\ text[k] = "[" /\ IsTrailer(k) /\ Encloses(k, j)
    /\ \A m \in k + 1..j - 1 : text[m] = "for" => ~Encloses(m, j)

\* A conditional expression in a bracket behind the `for` of a comprehension:
\* the context is still Comprehension, so its `if` is not read.
IfBehindFor ==
  \E m, j \in DOMAIN text : \E k \in m + 1..j - 1 :
    /\ text[m] = "for" /\ Encloses(m, j) /\ text[j] = "if"
    /\ text[k] \in Grammar!Brackets /\ Encloses(k, j)
    /\ \A l \in k..j - 1 : text[l] = "for" \/ (text[l] = "[" /\ IsTrailer(l)) => ~Encloses(l, j)

\* A ',' before the closing bracket behind a key and its value: Items leaves
\* the bracket to whoever reads on.
LeftOpen ==
  \E i \in 1..Len(text) - 1 :
    /\ text[i] = "," /\ text[i + 1] \in {")", "]", "}"}
    /\ \E j \in 1..i : text[j] = ":"

\* A `not` behind an operand, where an operator might stand.
NotBehindOperand ==
  LET n == Len(text)
      with == Parse(Append(Front(text), "+"), language.entry)
  IN  /\ n > 1 /\ text[n] = "not"
      /\ text[n - 1] \in {"a", ")", "]", "}"}
      /\ with.failed = "error" /\ with.pos > n

\* The parser takes exactly the sentences of the grammar: what it takes is in
\* the grammar unless a dictionary ends in a comma, and what is in the grammar
\* it takes unless a comparison or an `and` is continued inside a bracket, a
\* subscript has a comma, or a generator a conditional expression in brackets.
\* And it comes back, but for a `not` where an operator is due, which
\* parse_expression asks about for ever.
TakesTheGrammar ==
  /\ Accepted /\ ~LeftOpen => Grammar!Sentence(text)
  /\ text # <<>> /\ Grammar!Sentence(text)
       => Accepted \/ Reopened \/ CommaInSubscript \/ IfBehindFor
  /\ read.failed = "hang" <=> NotBehindOperand

\* The tree of an accepted sentence, read from left to right, gives the words
\* of the sentence: no operand and no operator is lost, doubled or moved,
\* whatever operators join, promote or wrap what was read before them.
WordsInOrder ==
  LET punctuation == Grammar!Brackets \union {")", "]", "}", ","}
  IN  Accepted /\ ~(\E n \in Tree : Cyclic(n))
        => SelectSeq(Yield(read, read.out), LAMBDA t : t \notin punctuation)
           = SelectSeq(text, LAMBDA t : t \notin punctuation)

\* What is accepted is a tree, and is owned as one: no node is below itself,
\* none owns itself, and none is the operand of two others; the exception is
\* a comparison or an `and` continued inside a bracket its operand opened.
TreeUnlessReopened ==
  Accepted /\ ~Reopened =>
    \A n \in Tree :
      /\ ~Cyclic(n) /\ ~OwnsItself(n)
      /\ Cardinality({<<m, i>> \in Tree \X DOMAIN text :
                        i <= Len(read.nodes[m].kids) /\ read.nodes[m].kids[i] = n}) <= 1

\* GCObject::dump_recursive (utilities/object.cpp): "Cycles should be
\* impossible here", of the objects that own one another.
NoOwnershipCycle ==
  Accepted => \A n \in Tree : ~OwnsItself(n)

\* "a[1:2, 2:3] => Tuple(Slice(1, 2), Slice(2, 3)), a[1, 2, 3] => Tuple(1, 2,
\* 3)" (parse_subscript): a comma in a subscript is read.
SubscriptTuples ==
  Grammar!Sentence(text) /\ CommaInSubscript => Accepted \/ Reopened

\* "In case of an error (i.e unexpected token) the parser continues as if was
\* token was defined" (parser.h): whatever is typed, it does not stay there.
ComesBack == read.failed # "hang"
=============================================================================
