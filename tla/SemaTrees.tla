----------------------------- MODULE SemaTrees -----------------------------
(* The trees that the MC modules make their statements of.                 *)
EXTENDS Scoping

N(id) == [kind |-> "name", id |-> id]
X == N("x")
Y == N("y")
Pass == [kind |-> "eval", value |-> <<>>]
Constant == [kind |-> "op", value |-> <<>>]
Op(args) == [kind |-> "op", value |-> args]
Walrus(id, e) == [kind |-> "walrus", id |-> id, value |-> <<e>>]
Arg(id, default) == [id |-> id, default |-> default, variadic |-> FALSE]
LambdaOf(args, e) == [kind |-> "lambda", args |-> args, value |-> <<e>>]
Comp(id, iter, ifs, e) ==
  [kind |-> "comp", gens |-> <<[id |-> id, iter |-> <<iter>>, ifs |-> ifs]>>, value |-> <<e>>]
YieldOf(value) == [kind |-> "yield", value |-> value]

Eval(e) == [kind |-> "eval", value |-> <<e>>]
Set(id, e) == [kind |-> "assign", id |-> id, value |-> <<e>>]
Declare(id) == [kind |-> "assign", id |-> id, value |-> <<>>]
SetAttrOf(id, unknown, e) == [kind |-> "setattr", id |-> id, unknown |-> unknown, value |-> <<e>>]
SetAttr(id, e) == SetAttrOf(id, {}, e)
Aug(id, e) == [kind |-> "aug", id |-> id, value |-> <<e>>]
ForIn(id, iter, body, orelse) ==
  [kind |-> "for", id |-> id, iter |-> <<iter>>, body |-> body, orelse |-> orelse]
WhileIs(test, body, orelse) == [kind |-> "while", test |-> <<test>>, body |-> body, orelse |-> orelse]
Clause(test, body) == [test |-> <<test>>, body |-> body]
IfIs(test, body, elifs, orelse) ==
  [kind |-> "if", test |-> <<test>>, body |-> body, elifs |-> elifs, orelse |-> orelse]
WithAs(e, id, body) == [kind |-> "with", value |-> <<e>>, id |-> id, body |-> body]
Except(id, body) == [test |-> <<N("int")>>, id |-> id, body |-> body]
TryIs(body, handlers, orelse, finalbody) ==
  [kind |-> "try", body |-> body, handlers |-> handlers, orelse |-> orelse, finalbody |-> finalbody]
MatchIs(e, pattern, guard, body) ==
  [kind |-> "match", value |-> <<e>>,
   cases |-> <<[pattern |-> pattern, guard |-> guard, body |-> body]>>]
Capture(id) == [kind |-> "capture", id |-> id]
Def(id, args, body) == [kind |-> "def", id |-> id, args |-> args, body |-> body, decorators |-> <<>>]
Decorated(e, def) == [def EXCEPT !.decorators = <<e>>]
Class(id, bases, body) ==
  [kind |-> "class", id |-> id, bases |-> bases, body |-> body, decorators |-> <<>>]

\* Nodes, and the nodes in their lists and in those of their clauses.
Lists == {"value", "test", "iter", "ifs", "body", "orelse", "finalbody", "decorators", "bases",
          "default", "pattern", "guard"}
ClauseLists == {"args", "gens", "elifs", "handlers", "cases"}
In(records, fields) == UNION {UNION {ToSet(r[f]) : f \in DOMAIN r \intersect fields} : r \in records}
WithParts(nodes) == nodes \union In(nodes, Lists) \union In(In(nodes, ClauseLists), Lists)

AllNodes(statements) == WithParts(WithParts(WithParts(WithParts(WithParts(statements)))))

MCBuiltins == <<"int">>
=============================================================================
