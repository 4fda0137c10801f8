------------------------------- MODULE MCSema -------------------------------
(* Statements for TLC: every kind of node that opens or fills a scope, over *)
(* two names that meet as variables, parameters, targets and functions.     *)
EXTENDS SemaTrees

Simple ==
  {Eval(X), Set("x", Constant), Set("y", X), Declare("y"), Aug("x", Y),
   Eval(Op(<<Walrus("x", Y), X>>)), Set("y", LambdaOf(<<Arg("x", <<Y>>)>>, X)),
   Eval(Comp("x", Y, <<X>>, Op(<<X, Walrus("y", Constant)>>))), Eval(YieldOf(<<X>>)),
   [kind |-> "global", ids |-> <<"x">>], [kind |-> "import", ids |-> <<"x", "y">>]}

Inner ==
  {Set("x", Y), Eval(YieldOf(<<>>)), Def("y", <<>>, <<Set("z", X), Eval(YieldOf(<<X>>))>>),
   Class("y", <<X>>, <<Def("m", <<Arg("self", <<>>)>>, <<Eval(Y)>>)>>)}

Blocks ==
  {ForIn("x", Y, <<s>>, <<Set("y", X)>>) : s \in Inner}
  \union {WhileIs(X, <<s>>, <<Eval(Y)>>) : s \in Inner}
  \union {IfIs(X, <<s>>, <<Clause(Y, <<Set("y", X)>>)>>, <<>>) : s \in Inner}
  \union {WithAs(X, "", <<s>>) : s \in Inner}
  \union {TryIs(<<Set("x", Constant)>>, <<Except("y", <<s, Eval(Y)>>), Except("", <<Eval(Y)>>)>>,
                <<s>>, <<>>) : s \in Inner}
  \union {MatchIs(X, <<Capture("y"), Op(<<X>>)>>, <<Y>>, <<s>>) : s \in Inner}

Ctor(args, body) == Def("__init__", <<Arg("self", <<>>)>> \o args, body)
Methods ==
  <<Ctor(<<Arg("x", <<>>)>>, <<Set("z", X), SetAttr("self", Op(<<X, Walrus("v", X)>>))>>),
    Def("m", <<Arg("self", <<>>), Arg("m", <<Y>>)>>, <<Eval(X), Eval(N("m"))>>)>>

Definitions ==
  {Def("f", args, <<s, Eval(N("f"))>>) :
     s \in Inner, args \in {<<>>, <<Arg("x", <<Y>>), Arg("y", <<Y>>)>>, <<Arg("f", <<>>)>>}}
  \union {Decorated(Y, Def("x", <<>>, <<Eval(X)>>))}
  \union {Class("c", <<X>>, members \o Methods) :
             members \in {<<Set("w", X), Declare("z"), Pass>>,
                          <<Set("w", Op(<<Y, Walrus("x", Y)>>)), Def("x", <<Arg("self", <<>>)>>, <<Eval(YieldOf(<<X>>))>>)>>}}

MCStatement == Simple \union Blocks \union Definitions
MCNodes == AllNodes(MCStatement)

\* None of them has what the analyser is known to read differently.
ASSUME PlainAssumption == \A n \in Statement : Meaning[MaxNesting][<<>>][n].plain
=============================================================================
