----------------------------- MODULE MCSemaGaps -----------------------------
(* Statements that the analyser reads otherwise than they are meant: parts *)
(* it does not visit, and visits that come too early or without the types. *)
EXTENDS SemaTrees

Definition == Set("x", Constant)

\* The use of y is in a part that is not visited.
Unvisited ==
  {IfIs(Constant, <<Pass>>, <<>>, <<Eval(Y)>>),
   TryIs(<<Pass>>, <<Except("", <<Pass>>)>>, <<>>, <<Eval(Y)>>),
   Class("c", <<>>, <<Eval(Y)>>),
   Class("c", <<>>, <<IfIs(X, <<Set("x", Y)>>, <<>>, <<>>)>>)}

\* A constructor whose attribute is made from a local of its own, a parameter
\* whose attribute is set, and the same with a type that names no class.
Self == Arg("self", <<>>)
Reported ==
  {Class("c", <<>>, <<Def("__init__", <<Self>>, <<Set("y", Constant), SetAttr("self", Y)>>)>>),
   Class("c", <<>>, <<Set("x", Constant), Set("y", X)>>),
   Def("f", <<Arg("x", <<>>)>>, <<SetAttrOf("x", {"x"}, Constant)>>),
   Def("f", <<Arg("x", <<>>)>>, <<SetAttrOf("x", {"x", "int"}, Constant)>>)}

MCStatement == {Definition} \union Unvisited \union Reported
MCNodes == AllNodes(MCStatement)
=============================================================================
