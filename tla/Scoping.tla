------------------------------ MODULE Scoping ------------------------------
(***************************************************************************)
(* What SemanticAnalyser promises, stated without its bindings: which      *)
(* names a node needs and gives, the functions in it, and which of them    *)
(* are generators.  The meaning of a node is made of those of its parts;   *)
(* it is Python's reading of the text, and says of itself where the        *)
(* analyser is known to read differently (plain).  Four choices are those  *)
(* of the analyser: a name must be defined above its use, in a function's  *)
(* body too; a global statement uses its names; what a branch, a loop or a *)
(* case defines is defined after it; a comprehension and an except clause  *)
(* are scopes for all they define.                                         *)
(***************************************************************************)
EXTENDS Sema

-----------------------------------------------------------------------------
(* Meanings                                                                *)
(*   needs      the names to be found outside                              *)
(*   gives      the names defined for what follows, a method or a nested   *)
(*              function by its dotted name                                *)
(*   masked     those of them that a function shares with a parameter      *)
(*   generators the functions inside with a yield of their own             *)
(*   yields     is there a yield, outside of functions?                    *)
(*   defs       may there be functions or classes?                         *)
(*   again      is a second visit, that passes over functions, harmless?   *)
(*   plain      does the analyser do as the meaning says?                  *)

Nothing ==
  [needs |-> {}, gives |-> {}, masked |-> {}, generators |-> {},
   yields |-> FALSE, defs |-> FALSE, again |-> TRUE, plain |-> TRUE]
Using(id) == [Nothing EXCEPT !.needs = {id}]
Giving(name) == [Nothing EXCEPT !.gives = {name}]
Yielding == [Nothing EXCEPT !.yields = TRUE]

Then(p, q) ==
  [needs      |-> p.needs \union {id \in q.needs : <<id>> \notin p.gives},
   gives      |-> p.gives \union q.gives,
   masked     |-> p.masked \union q.masked,
   generators |-> p.generators \union q.generators,
   yields     |-> p.yields \/ q.yields,
   defs       |-> p.defs \/ q.defs,
   again      |-> p.again /\ q.again,
   plain      |-> p.plain /\ q.plain]

\* m[1], then m[2] ... as many as seq has elements.
AllOf(seq, m) ==
  LET upto[i \in 0 .. Len(seq)] == IF i = 0 THEN Nothing ELSE Then(upto[i - 1], m[i])
  IN  upto[Len(seq)]

\* In a scope of its own; a second visit would miss its functions.
Local(p) ==
  [needs |-> p.needs, gives |-> {}, masked |-> {}, generators |-> p.generators,
   yields |-> p.yields, defs |-> p.defs, again |-> ~p.defs, plain |-> p.plain]

Provided(p, condition) == [p EXCEPT !.plain = @ /\ condition]

Apart(ids, names) == \A id \in ids : <<id>> \notin names

-----------------------------------------------------------------------------
(* The meaning of a node inside the function or class ns, mean being that  *)
(* of its parts                                                            *)

All(mean, ns, nodes) == AllOf(nodes, [i \in DOMAIN nodes |-> mean[ns][nodes[i]]])

Clauses(mean, ns, test, body) == Then(All(mean, ns, test), All(mean, ns, body))

Naming(id) == IF id = "" THEN Nothing ELSE Giving(<<id>>)
GivingAll(ids) == AllOf(ids, [i \in DOMAIN ids |-> Giving(<<ids[i]>>)])
UsingAll(ids) == AllOf(ids, [i \in DOMAIN ids |-> Using(ids[i])])

\* The analyser passes over *args and **kwargs; a default value sees the
\* parameters before it, and what it defines is local to the function.
Parameters(mean, ns, args) ==
  LET defaults == AllOf(args, [i \in DOMAIN args |-> All(mean, ns, args[i].default)])
      names    == AllOf(args, [i \in DOMAIN args |-> Giving(<<args[i].id>>)])
  IN  Provided(Then(defaults, names),
               /\ \A i \in DOMAIN args : ~args[i].variadic
               /\ \A i, j \in DOMAIN args :
                    j < i => args[j].id \notin All(mean, ns, args[i].default).needs
               /\ defaults.gives = {})

\* ... takes a yield in a lambda for one of the function around it
LambdaMeaning(mean, ns, n) ==
  LET whole == Then(Parameters(mean, ns, n.args), All(mean, ns, n.value))
  IN  Provided([Local(whole) EXCEPT !.yields = FALSE], ~whole.yields)

\* ... binds the target before it looks at what is iterated
GeneratorMeaning(mean, ns, g) ==
  LET iter == All(mean, ns, g.iter)
  IN  Provided(Then(Then(iter, Giving(<<g.id>>)), All(mean, ns, g.ifs)), g.id \notin iter.needs)
ComprehensionMeaning(mean, ns, n) ==
  Local(Then(AllOf(n.gens, [i \in DOMAIN n.gens |-> GeneratorMeaning(mean, ns, n.gens[i])]),
             All(mean, ns, n.value)))

\* ... binds no name in an unpacking, and none after the `as` of a with
UnpackMeaning(mean, ns, n) ==
  Provided(Then(All(mean, ns, n.value), GivingAll(n.ids)), n.ids = <<>>)
WithMeaning(mean, ns, n) ==
  Provided(Then(Then(All(mean, ns, n.value), Naming(n.id)), All(mean, ns, n.body)), n.id = "")

\* ... has no flag for a `yield from`, and reports the name whose attribute is
\* set when it does not know the class
YieldFromMeaning(mean, ns, n) == Provided(Then(Yielding, All(mean, ns, n.value)), FALSE)
SetAttributeMeaning(mean, ns, n) ==
  Provided(Then(All(mean, ns, n.value), Using(n.id)), n.unknown = {})

ForMeaning(mean, ns, n) ==
  Then(Then(Then(All(mean, ns, n.iter), Giving(<<n.id>>)), All(mean, ns, n.body)),
       All(mean, ns, n.orelse))
WhileMeaning(mean, ns, n) == Then(Clauses(mean, ns, n.test, n.body), All(mean, ns, n.orelse))

\* ... does not visit the else of an if
IfMeaning(mean, ns, n) ==
  LET branches == AllOf(n.elifs, [i \in DOMAIN n.elifs |->
                           Clauses(mean, ns, n.elifs[i].test, n.elifs[i].body)])
  IN  Provided(Then(Then(Clauses(mean, ns, n.test, n.body), branches), All(mean, ns, n.orelse)),
               n.orelse = <<>>)

\* ... nor the finally of a try, and its else twice
HandlerMeaning(mean, ns, h) ==
  Local(Then(Then(All(mean, ns, h.test), Naming(h.id)), All(mean, ns, h.body)))
TryMeaning(mean, ns, n) ==
  LET handlers == AllOf(n.handlers, [i \in DOMAIN n.handlers |->
                                       HandlerMeaning(mean, ns, n.handlers[i])])
      orelse   == All(mean, ns, n.orelse)
  IN  Provided(Then(Then(Then(All(mean, ns, n.body), handlers), orelse), All(mean, ns, n.finalbody)),
               orelse.again /\ n.finalbody = <<>>)

CaseMeaning(mean, ns, c) ==
  Then(Then(All(mean, ns, c.pattern), All(mean, ns, c.guard)), All(mean, ns, c.body))
MatchMeaning(mean, ns, n) ==
  Then(All(mean, ns, n.value),
       AllOf(n.cases, [i \in DOMAIN n.cases |-> CaseMeaning(mean, ns, n.cases[i])]))

\* ... knows the function in its default values; visits decorators last, in the
\* scope of the body, and takes a yield in one for a yield of the body; a yield
\* in a default value is forgotten.
FunctionMeaning(mean, ns, n) ==
  LET name   == Append(ns, n.id)
      around == All(mean, name, n.decorators)
      params == Parameters(mean, name, n.args)
      body   == All(mean, name, n.body)
      whole  == Then(Then(Then(around, Local(params)), Giving(name)), Local(Then(params, body)))
      itself(condition) == IF condition THEN {name} ELSE {}
  IN  Provided([whole EXCEPT !.masked = itself(name \in params.gives),
                             !.generators = @ \union itself(body.yields),
                             !.yields = around.yields \/ params.yields,
                             !.defs = TRUE, !.again = TRUE],
               /\ ~params.yields /\ ~around.yields
               /\ Apart(params.needs, {name})
               /\ around.gives = {}
               /\ Apart(around.needs, {name} \union params.gives \union body.gives))

\* A statement in the body of a class, in the scope of the class; of a function
\* there, its name.
MemberMeaning(mean, ns, m) ==
  CASE m.kind = "assign" -> Then(All(mean, ns, m.value), Giving(<<m.id>>))
    [] m.kind = "def"    -> Giving(<<m.id>>)
    [] OTHER             -> mean[ns][m]

\* Outside, only what has a dotted name is left of that scope.
Dotted(names) == {name \in names : Len(name) > 1}
ClassScope(p) == [Local(p) EXCEPT !.gives = Dotted(p.gives), !.masked = p.masked]

\* The functions in the body, which do not see the scope of the class ...
MethodMeaning(mean, ns, m) == IF m.kind = "def" THEN mean[ns][m] ELSE Nothing

\* ... though their default values and decorators do
HeaderNeeds(mean, ns, m) ==
  IF m.kind = "def"
    THEN Parameters(mean, Append(ns, m.id), m.args).needs
           \union All(mean, Append(ns, m.id), m.decorators).needs
    ELSE {}

\* What the analyser visits of the body beside the functions: the values of
\* assignments, each on its own; and what it does not visit.
AttributeMeaning(mean, ns, m) ==
  IF m.kind = "assign" THEN Local(All(mean, ns, m.value)) ELSE Nothing
Overlooked(mean, ns, m) == m.kind \notin {"assign", "def"} /\ mean[ns][m] # Nothing

\* What the analyser visits ahead of the methods.
CtorAttributeMeaning(mean, ns, self, m) ==
  IF m.kind = "setattr" /\ m.id = self THEN All(mean, ns, m.value) ELSE Nothing
CtorMeaning(mean, ns, ctor) ==
  IF ctor.args = <<>> THEN Nothing
  ELSE Local(Then(Parameters(mean, ns, ctor.args),
                  AllOf(ctor.body, [i \in DOMAIN ctor.body |->
                           CtorAttributeMeaning(mean, ns, ctor.args[1].id, ctor.body[i])])))

\* ... knows the class in its bases and its body, in its decorators the methods
\* too, does not know the names of the body where these are used in it, and
\* overlooks the other statements there.
ClassMeaning(mean, ns, n) ==
  LET inner      == Append(ns, n.id)
      around     == All(mean, inner, n.decorators)
      bases      == All(mean, inner, n.bases)
      members    == AllOf(n.body, [i \in DOMAIN n.body |-> MemberMeaning(mean, inner, n.body[i])])
      attributes == AllOf(n.body, [i \in DOMAIN n.body |-> AttributeMeaning(mean, inner, n.body[i])])
      headers    == UNION {HeaderNeeds(mean, inner, n.body[i]) : i \in DOMAIN n.body}
      methods    == AllOf(n.body, [i \in DOMAIN n.body |-> MethodMeaning(mean, inner, n.body[i])])
      ahead      == IF Ctors(n) = {} THEN Nothing
                    ELSE CtorMeaning(mean, inner, n.body[Max(Ctors(n))])
      whole      == Then(Then(Then(Then(around, bases), ClassScope(members)), Giving(<<n.id>>)),
                         methods)
  IN  Provided([whole EXCEPT !.defs = TRUE, !.again = @ /\ ahead.again],
               /\ around.gives = {}
               /\ Apart(around.needs, {<<n.id>>} \union bases.gives \union methods.gives)
               /\ Apart(bases.needs, {<<n.id>>})
               /\ \A i \in DOMAIN n.body : ~Overlooked(mean, inner, n.body[i])
               /\ Apart(attributes.needs \union headers, {<<n.id>>} \union members.gives)
               /\ Dotted(members.gives) = {}
               /\ ahead.plain /\ ~ahead.yields
               /\ ahead.needs \subseteq methods.needs
               /\ ahead.generators \subseteq methods.generators)

MeaningOf(mean, ns, n) ==
  CASE n.kind = "name"    -> Using(n.id)
    [] n.kind = "capture" -> Giving(<<n.id>>)
    [] n.kind \in {"op", "eval"} -> All(mean, ns, n.value)
    [] n.kind = "yield"   -> Then(Yielding, All(mean, ns, n.value))
    [] n.kind = "yieldfrom" -> YieldFromMeaning(mean, ns, n)
    [] n.kind \in {"walrus", "assign"} -> Then(All(mean, ns, n.value), Giving(<<n.id>>))
    [] n.kind = "setattr" -> SetAttributeMeaning(mean, ns, n)
    [] n.kind = "aug"     -> Then(Using(n.id), All(mean, ns, n.value))
    [] n.kind = "unpack"  -> UnpackMeaning(mean, ns, n)
    [] n.kind = "global"  -> UsingAll(n.ids)
    [] n.kind = "import"  -> GivingAll(n.ids)
    [] n.kind = "lambda"  -> LambdaMeaning(mean, ns, n)
    [] n.kind = "comp"    -> ComprehensionMeaning(mean, ns, n)
    [] n.kind = "for"     -> ForMeaning(mean, ns, n)
    [] n.kind = "while"   -> WhileMeaning(mean, ns, n)
    [] n.kind = "if"      -> IfMeaning(mean, ns, n)
    [] n.kind = "with"    -> WithMeaning(mean, ns, n)
    [] n.kind = "try"     -> TryMeaning(mean, ns, n)
    [] n.kind = "match"   -> MatchMeaning(mean, ns, n)
    [] n.kind = "def"     -> FunctionMeaning(mean, ns, n)
    [] n.kind = "class"   -> ClassMeaning(mean, ns, n)

\* The meaning of nodes at most k deep.
Meaning[k \in Nat] ==
  [ns \in Seq(STRING) |-> [n \in Tree |->
     IF k = 0 THEN Nothing ELSE MeaningOf(Meaning[k - 1], ns, n)]]

ProgramMeaning == All(Meaning[MaxNesting], <<>>, program)

-----------------------------------------------------------------------------
(* Properties                                                              *)

\* The names a module starts with: the builtins and its own entry point.
Predefined == {<<b>> : b \in ToSet(Builtins)} \union {<<EntryPoint.id>>}

Undefined == {id \in ProgramMeaning.needs : <<id>> \notin Predefined}

\* Of programs that the analyser reads as they are meant (plain; the two below
\* are about the others): searching one array from its end is lexical scoping.
\* NameError is raised for exactly the names that are used where no scope
\* defines them, and what is in the bindings between two statements is what the
\* module itself defines, with its methods, and no local name of anything nested
\* in it.
NamesAreExact ==
  /\ sema.errors = Undefined
  /\ {b.name : b \in ToSet(sema.bindings)} = Predefined \union ProgramMeaning.gives

\* "NameError: Raised when using an undefined variable" (sema.h:87-88), each
\* half of it for programs that are not plain too.  No use of an undefined name
\* is passed over, in whatever part of a statement it is: an else, a finally,
\* the body of a class ...
NothingMissed == Undefined \subseteq sema.errors

\* ... and no name is reported that is defined where it is used, however the
\* visits of a class, its constructor and its methods follow each other.
NothingSpurious == sema.errors \subseteq Undefined

\* A function is a generator (calling it does not run it, vm/tree.cpp:732) if
\* and only if it has a yield of its own, not one of a function inside it.
GeneratorsYield == sema.generators = ProgramMeaning.generators

\* A function's entry has its type, which calls of it need, unless one of its
\* own parameters has its name and got the type instead.
FunctionsTyped ==
  \A i \in DOMAIN sema.bindings :
    sema.bindings[i].fun = "untyped" => sema.bindings[i].name \in ProgramMeaning.masked
=============================================================================
