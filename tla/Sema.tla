-------------------------------- MODULE Sema --------------------------------
(***************************************************************************)
(* lython::SemanticAnalyser (src/sema/sema.cpp, sema.h, bindings.h): which *)
(* names are in the bindings while a module is analysed, which uses of a   *)
(* name are reported, and which functions become generators.               *)
(*                                                                         *)
(* The bindings are one array for all scopes: a name is looked for from    *)
(* its end, a scope is closed by cutting the array back to its old size,   *)
(* and a function or a method is entered under its dotted name, here the   *)
(* sequence of the names in it.                                            *)
(*                                                                         *)
(* A program is a sequence of statements, analysed one after the other;    *)
(* each operator below takes the state of the analyser and a node of the   *)
(* tree and returns the state after it, as the visitor's methods do with   *)
(* their side effects.  exec is the visitor on the parts of the node, a    *)
(* function from nodes to functions from states to states; Visitor ties    *)
(* the knot.  Types are left out but for the one question whether a        *)
(* function's entry has its type yet; so are annotations, the other        *)
(* errors, reorder_arguments, and the dynamic flag of a binding, which     *)
(* nothing reads.  Where types decide what is done the node says how it    *)
(* comes out: unknown.  What the analysis means is said in Scoping.        *)
(***************************************************************************)
EXTENDS Naturals, Sequences, SequencesExt, FiniteSetsExt

CONSTANTS
  Statement,   \* the statements a program is made of
  Nodes,       \* they and all the nodes inside them, see Node
  MaxNesting,  \* no statement is nested deeper than this
  MaxProgram,  \* bound on the statements of a program
  Builtins     \* the names every Bindings starts with

VARIABLES
  program,   \* the statements analysed so far
  sema       \* the analyser: a record, see State

vars == <<program, sema>>

-----------------------------------------------------------------------------
(* The trees.  An "op" or "eval" stands for every expression or statement  *)
(* that only visits its parts: calls, operators, return, assert, del ...   *)

\* the nodes with parts in T
Node(T) ==
  LET Parts == Seq(T)
      Args  == Seq([id : STRING, default : Parts, variadic : BOOLEAN])
  IN  [kind : {"name", "capture"}, id : STRING]
        \union [kind : {"op", "eval", "yield", "yieldfrom"}, value : Parts]
        \union [kind : {"walrus", "assign", "aug"}, id : STRING, value : Parts]
        \union [kind : {"setattr"}, id : STRING, unknown : SUBSET STRING, value : Parts]
        \union [kind : {"unpack"}, ids : Seq(STRING), value : Parts]
        \union [kind : {"global", "import"}, ids : Seq(STRING)]
        \union [kind : {"lambda"}, args : Args, value : Parts]
        \union [kind : {"comp"}, gens : Seq([id : STRING, iter : Parts, ifs : Parts]), value : Parts]
        \union [kind : {"for"}, id : STRING, iter : Parts, body : Parts, orelse : Parts]
        \union [kind : {"while"}, test : Parts, body : Parts, orelse : Parts]
        \union [kind : {"if"}, test : Parts, body : Parts,
                elifs : Seq([test : Parts, body : Parts]), orelse : Parts]
        \union [kind : {"with"}, value : Parts, id : STRING, body : Parts]
        \union [kind : {"try"}, body : Parts,
                handlers : Seq([test : Parts, id : STRING, body : Parts]),
                orelse : Parts, finalbody : Parts]
        \union [kind : {"match"}, value : Parts,
                cases : Seq([pattern : Parts, guard : Parts, body : Parts])]
        \union [kind : {"def"}, id : STRING, args : Args, body : Parts, decorators : Parts]
        \union [kind : {"class"}, id : STRING, bases : Parts, body : Parts, decorators : Parts]

\* the nodes that are at most k deep
Nested[k \in Nat] ==
  LET parts == Nested[k - 1]
  IN  IF k = 0 THEN {} ELSE {n \in Nodes : n \in Node(parts)}
Tree == Nested[MaxNesting]

ASSUME NestingAssumption == MaxNesting \in Nat
ASSUME TreeAssumption == Statement \subseteq Tree /\ Tree \subseteq Node(Tree)
ASSUME BuiltinsAssumption == Builtins \in Seq(STRING)
ASSUME CtorAssumption == "__init__" \in STRING   \* so it is, but the provers know no string
ASSUME MaxProgramAssumption == MaxProgram \in Nat

-----------------------------------------------------------------------------
(* Bindings                                                                *)

\* fun tells a function's entry before and after its type is known.
Binding == [name : Seq(STRING), fun : {"no", "untyped", "typed"}]

State ==
  [bindings   : Seq(Binding),
   namespaces : Seq(STRING),
   contexts   : Seq(BOOLEAN) \ {<<>>},  \* semactx: has a yield been seen?
   errors     : SUBSET STRING,          \* the names of the NameErrors
   generators : SUBSET Seq(STRING),     \* the functions with n->generator
   cached     : BOOLEAN]                \* are the functions met analysed already?

\* What steps[1], then steps[2] ... make of s.
InTurn(steps, s) ==
  LET after[i \in 0 .. Len(steps)] == IF i = 0 THEN s ELSE steps[i][after[i - 1]]
  IN  after[Len(steps)]

Add(s, name, fun) == [s EXCEPT !.bindings = Append(@, [name |-> name, fun |-> fun])]
Bind(s, id) == Add(s, <<id>>, "no")

\* Bindings::find: the position of the latest entry of that name, or 0
Find(s, name) ==
  LET found == {i \in DOMAIN s.bindings : s.bindings[i].name = name}
  IN  IF found = {} THEN 0 ELSE Max(found)

SetPlainType(s, name) ==   \* fault: looks for the function by its own name
  LET i == Find(s, <<Last(name)>>)
  IN  IF i # 0 /\ s.bindings[i].fun = "untyped" THEN [s EXCEPT !.bindings[i].fun = "typed"] ELSE s
SetType(s, name) ==
  LET i == Find(s, name)
  IN  IF s.bindings[i].fun = "untyped" THEN [s EXCEPT !.bindings[i].fun = "typed"] ELSE s

\* the destructor of a Scope that was opened in state s
KeepAll(s, t) == t         \* fault: the scope is not closed
Close(s, t) == [t EXCEPT !.bindings = SubSeq(@, 1, Len(s.bindings))]

Load(s, id) == IF Find(s, <<id>>) # 0 THEN s ELSE [s EXCEPT !.errors = @ \union {id}]

\* a name met in the context Store is bound unless some scope has it
Store(s, id) == IF Find(s, <<id>>) # 0 THEN s ELSE Bind(s, id)

-----------------------------------------------------------------------------
(* Expressions                                                             *)

ExecAll(exec, s, nodes) == InTurn([i \in DOMAIN nodes |-> exec[nodes[i]]], s)

NamedExpr(exec, s, n) == Bind(ExecAll(exec, s, n.value), n.id)

\* *args and **kwargs are passed over
Argument(exec, a) ==
  [t \in State |-> IF a.variadic THEN t ELSE Bind(ExecAll(exec, t, a.default), a.id)]
AddArguments(exec, s, args) == InTurn([i \in DOMAIN args |-> Argument(exec, args[i])], s)

Lambda(exec, s, n) == Close(s, ExecAll(exec, AddArguments(exec, s, n.args), n.value))

Generator(exec, g) ==
  [t \in State |-> ExecAll(exec, ExecAll(exec, Store(t, g.id), g.iter), g.ifs)]
Comprehension(exec, s, n) ==
  Close(s, ExecAll(exec, InTurn([i \in DOMAIN n.gens |-> Generator(exec, n.gens[i])], s), n.value))

\* get_context().yield = true
Yield(exec, s, n) == ExecAll(exec, [s EXCEPT !.contexts[Len(s.contexts)] = TRUE], n.value)

-----------------------------------------------------------------------------
(* Simple statements                                                       *)

\* assign and annassign to a name
Assign(exec, s, n) == Bind(ExecAll(exec, s, n.value), n.id)
\* ... to anything else but an attribute: no name is bound
Unpack(exec, s, n) == ExecAll(exec, s, n.value)
\* ... to an attribute of a name.  NameErrors for what get_class does not find
\* (unknown): nothing when the name has a type that names a class, else the name
\* itself, and with it the type's own name where that is out of scope.
SetAttribute(exec, s, n) ==
  LET t == Load(ExecAll(exec, s, n.value), n.id)
  IN  [t EXCEPT !.errors = @ \union n.unknown]

AugAssign(exec, s, n) == ExecAll(exec, Load(s, n.id), n.value)

\* global and nonlocal
Global(s, n) == InTurn([i \in DOMAIN n.ids |-> [t \in State |-> Load(t, n.ids[i])]], s)

\* import and from ... import of names that are found
Import(s, n) == InTurn([i \in DOMAIN n.ids |-> [t \in State |-> Bind(t, n.ids[i])]], s)

-----------------------------------------------------------------------------
(* Compound statements                                                     *)

For(exec, s, n) ==
  ExecAll(exec, ExecAll(exec, Bind(ExecAll(exec, s, n.iter), n.id), n.body), n.orelse)

While(exec, s, n) == ExecAll(exec, ExecAll(exec, ExecAll(exec, s, n.test), n.body), n.orelse)

Branch(exec, b) == [t \in State |-> ExecAll(exec, ExecAll(exec, t, b.test), b.body)]

\* the else of an if is not analysed
If(exec, s, n) ==
  InTurn([i \in DOMAIN n.elifs |-> Branch(exec, n.elifs[i])], Branch(exec, n)[s])

\* the name after `as` is not bound
With(exec, s, n) == ExecAll(exec, ExecAll(exec, s, n.value), n.body)

Handler(exec, h) ==
  [t \in State |->
     LET tested == ExecAll(exec, t, h.test)
     IN  Close(t, ExecAll(exec, IF h.id = "" THEN tested ELSE Bind(tested, h.id), h.body))]

\* the else of a try is analysed twice, its functions are known the second
\* time; the finally is not analysed
Try(exec, s, n) ==
  LET handled == InTurn([i \in DOMAIN n.handlers |-> Handler(exec, n.handlers[i])],
                        ExecAll(exec, s, n.body))
      once    == ExecAll(exec, handled, n.orelse)
      again   == ExecAll(exec, [once EXCEPT !.cached = TRUE], n.orelse)
  IN  [again EXCEPT !.cached = s.cached]

\* a capture in a pattern is bound as it is met
MatchCase(exec, c) ==
  [t \in State |-> ExecAll(exec, ExecAll(exec, ExecAll(exec, t, c.pattern), c.guard), c.body)]
Match(exec, s, n) ==
  InTurn([i \in DOMAIN n.cases |-> MatchCase(exec, n.cases[i])], ExecAll(exec, s, n.value))

-----------------------------------------------------------------------------
(* Functions and classes                                                   *)

CopyContext(contexts) == Append(contexts, Last(contexts))   \* fault: not a fresh one
NewContext(contexts) == Append(contexts, FALSE)

\* functiondef_arrow: the arguments have a context of their own
FunctionArrow(exec, s, n) ==
  LET t == AddArguments(exec, [s EXCEPT !.contexts = NewContext(@)], n.args)
  IN  [t EXCEPT !.contexts = Front(@)]

\* functiondef: the entry comes before the scope, its type after the arguments
FunctionDef(exec, s, n) ==
  LET name   == Append(s.namespaces, n.id)
      opened == [Add(s, name, "untyped") EXCEPT !.namespaces = name]
      typed  == SetType(FunctionArrow(exec, opened, n), name)
      body   == ExecAll(exec, [typed EXCEPT !.contexts = NewContext(@)], n.body)
      done   == ExecAll(exec, body, n.decorators)
      left   == [Close(opened, done) EXCEPT !.namespaces = s.namespaces, !.contexts = Front(@)]
  IN  IF s.cached THEN s
      ELSE IF Last(done.contexts) THEN [left EXCEPT !.generators = @ \union {name}]
      ELSE left

\* record_attributes: of the body of a class only assigned values are analysed
Attribute(exec, m) ==
  [t \in State |-> IF m.kind = "assign" THEN Close(t, ExecAll(exec, t, m.value)) ELSE t]
RecordAttributes(exec, s, n) == InTurn([i \in DOMAIN n.body |-> Attribute(exec, n.body[i])], s)

\* record_ctor_attributes: self.<name> = <value> in the body of __init__
CtorAttribute(exec, self, m) ==
  [t \in State |-> IF m.kind = "setattr" /\ m.id = self THEN ExecAll(exec, t, m.value) ELSE t]
RecordCtorAttributes(exec, s, ctor) ==
  IF ctor.args = <<>> THEN s
  ELSE Close(s, InTurn([i \in DOMAIN ctor.body |->
                          CtorAttribute(exec, ctor.args[1].id, ctor.body[i])],
                       AddArguments(exec, s, ctor.args)))

Method(exec, m) == [t \in State |-> IF m.kind = "def" THEN exec[m][t] ELSE t]
Ctors(n) == {i \in DOMAIN n.body : n.body[i].kind = "def" /\ n.body[i].id = "__init__"}

StayInClass(s, t) == t   \* fault: the namespace is not taken off
LeaveClass(s, t) == [t EXCEPT !.namespaces = s.namespaces]

ClassDef(exec, s, n) ==
  LET opened  == [Bind(s, n.id) EXCEPT !.namespaces = Append(@, n.id)]
      static  == RecordAttributes(exec, ExecAll(exec, opened, n.bases), n)
      ctor    == IF Ctors(n) = {} THEN static
                 ELSE RecordCtorAttributes(exec, static, n.body[Max(Ctors(n))])
      methods == InTurn([i \in DOMAIN n.body |-> Method(exec, n.body[i])], ctor)
  IN  LeaveClass(s, ExecAll(exec, methods, n.decorators))

-----------------------------------------------------------------------------
(* The visitor                                                             *)

Exec(exec, s, n) ==
  CASE n.kind = "name"    -> Load(s, n.id)
    [] n.kind = "capture" -> Bind(s, n.id)
    [] n.kind \in {"op", "eval", "yieldfrom"} -> ExecAll(exec, s, n.value)
    [] n.kind = "walrus"  -> NamedExpr(exec, s, n)
    [] n.kind = "lambda"  -> Lambda(exec, s, n)
    [] n.kind = "comp"    -> Comprehension(exec, s, n)
    [] n.kind = "yield"   -> Yield(exec, s, n)
    [] n.kind = "assign"  -> Assign(exec, s, n)
    [] n.kind = "unpack"  -> Unpack(exec, s, n)
    [] n.kind = "setattr" -> SetAttribute(exec, s, n)
    [] n.kind = "aug"     -> AugAssign(exec, s, n)
    [] n.kind = "global"  -> Global(s, n)
    [] n.kind = "import"  -> Import(s, n)
    [] n.kind = "for"     -> For(exec, s, n)
    [] n.kind = "while"   -> While(exec, s, n)
    [] n.kind = "if"      -> If(exec, s, n)
    [] n.kind = "with"    -> With(exec, s, n)
    [] n.kind = "try"     -> Try(exec, s, n)
    [] n.kind = "match"   -> Match(exec, s, n)
    [] n.kind = "def"     -> FunctionDef(exec, s, n)
    [] n.kind = "class"   -> ClassDef(exec, s, n)

\* The visitor on nodes at most k deep.
Visitor[k \in Nat] ==
  [n \in Tree |-> [s \in State |-> IF k = 0 THEN s ELSE Exec(Visitor[k - 1], s, n)]]

\* the constructor of Bindings, and get_context's static global_ctx
Empty ==
  [bindings   |-> [i \in DOMAIN Builtins |-> [name |-> <<Builtins[i]>>, fun |-> "no"]],
   namespaces |-> <<>>,
   contexts   |-> <<FALSE>>,
   errors     |-> {},
   generators |-> {},
   cached     |-> FALSE]

\* module() begins with the function of its own entry point
EntryPoint == [kind |-> "def", id |-> "__init__", args |-> <<>>, body |-> <<>>, decorators |-> <<>>]
Start == Exec(Visitor[0], Empty, EntryPoint)

Init ==
  /\ program = <<>>
  /\ sema = Start

Analyse(n) ==
  /\ Len(program) < MaxProgram
  /\ program' = Append(program, n)
  /\ sema' = Visitor[MaxNesting][n][sema]

Next == \E n \in Statement : Analyse(n)

Spec == Init /\ [][Next]_vars

-----------------------------------------------------------------------------
(* Properties                                                              *)

\* Between two statements of the module every context, namespace and flag a
\* visit set is undone.
TypeOK ==
  /\ program \in Seq(Statement)
  /\ sema \in State
  /\ sema.namespaces = <<>>
  /\ Len(sema.contexts) = 1
  /\ sema.cached = FALSE

\* What the analyser, after a visit, has done to its state.
NothingLeaks(s, t) ==
  /\ t.namespaces = s.namespaces
  /\ Len(t.contexts) = Len(s.contexts)
  /\ t.cached = s.cached
  /\ IsPrefix(s.bindings, t.bindings)
  /\ s.errors \subseteq t.errors /\ s.generators \subseteq t.generators

\* Whatever functions, classes, comprehensions and handlers a statement nests,
\* no older binding moves or changes, no error is forgotten, and every
\* namespace, context and flag a visit has set is undone.  The store_id of a
\* module's names, an index in the bindings (bindings.cpp:68), stays good.
ScopesAreClosed == [][NothingLeaks(sema, sema')]_vars
=============================================================================
