------------------------------- MODULE Imports -------------------------------
(***************************************************************************)
(* lython::ImportLib (src/sema/importlib.cpp, importlib.h): the modules    *)
(* that import statements have loaded, and the analysis of one module      *)
(* inside the analysis of another.                                         *)
(*                                                                         *)
(* importfile reads a module and runs a SemanticAnalyser on it, which      *)
(* calls importfile again for each import of that module                   *)
(* (src/sema/sema_import.cpp).  `stack` holds these activations, each with *)
(* the import it will look at next.  A module is its imports: the rest of  *)
(* its text, and what `from m import x` binds, are left out.               *)
(*                                                                         *)
(* The client is the program, which imports modules and adds directories   *)
(* and native modules, one call at a time.                                 *)
(***************************************************************************)
EXTENDS Integers, Sequences, FiniteSets

CONSTANTS
  Module,     \* names of modules
  Dir,        \* directories
  Cwd,        \* the current one
  Content,    \* the modules with a file in each directory
  Programs,   \* the imports of each module, in the order of its text
  MaxDepth    \* activations of importfile the stack of the process has room for

ASSUME DirAssumption == Cwd \in Dir /\ Content \in [Dir -> SUBSET Module]
ASSUME ProgramsAssumption == Programs \subseteq [Module -> Seq(Module)]
ASSUME DepthAssumption == MaxDepth \in Nat

VARIABLES
  program,    \* the text of the modules
  syspaths,   \* ImportLib::syspaths
  imported,   \* ImportLib::imported
  stack,      \* activations of importfile
  reads,      \* modules made so far: the address of the next one
  given,      \* history: what each import was given
  errors      \* ModuleNotFoundError, by importer and module

vars == <<program, syspaths, imported, stack, reads, given, errors>>

NoModule == 0   \* nullptr, and the program as an importer

Entry == [known : BOOLEAN, mod : Nat]
Frame == [name : Module, mod : Nat, next : Nat \ {0}]

TypeOK ==
  /\ program \in Programs
  /\ syspaths \in Seq(Dir)
  /\ imported \in [Module -> Entry]
  /\ stack \in Seq(Frame)
  /\ reads \in Nat
  /\ given \subseteq [importer : Nat, name : Module, mod : Nat]
  /\ errors \subseteq Nat \X Module

(***************************************************************************)
(* importfile                                                              *)
(***************************************************************************)
\* lookup_module: the current directory, then syspaths.
Found(m) == m \in Content[Cwd] \/ \E i \in DOMAIN syspaths : m \in Content[syspaths[i]]

Importer(s) == IF s = <<>> THEN NoModule ELSE s[Len(s)].mod

Give(s, m, mod) == given' = given \union {[importer |-> Importer(s), name |-> m, mod |-> mod]}

\* A fault the runs must find: an entry that has its module before the analysis.
KnownAndRead(e) == [known |-> TRUE, mod |-> IF e.mod = NoModule THEN reads + 1 ELSE e.mod]

\* `imported[modulepath]` makes the entry; what is in it stays.
Known(e) == [known |-> TRUE, mod |-> e.mod]

\* s: the stack without this activation, the importer's import looked at.
importfile(m, s) ==
  \/ /\ imported[m].mod # NoModule
     /\ Give(s, m, imported[m].mod)
     /\ stack' = s
     /\ UNCHANGED <<imported, reads, errors>>
  \/ /\ imported[m].mod = NoModule
     /\ Found(m)
     /\ imported' = [imported EXCEPT ![m] = Known(@)]
     /\ reads' = reads + 1
     /\ stack' = Append(s, [name |-> m, mod |-> reads + 1, next |-> 1])
     /\ UNCHANGED <<given, errors>>
  \/ /\ imported[m].mod = NoModule
     /\ ~Found(m)
     /\ imported' = [imported EXCEPT ![m] = Known(@)]
     /\ errors' = errors \union {<<Importer(s), m>>}
     /\ stack' = s
     /\ UNCHANGED <<given, reads>>

Top == stack[Len(stack)]
Below == SubSeq(stack, 1, Len(stack) - 1)

\* The loop over the statements goes on with the import after this one.
LookedAt(f) == [name |-> f.name, mod |-> f.mod, next |-> f.next + 1]

\* A fault the runs must find: an import that fails is looked at again.
LookedIfFound ==
  IF Found(program[Top.name][Top.next]) THEN [stack EXCEPT ![Len(stack)] = LookedAt(@)] ELSE stack

Looked == [stack EXCEPT ![Len(stack)] = LookedAt(@)]

\* SemanticAnalyser::import, importfrom.
ImportNext ==
  /\ stack # <<>> /\ Len(stack) < MaxDepth
  /\ Top.next <= Len(program[Top.name])
  /\ importfile(program[Top.name][Top.next], Looked)
  /\ UNCHANGED <<program, syspaths>>

\* The analysis is over: importfile fills the entry and returns it.
Finish ==
  /\ stack # <<>>
  /\ Top.next > Len(program[Top.name])
  /\ imported' = [imported EXCEPT ![Top.name].mod = Top.mod]
  /\ Give(Below, Top.name, Top.mod)
  /\ stack' = Below
  /\ UNCHANGED <<program, syspaths, reads, errors>>

Analysis == ImportNext \/ Finish

(***************************************************************************)
(* The program                                                             *)
(***************************************************************************)
Import(m) ==
  /\ stack = <<>> /\ MaxDepth > 0
  /\ importfile(m, <<>>)
  /\ UNCHANGED <<program, syspaths>>

add_to_path(d) ==
  /\ stack = <<>>
  /\ d \notin {syspaths[i] : i \in DOMAIN syspaths}
  /\ syspaths' = Append(syspaths, d)
  /\ UNCHANGED <<program, imported, stack, reads, given, errors>>

\* A fault the runs must find: insert_or_assign.
Assigned(e) == [known |-> TRUE, mod |-> reads + 1]

\* imported.insert refuses a key it has, if only from an import that failed.
Inserted(e) == IF e.known THEN e ELSE [known |-> TRUE, mod |-> reads + 1]

\* A native module (newmodule, add_module) imports nothing.
add_module(m) ==
  /\ stack = <<>>
  /\ reads' = IF imported[m].known THEN reads ELSE reads + 1
  /\ imported' = [imported EXCEPT ![m] = Inserted(@)]
  /\ UNCHANGED <<program, syspaths, stack, given, errors>>

Init ==
  /\ program \in Programs
  /\ syspaths = <<>>
  /\ imported = [m \in Module |-> [known |-> FALSE, mod |-> NoModule]]
  /\ stack = <<>>
  /\ reads = 0
  /\ given = {}
  /\ errors = {}

Next ==
  \/ Analysis
  \/ \E m \in Module : Import(m) \/ add_module(m)
  \/ \E d \in Dir : add_to_path(d)

\* One thread: a call of importfile runs to its end.
Spec == Init /\ [][Next]_vars /\ WF_vars(Analysis)

(***************************************************************************)
(* Properties                                                              *)
(***************************************************************************)
\* Every import of a module is given one and the same Module, the one the
\* entry still has, and never one whose analysis is going on: importers
\* refer to its nodes and bindings for good.
OneVersion ==
  \A g \in given :
    /\ imported[g.name].mod = g.mod
    /\ \A i \in DOMAIN stack : stack[i].mod # g.mod

\* A module in the table is never replaced, by a reading of it that was under
\* way when the entry was filled, by a later import or by add_module: each
\* module is analysed to its end at most once.
NeverReplaced ==
  [][\A m \in Module : imported[m].mod # NoModule => imported'[m] = imported[m]]_vars

\* The modules that m imports, directly or not.
ImportsOf(S) == UNION {{program[m][i] : i \in DOMAIN program[m]} : m \in S}

Reachable(m) ==
  LET Step[n \in Nat] == IF n = 0 THEN ImportsOf({m})
                          ELSE Step[n - 1] \union ImportsOf(Step[n - 1])
  IN  Step[Cardinality(Module)]

MeetsCycle(m) == \E n \in {m} \union Reachable(m) : n \in Reachable(n)

\* Importing a module ends, whatever it imports and whatever is missing, if
\* no import leads to a module that imports itself, directly or not.
CallsEnd == (stack # <<>> /\ ~MeetsCycle(stack[1].name)) ~> stack = <<>>
=============================================================================
