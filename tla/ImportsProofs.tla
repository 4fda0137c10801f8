---------------------------- MODULE ImportsProofs ----------------------------
(***************************************************************************)
(* Proofs about ImportLib (module Imports), for every set of modules and   *)
(* directories, every graph of imports, cycles included, and every depth   *)
(* of the stack.                                                           *)
(*                                                                         *)
(* A module may be under analysis several times at once.  That none of     *)
(* these analyses but the outermost ends is the invariant Behind: an inner *)
(* one has looked at fewer imports than the outer one, which waits for an  *)
(* import the inner one will ask for again.                                *)
(***************************************************************************)
EXTENDS Imports, TLAPS

\* The parts of the invariant, of a stack s, a table imp, r modules made, the
\* imports g of each module and the modules F that have a file.
NumberedOn(s, imp, r) ==
  /\ \A m \in Module : imp[m].mod <= r
  /\ \A i \in 1..Len(s) : s[i].mod \in 1..r
  /\ \A i \in 1..Len(s) : \A m \in Module : imp[m].mod # s[i].mod
  /\ \A i, j \in 1..Len(s) : s[i].mod = s[j].mod => i = j

\* What is under analysis has a file, and an entry without a module.
UnfinishedOn(s, imp, F) ==
  \A i \in 1..Len(s) : imp[s[i].name].mod = NoModule /\ s[i].name \in F

\* Each activation was called for the import the one below it looked at last.
ChainedOn(s, g) ==
  \A i \in 1..Len(s) :
    /\ s[i].next <= Len(g[s[i].name]) + 1
    /\ i < Len(s) => s[i].next > 1 /\ g[s[i].name][s[i].next - 1] = s[i + 1].name

BehindOn(s) ==
  \A i, j \in 1..Len(s) :
    i < j /\ s[i].name = s[j].name =>
      /\ s[j].next <= s[i].next
      /\ j = Len(s) => s[j].next < s[i].next

Files == {m \in Module : Found(m)}

Numbered   == NumberedOn(stack, imported, reads)
Unfinished == UnfinishedOn(stack, imported, Files)
Chained    == ChainedOn(stack, program)
Behind     == BehindOn(stack)

Kept == \A g \in given : g.mod # NoModule /\ imported[g.name].mod = g.mod

KnownIfRead ==
  /\ \A m \in Module : imported[m].mod # NoModule => imported[m].known
  /\ \A i \in 1..Len(stack) : imported[stack[i].name].known

IInv == TypeOK /\ Numbered /\ Unfinished /\ Chained /\ Behind /\ Kept /\ KnownIfRead

(***************************************************************************)
(* The stack                                                               *)
(***************************************************************************)
\* What the analysis leaves on the stack when it looks at an import: the same
\* activations, the last one a step further.
LEMMA LookedFacts ==
  ASSUME TypeOK, stack # <<>>
  PROVE  /\ Looked \in Seq(Frame)
         /\ Len(Looked) = Len(stack)
         /\ Len(stack) \in Nat \ {0}
         /\ DOMAIN Looked = 1..Len(stack)
         /\ \A i \in 1..Len(stack) :
              /\ Looked[i].name = stack[i].name
              /\ Looked[i].mod = stack[i].mod
              /\ Looked[i].next = IF i = Len(stack) THEN stack[i].next + 1 ELSE stack[i].next
<1>1. stack \in Seq(Frame) /\ Len(stack) \in Nat \ {0}
  BY DEF TypeOK
<1>2. \A i \in 1..Len(stack) : stack[i] \in Frame
  BY <1>1
<1>3. Looked = [i \in 1..Len(stack) |-> IF i = Len(stack) THEN LookedAt(stack[i]) ELSE stack[i]]
  BY <1>1 DEF Looked
<1>4. \A i \in 1..Len(stack) : Looked[i] \in Frame
  BY <1>2, <1>3 DEF Frame, LookedAt
<1>5. Looked \in Seq(Frame) /\ Len(Looked) = Len(stack) /\ DOMAIN Looked = 1..Len(stack)
  BY <1>1, <1>3, <1>4
<1> QED
  BY <1>1, <1>2, <1>3, <1>5 DEF LookedAt

\* A program gives each module a list of modules.
LEMMA ProgramFacts ==
  ASSUME TypeOK, NEW m \in Module
  PROVE  /\ program[m] \in Seq(Module)
         /\ Len(program[m]) \in Nat
         /\ \A i \in 1..Len(program[m]) : program[m][i] \in Module
<1>1. program \in [Module -> Seq(Module)]
  BY ProgramsAssumption DEF TypeOK
<1> QED
  BY <1>1

\* The importer of whatever is on the stack is a number.
LEMMA ImporterType ==
  ASSUME NEW s \in Seq(Frame)
  PROVE  Importer(s) \in Nat
<1>1. CASE s = <<>>
  BY <1>1 DEF Importer, NoModule
<1>2. CASE s # <<>>
  <2>1. s[Len(s)] \in Frame
    BY <1>2
  <2> QED
    BY <1>2, <2>1 DEF Importer, Frame
<1> QED
  BY <1>1, <1>2

(***************************************************************************)
(* Type correctness                                                        *)
(***************************************************************************)
\* importfile keeps the types, whatever the importer's stack.
LEMMA ImportfileType ==
  ASSUME TypeOK, NEW m \in Module, NEW s \in Seq(Frame), importfile(m, s),
         UNCHANGED <<program, syspaths>>
  PROVE  TypeOK'
<1>1. Importer(s) \in Nat
  BY ImporterType
<1>2. imported \in [Module -> Entry] /\ imported[m].mod \in Nat
  BY DEF TypeOK, Entry
<1>3. [imported EXCEPT ![m] = Known(@)] \in [Module -> Entry]
  BY <1>2 DEF Known, Entry
<1>4. CASE imported[m].mod # NoModule
  <2>1. given' \subseteq [importer : Nat, name : Module, mod : Nat]
    BY <1>1, <1>2, <1>4 DEF importfile, Give, TypeOK
  <2> QED
    BY <1>4, <2>1 DEF importfile, TypeOK
<1>5. CASE imported[m].mod = NoModule /\ Found(m)
  <2>1. [name |-> m, mod |-> reads + 1, next |-> 1] \in Frame
    BY DEF TypeOK, Frame
  <2>2. stack' \in Seq(Frame)
    BY <1>5, <2>1 DEF importfile
  <2>3. imported' \in [Module -> Entry]
    BY <1>3, <1>5 DEF importfile
  <2>4. reads' \in Nat /\ given' = given /\ errors' = errors
    BY <1>5 DEF importfile, TypeOK
  <2> QED
    BY <2>2, <2>3, <2>4 DEF TypeOK
<1>6. CASE imported[m].mod = NoModule /\ ~Found(m)
  <2>1. errors' \subseteq Nat \X Module
    BY <1>1, <1>6 DEF importfile, TypeOK
  <2> QED
    BY <1>3, <1>6, <2>1 DEF importfile, TypeOK
<1> QED
  BY <1>4, <1>5, <1>6

\* Every step keeps the types.
LEMMA TypeStep ==
  ASSUME TypeOK, [Next]_vars
  PROVE  TypeOK'
<1>1. CASE ImportNext
  <2>1. Looked \in Seq(Frame)
    BY <1>1, LookedFacts DEF ImportNext
  <2>2. Len(stack) \in 1..Len(stack) /\ Top \in Frame
    BY <1>1 DEF ImportNext, TypeOK, Top
  <2>3. program[Top.name][Top.next] \in Module
    BY <1>1, <2>2, ProgramFacts DEF ImportNext, Frame
  <2> QED
    BY <1>1, <2>1, <2>3, ImportfileType DEF ImportNext
<1>2. CASE Finish
  <2>1. Top \in Frame /\ Below \in Seq(Frame)
    BY <1>2 DEF Finish, TypeOK, Top, Below
  <2>2. Importer(Below) \in Nat /\ Top.name \in Module /\ Top.mod \in Nat
    BY <2>1, ImporterType DEF Frame
  <2>3. imported' \in [Module -> Entry]
    BY <1>2, <2>2 DEF Finish, TypeOK, Entry
  <2>4. given' \subseteq [importer : Nat, name : Module, mod : Nat]
    BY <1>2, <2>2 DEF Finish, Give, TypeOK
  <2> QED
    BY <1>2, <2>1, <2>3, <2>4 DEF Finish, TypeOK
<1>3. ASSUME NEW m \in Module, Import(m)
      PROVE  TypeOK'
  <2>1. <<>> \in Seq(Frame)
    OBVIOUS
  <2> QED
    BY <1>3, <2>1, ImportfileType DEF Import
<1>4. ASSUME NEW m \in Module, add_module(m)
      PROVE  TypeOK'
  <2>1. Inserted(imported[m]) \in Entry /\ reads' \in Nat
    BY <1>4 DEF add_module, Inserted, TypeOK, Entry
  <2>2. imported' \in [Module -> Entry]
    BY <1>4, <2>1 DEF add_module, TypeOK
  <2> QED
    BY <1>4, <2>1, <2>2 DEF add_module, TypeOK
<1>5. ASSUME NEW d \in Dir, add_to_path(d)
      PROVE  TypeOK'
  <2>1. syspaths' \in Seq(Dir)
    BY <1>5 DEF add_to_path, TypeOK
  <2> QED
    BY <1>5, <2>1 DEF add_to_path, TypeOK
<1>6. CASE UNCHANGED vars
  BY <1>6 DEF vars, TypeOK
<1> QED
  BY <1>1, <1>2, <1>3, <1>4, <1>5, <1>6 DEF Next, Analysis

(***************************************************************************)
(* The invariant                                                           *)
(***************************************************************************)
LEMMA InitInv == Init => IInv
<1> SUFFICES ASSUME Init PROVE IInv
  OBVIOUS
<1>1. TypeOK
  BY DEF Init, TypeOK, Entry, NoModule
<1>2. 1..Len(stack) = {}
  BY DEF Init
<1>3. Numbered /\ Unfinished /\ Chained /\ Behind /\ Kept /\ KnownIfRead
  BY <1>2 DEF Init, Numbered, Unfinished, Chained, Behind, Kept, KnownIfRead, NoModule,
              NumberedOn, UnfinishedOn, ChainedOn, BehindOn
<1> QED
  BY <1>1, <1>3 DEF IInv

\* t: the n activations of s, the last one a step further.
Advanced(s, t, n) ==
  /\ Len(s) = n
  /\ \A i \in 1..n : t[i].name = s[i].name /\ t[i].mod = s[i].mod
  /\ \A i \in 1..(n - 1) : t[i].next = s[i].next
  /\ t[n].next = s[n].next + 1

\* The last of s comes to its import m.
AtImport(s, g, n, m) ==
  s[n].next <= Len(g[s[n].name]) /\ m = g[s[n].name][s[n].next]

NothingToRead(imp, m, F) == imp[m].mod # NoModule \/ m \notin F

\* t: n activations, and that of module m, number r + 1, on top.
Pushed(t, n, m, r) ==
  /\ Len(t) = n + 1
  /\ t[n + 1].name = m /\ t[n + 1].mod = r + 1 /\ t[n + 1].next = 1

\* The last activation has looked at an import that read nothing: t is the
\* stack s with that one a step further.
LEMMA AnsweredStack ==
  ASSUME NEW s \in Seq(Frame), NEW t \in Seq(Frame), NEW n \in Nat \ {0}, NEW m \in Module, NEW r \in Nat,
         NEW g \in [Module -> Seq(Module)], NEW F, NEW imp \in [Module -> Entry],
         Advanced(s, t, n), Len(t) = n,
         NumberedOn(s, imp, r), UnfinishedOn(s, imp, F), ChainedOn(s, g), BehindOn(s),
         AtImport(s, g, n, m),
         NothingToRead(imp, m, F)
  PROVE  NumberedOn(t, imp, r) /\ UnfinishedOn(t, imp, F) /\ ChainedOn(t, g) /\ BehindOn(t)
<1> USE DEF Advanced, AtImport, NothingToRead
<1>1. \A i \in 1..n : /\ s[i].name \in Module /\ s[i].mod \in Nat /\ s[i].next \in Nat \ {0}
                     /\ Len(g[s[i].name]) \in Nat
  <2> SUFFICES ASSUME NEW i \in 1..n
               PROVE  /\ s[i].name \in Module /\ s[i].mod \in Nat /\ s[i].next \in Nat \ {0}
                      /\ Len(g[s[i].name]) \in Nat
    OBVIOUS
  <2>1. s[i] \in Frame
    OBVIOUS
  <2>2. s[i].name \in Module /\ s[i].mod \in Nat /\ s[i].next \in Nat \ {0}
    BY <2>1 DEF Frame
  <2> QED
    BY <2>2
<1>2. NumberedOn(t, imp, r)
  BY DEF NumberedOn
<1>3. UnfinishedOn(t, imp, F)
  BY DEF UnfinishedOn
<1>4. ChainedOn(t, g)
  <2> SUFFICES ASSUME NEW i \in 1..n
               PROVE  /\ t[i].next <= Len(g[t[i].name]) + 1
                      /\ i < n => t[i].next > 1 /\ g[t[i].name][t[i].next - 1] = t[i + 1].name
    BY DEF ChainedOn
  <2>1. CASE i = n
    BY <1>1, <2>1
  <2>2. CASE i # n
    <3>1. i \in 1..(n - 1) /\ i + 1 \in 1..n /\ i < n /\ Len(s) = n
      BY <2>2
    <3>2. /\ s[i].next <= Len(g[s[i].name]) + 1
          /\ s[i].next > 1 /\ g[s[i].name][s[i].next - 1] = s[i + 1].name
      BY <3>1 DEF ChainedOn
    <3> QED
      BY <3>1, <3>2
  <2> QED
    BY <2>1, <2>2
<1>5. BehindOn(t)
  <2> SUFFICES ASSUME NEW i \in 1..n, NEW j \in 1..n, i < j, s[i].name = s[j].name
               PROVE  t[j].next <= t[i].next /\ (j = n => t[j].next < t[i].next)
    BY DEF BehindOn
  <2>1. i \in 1..(n - 1) /\ i + 1 \in 1..n /\ t[i].next = s[i].next
    OBVIOUS
  <2>2. s[j].next <= s[i].next /\ (j = n => s[j].next < s[i].next)
    BY DEF BehindOn
  <2>3. CASE j # n
    <3>1. j \in 1..(n - 1)
      BY <2>3
    <3> QED
      BY <2>1, <2>2, <2>3, <3>1
  <2>4. CASE j = n
    <3>1. s[n].next < s[i].next
      BY <2>2, <2>4
    <3>2. g[s[i].name][s[i].next - 1] = s[i + 1].name
      <4>1. i \in 1..Len(s) /\ i < Len(s)
        BY <2>1
      <4> QED
        BY <4>1 DEF ChainedOn
    <3>3. s[i].next # s[n].next + 1
      <4> SUFFICES ASSUME s[i].next = s[n].next + 1
                   PROVE  FALSE
        OBVIOUS
      <4>1. s[i].next - 1 = s[n].next
        BY <1>1, <2>1
      <4>2. s[i + 1].name = m
        BY <2>4, <3>2, <4>1
      <4> QED
        BY <2>1, <4>2 DEF UnfinishedOn
    <3> QED
      BY <1>1, <2>1, <2>4, <3>1, <3>3
  <2> QED
    BY <2>3, <2>4
<1> QED
  BY <1>2, <1>3, <1>4, <1>5

\* A module has been read: its analysis f is on top of the stack t, which
\* nothing is behind.
LEMMA PushedStack ==
  ASSUME NEW s \in Seq(Frame), NEW t \in Seq(Frame), NEW n \in Nat \ {0}, NEW m \in Module, NEW r \in Nat,
         NEW g \in [Module -> Seq(Module)], NEW F, NEW imp \in [Module -> Entry],
         Advanced(s, t, n), Pushed(t, n, m, r),
         NumberedOn(s, imp, r), UnfinishedOn(s, imp, F), ChainedOn(s, g), BehindOn(s),
         AtImport(s, g, n, m),
         imp[m].mod = NoModule, m \in F
  PROVE  /\ NumberedOn(t, imp, r + 1) /\ UnfinishedOn(t, imp, F)
         /\ ChainedOn(t, g) /\ BehindOn(t)
<1> USE DEF Advanced, AtImport, Pushed
<1>1. \A i \in 1..n : /\ s[i].name \in Module /\ s[i].mod \in Nat /\ s[i].next \in Nat \ {0}
                     /\ Len(g[s[i].name]) \in Nat
  <2> SUFFICES ASSUME NEW i \in 1..n
               PROVE  /\ s[i].name \in Module /\ s[i].mod \in Nat /\ s[i].next \in Nat \ {0}
                      /\ Len(g[s[i].name]) \in Nat
    OBVIOUS
  <2>1. s[i] \in Frame
    OBVIOUS
  <2>2. s[i].name \in Module /\ s[i].mod \in Nat /\ s[i].next \in Nat \ {0}
    BY <2>1 DEF Frame
  <2> QED
    BY <2>2
<1>2. \A k \in Module : imp[k].mod \in Nat
  BY DEF Entry
<1>3. NumberedOn(t, imp, r + 1)
  <2>1. \A k \in Module : imp[k].mod <= r + 1
    BY <1>2 DEF NumberedOn
  <2>2. \A i \in 1..n : t[i].mod \in 1..r
    BY DEF NumberedOn
  <2>3. \A i \in 1..(n + 1) : i = n + 1 \/ i \in 1..n
    OBVIOUS
  <2>4. \A i \in 1..(n + 1) : t[i].mod \in 1..(r + 1)
    BY <2>2, <2>3
  <2>5. ASSUME NEW i \in 1..(n + 1), NEW k \in Module
        PROVE  imp[k].mod # t[i].mod
    <3>1. CASE i = n + 1
      <4>1. imp[k].mod \in Nat /\ imp[k].mod <= r /\ t[i].mod = r + 1
        BY <1>2, <3>1 DEF NumberedOn
      <4> QED
        BY <4>1
    <3>2. CASE i \in 1..n
      <4>1. t[i].mod = s[i].mod
        BY <3>2
      <4> QED
        BY <3>2, <4>1 DEF NumberedOn
    <3> QED
      BY <2>3, <3>1, <3>2
  <2>6. \A i, j \in 1..n : t[i].mod = t[j].mod => i = j
    BY DEF NumberedOn
  <2>7. ASSUME NEW i \in 1..(n + 1), NEW j \in 1..(n + 1), t[i].mod = t[j].mod
        PROVE  i = j
    <3>1. CASE i \in 1..n /\ j \in 1..n
      BY <2>6, <2>7, <3>1
    <3>2. CASE i = n + 1 /\ j \in 1..n
      BY <2>2, <2>7, <3>2
    <3>3. CASE i \in 1..n /\ j = n + 1
      BY <2>2, <2>7, <3>3
    <3> QED
      BY <2>3, <3>1, <3>2, <3>3
  <2> QED
    BY <2>1, <2>4, <2>5, <2>7 DEF NumberedOn
<1>4. UnfinishedOn(t, imp, F)
  <2>1. \A i \in 1..(n + 1) : i = n + 1 \/ i \in 1..n
    OBVIOUS
  <2> QED
    BY <2>1 DEF UnfinishedOn
<1>5. ChainedOn(t, g)
  <2> SUFFICES ASSUME NEW i \in 1..(n + 1)
               PROVE  /\ t[i].next <= Len(g[t[i].name]) + 1
                      /\ i < n + 1 => t[i].next > 1 /\ g[t[i].name][t[i].next - 1] = t[i + 1].name
    BY DEF ChainedOn
  <2>1. CASE i = n + 1
    <3>1. g[m] \in Seq(Module)
      OBVIOUS
    <3> QED
      BY <2>1, <3>1
  <2>2. CASE i = n
    <3>1. s[n].next \in Nat \ {0} /\ Len(g[s[n].name]) \in Nat /\ t[n].name = s[n].name
      BY <1>1
    <3>2. t[n].next - 1 = s[n].next
      BY <3>1
    <3>3. g[t[n].name][t[n].next - 1] = t[n + 1].name
      <4>1. g[t[n].name][t[n].next - 1] = g[s[n].name][s[n].next]
        BY <3>1, <3>2
      <4> QED
        BY <4>1
    <3>4. s[n].next <= Len(g[s[n].name]) /\ t[n].next = s[n].next + 1
      OBVIOUS
    <3>5. s[n].next + 1 <= Len(g[s[n].name]) + 1 /\ s[n].next + 1 > 1
      <4>1. \A x \in Nat \ {0}, y \in Nat : x <= y => x + 1 <= y + 1 /\ x + 1 > 1
        OBVIOUS
      <4> HIDE DEF Advanced, AtImport, Pushed
      <4> QED
        BY <3>1, <3>4, <4>1, Zenon
    <3>6. t[n].next <= Len(g[t[n].name]) + 1 /\ t[n].next > 1
      <4>1. g[t[n].name] = g[s[n].name]
        BY <3>1
      <4> QED
        BY <3>4, <3>5, <4>1
    <3> QED
      BY <2>2, <3>3, <3>6
  <2>3. CASE i \in 1..(n - 1)
    <3>1. i \in 1..n /\ i + 1 \in 1..n /\ i < n
      BY <2>3
    <3>2. /\ s[i].next <= Len(g[s[i].name]) + 1
          /\ s[i].next > 1 /\ g[s[i].name][s[i].next - 1] = s[i + 1].name
      BY <3>1 DEF ChainedOn
    <3> QED
      BY <2>3, <3>1, <3>2
  <2> QED
    BY <2>1, <2>2, <2>3
<1>6. BehindOn(t)
  <2> SUFFICES ASSUME NEW i \in 1..(n + 1), NEW j \in 1..(n + 1), i < j, t[i].name = t[j].name
               PROVE  t[j].next <= t[i].next /\ (j = n + 1 => t[j].next < t[i].next)
    BY DEF BehindOn
  <2>1. i \in 1..n /\ s[i].next \in Nat \ {0}
    BY <1>1
  <2>2. CASE j = n + 1
    <3>1. CASE i = n
      BY <2>1, <2>2, <3>1
    <3>2. CASE i # n
      <4>1. i \in 1..(n - 1) /\ i < n
        BY <2>1, <3>2
      <4>2. s[i].next > 1
        BY <2>1, <4>1 DEF ChainedOn
      <4> QED
        BY <2>1, <2>2, <4>1, <4>2
    <3> QED
      BY <3>1, <3>2
  <2>3. CASE j # n + 1
    <3>1. j \in 1..n /\ i \in 1..(n - 1) /\ t[i].next = s[i].next
      <4>1. j \in 1..n
        BY <2>3
      <4>2. i \in 1..(n - 1)
        BY <2>1, <4>1
      <4> QED
        BY <4>1, <4>2
    <3>2. s[i].name = s[j].name
      <4>1. t[i].name = s[i].name /\ t[j].name = s[j].name
        BY <2>1, <3>1
      <4> QED
        BY <4>1
    <3>3. s[j].next <= s[i].next /\ (j = n => s[j].next < s[i].next)
      BY <2>1, <3>1, <3>2 DEF BehindOn
    <3>4. s[i].next \in Nat /\ s[j].next \in Nat
      BY <1>1, <2>1, <3>1
    <3>5. CASE j = n
      BY <2>3, <3>1, <3>3, <3>4, <3>5
    <3>6. CASE j # n
      <4>1. j \in 1..(n - 1)
        BY <3>1, <3>6
      <4> QED
        BY <2>3, <3>1, <3>3, <4>1
    <3> QED
      BY <3>5, <3>6
  <2> QED
    BY <2>2, <2>3
<1> QED
  BY <1>3, <1>4, <1>5, <1>6

\* t: s without the last of its n activations, which has looked at every import
\* and has filled the entry of its module.
Popped(s, t, n) == Len(s) = n /\ Len(t) = n - 1 /\ \A i \in 1..(n - 1) : t[i] = s[i]

Ended(s, g, n) == s[n].next > Len(g[s[n].name])

Filled(s, imp, imp2, n) ==
  /\ imp2[s[n].name].mod = s[n].mod
  /\ \A k \in Module : k # s[n].name => imp2[k].mod = imp[k].mod

\* The analysis on top has looked at every import and fills the entry: that
\* it is no inner analysis of a module is what Behind says.
LEMMA PoppedStack ==
  ASSUME NEW s \in Seq(Frame), NEW t \in Seq(Frame), NEW n \in Nat \ {0}, NEW r \in Nat,
         NEW g \in [Module -> Seq(Module)], NEW F,
         NEW imp \in [Module -> Entry], NEW imp2 \in [Module -> Entry],
         Popped(s, t, n), Ended(s, g, n), Filled(s, imp, imp2, n),
         NumberedOn(s, imp, r), UnfinishedOn(s, imp, F), ChainedOn(s, g), BehindOn(s)
  PROVE  NumberedOn(t, imp2, r) /\ UnfinishedOn(t, imp2, F) /\ ChainedOn(t, g) /\ BehindOn(t)
<1> USE DEF Popped, Ended, Filled
<1>1. \A i \in 1..n : /\ s[i].name \in Module /\ s[i].mod \in Nat /\ s[i].next \in Nat \ {0}
                     /\ Len(g[s[i].name]) \in Nat
  <2> SUFFICES ASSUME NEW i \in 1..n
               PROVE  /\ s[i].name \in Module /\ s[i].mod \in Nat /\ s[i].next \in Nat \ {0}
                      /\ Len(g[s[i].name]) \in Nat
    OBVIOUS
  <2>1. s[i] \in Frame
    OBVIOUS
  <2>2. s[i].name \in Module /\ s[i].mod \in Nat /\ s[i].next \in Nat \ {0}
    BY <2>1 DEF Frame
  <2> QED
    BY <2>2
<1>2. \A i \in 1..(n - 1) : i \in 1..n /\ i + 1 \in 1..n /\ i < n
  OBVIOUS
<1>3. \A i \in 1..(n - 1) : /\ s[i].next <= Len(g[s[i].name]) + 1
                           /\ s[i].next > 1 /\ g[s[i].name][s[i].next - 1] = s[i + 1].name
  BY <1>2 DEF ChainedOn
<1>4. \A i \in 1..(n - 1) : s[i].name # s[n].name
  <2> SUFFICES ASSUME NEW i \in 1..(n - 1), s[i].name = s[n].name
               PROVE  FALSE
    OBVIOUS
  <2>1. i \in 1..n /\ n \in 1..n /\ i < n
    OBVIOUS
  <2>2. s[n].next < s[i].next
    BY <2>1 DEF BehindOn
  <2>3. s[i].next <= Len(g[s[n].name]) + 1
    BY <1>3
  <2>4. s[i].next \in Nat /\ s[n].next \in Nat /\ Len(g[s[n].name]) \in Nat
    BY <1>1, <2>1
  <2> QED
    BY <2>2, <2>3, <2>4
<1>5. NumberedOn(t, imp2, r)
  <2>1. s[n].mod \in 1..r /\ n \in 1..n
    BY DEF NumberedOn
  <2>2. \A k \in Module : imp2[k].mod <= r
    <3>1. \A k \in Module : imp[k].mod <= r
      BY DEF NumberedOn
    <3>2. s[n].name \in Module /\ s[n].mod <= r
      BY <1>1, <2>1
    <3> SUFFICES ASSUME NEW k \in Module PROVE imp2[k].mod <= r
      OBVIOUS
    <3>3. CASE k = s[n].name
      BY <3>2, <3>3
    <3>4. CASE k # s[n].name
      BY <3>1, <3>4
    <3> QED
      BY <3>3, <3>4
  <2>3. \A i \in 1..(n - 1) : t[i].mod \in 1..r
    BY <1>2 DEF NumberedOn
  <2>4. \A i \in 1..(n - 1) : \A k \in Module : imp2[k].mod # t[i].mod
    <3> SUFFICES ASSUME NEW i \in 1..(n - 1), NEW k \in Module
                 PROVE  imp2[k].mod # s[i].mod
      OBVIOUS
    <3>1. s[i].mod # s[n].mod /\ imp[k].mod # s[i].mod
      BY <1>2, <2>1 DEF NumberedOn
    <3> QED
      BY <3>1
  <2>5. \A i, j \in 1..(n - 1) : t[i].mod = t[j].mod => i = j
    BY <1>2 DEF NumberedOn
  <2> QED
    BY <2>2, <2>3, <2>4, <2>5 DEF NumberedOn
<1>6. UnfinishedOn(t, imp2, F)
  <2> SUFFICES ASSUME NEW i \in 1..(n - 1)
               PROVE  imp2[s[i].name].mod = NoModule /\ s[i].name \in F
    BY DEF UnfinishedOn
  <2>1. i \in 1..n /\ s[i].name \in Module /\ s[i].name # s[n].name
    BY <1>1, <1>2, <1>4
  <2>2. imp[s[i].name].mod = NoModule /\ s[i].name \in F
    BY <2>1 DEF UnfinishedOn
  <2> QED
    BY <2>1, <2>2
<1>7. ChainedOn(t, g)
  <2> SUFFICES ASSUME NEW i \in 1..(n - 1)
               PROVE  /\ s[i].next <= Len(g[s[i].name]) + 1
                      /\ i < n - 1 => s[i].next > 1 /\ g[s[i].name][s[i].next - 1] = t[i + 1].name
    BY DEF ChainedOn
  <2>1. i < n - 1 => t[i + 1] = s[i + 1]
    OBVIOUS
  <2> QED
    BY <1>3, <2>1
<1>8. BehindOn(t)
  <2> SUFFICES ASSUME NEW i \in 1..(n - 1), NEW j \in 1..(n - 1), i < j, s[i].name = s[j].name
               PROVE  s[j].next <= s[i].next /\ (j = n - 1 => s[j].next < s[i].next)
    BY DEF BehindOn
  <2>1. i \in 1..n /\ j \in 1..n
    BY <1>2
  <2>2. s[j].next <= s[i].next
    BY <2>1 DEF BehindOn
  <2>3. s[i].next \in Nat /\ s[j].next \in Nat
    BY <1>1, <2>1
  <2>4. ASSUME j = n - 1, s[j].next = s[i].next
        PROVE  FALSE
    <3>1. s[i + 1].name = s[j + 1].name
      BY <1>3, <2>4
    <3>2. j + 1 = n /\ i + 1 \in 1..(n - 1)
      BY <2>4
    <3> QED
      BY <1>4, <3>1, <3>2
  <2> QED
    BY <2>2, <2>3, <2>4
<1> QED
  BY <1>5, <1>6, <1>7, <1>8

\* Entries without a change of their module make no difference.
LEMMA SameModules ==
  ASSUME NEW s \in Seq(Frame), NEW F, NEW r \in Nat,
         NEW imp \in [Module -> Entry], NEW imp2 \in [Module -> Entry],
         \A k \in Module : imp2[k].mod = imp[k].mod,
         NumberedOn(s, imp, r), UnfinishedOn(s, imp, F)
  PROVE  NumberedOn(s, imp2, r) /\ UnfinishedOn(s, imp2, F)
<1>1. \A i \in 1..Len(s) : s[i] \in Frame
  OBVIOUS
<1>2. \A i \in 1..Len(s) : s[i].name \in Module
  BY <1>1 DEF Frame
<1> QED
  BY <1>2 DEF NumberedOn, UnfinishedOn

(***************************************************************************)
(* The steps                                                               *)
(***************************************************************************)
\* Found does not change but with syspaths.
LEMMA SameFiles == ASSUME syspaths' = syspaths PROVE Files' = Files
<1>1. \A m : Found(m)' <=> Found(m)
  BY DEF Found
<1> QED
  BY <1>1 DEF Files

\* importfile leaves the modules of all entries, and `given` grows by what an
\* entry has.
LEMMA ImportfileFacts ==
  ASSUME TypeOK, Kept, NEW m \in Module, NEW s, importfile(m, s)
  PROVE  /\ \A k \in Module : imported'[k].mod = imported[k].mod
         /\ Kept'
<1>1. imported \in [Module -> Entry]
      /\ given \subseteq [importer : Nat, name : Module, mod : Nat]
  BY DEF TypeOK
<1>2. \A k \in Module : imported'[k].mod = imported[k].mod
  <2>1. CASE imported' = imported
    BY <2>1
  <2>2. CASE imported' = [imported EXCEPT ![m] = Known(@)]
    BY <1>1, <2>2 DEF Known
  <2> QED
    BY <2>1, <2>2 DEF importfile
<1>3. Kept'
  <2> SUFFICES ASSUME NEW x \in given'
               PROVE  x.mod # NoModule /\ imported'[x.name].mod = x.mod
    BY DEF Kept
  <2>1. CASE x \in given
    <3>1. x.name \in Module
      BY <1>1, <2>1
    <3> QED
      BY <1>2, <2>1, <3>1 DEF Kept
  <2>2. CASE x \notin given
    <3>1. imported[m].mod # NoModule /\ Give(s, m, imported[m].mod)
      BY <2>2 DEF importfile
    <3>2. x.name = m /\ x.mod = imported[m].mod
      BY <2>2, <3>1 DEF Give
    <3> QED
      BY <1>2, <3>1, <3>2
  <2> QED
    BY <2>1, <2>2
<1> QED
  BY <1>2, <1>3

\* The entry that importfile makes or finds is known, and those known stay so.
LEMMA KnownFacts ==
  ASSUME TypeOK, KnownIfRead, NEW m \in Module, NEW s, importfile(m, s)
  PROVE  /\ \A k \in Module : imported[k].known => imported'[k].known
         /\ imported'[m].known
         /\ \A k \in Module : imported'[k].mod # NoModule => imported'[k].known
<1>1. imported \in [Module -> Entry]
  BY DEF TypeOK
<1>2. CASE imported' = imported /\ imported[m].mod # NoModule
  BY <1>2 DEF KnownIfRead
<1>3. CASE imported' = [imported EXCEPT ![m] = Known(@)]
  BY <1>1, <1>3 DEF KnownIfRead, Known
<1> QED
  BY <1>2, <1>3 DEF importfile

LEMMA ImportNextInv ==
  ASSUME IInv, ImportNext, TypeOK'
  PROVE  IInv'
<1> DEFINE n == Len(stack)
           m == program[Top.name][Top.next]
<1>1. /\ TypeOK /\ stack # <<>> /\ stack \in Seq(Frame) /\ n \in Nat \ {0} /\ n \in 1..n
      /\ reads \in Nat /\ imported \in [Module -> Entry] /\ imported' \in [Module -> Entry]
      /\ stack' \in Seq(Frame)
  BY DEF IInv, ImportNext, TypeOK
<1>2. Numbered /\ Unfinished /\ Chained /\ Behind /\ Kept
  BY DEF IInv
<1>3. program \in [Module -> Seq(Module)]
  BY <1>1, ProgramsAssumption DEF TypeOK
<1>4. Top = stack[n] /\ stack[n].next <= Len(program[stack[n].name])
  BY DEF ImportNext, Top
<1>5. stack[n] \in Frame
  BY <1>1
<1>6. m \in Module /\ m = program[stack[n].name][stack[n].next]
  BY <1>1, <1>4, <1>5, ProgramFacts DEF Frame
<1>7. importfile(m, Looked) /\ program' = program /\ syspaths' = syspaths
  BY DEF ImportNext
<1>8. /\ Looked \in Seq(Frame) /\ Len(Looked) = n
      /\ \A i \in 1..n : /\ Looked[i].name = stack[i].name
                         /\ Looked[i].mod = stack[i].mod
                         /\ Looked[i].next = IF i = n THEN stack[i].next + 1 ELSE stack[i].next
  BY <1>1, LookedFacts
<1>9. \A k \in Module : imported'[k].mod = imported[k].mod
  BY <1>1, <1>2, <1>6, <1>7, ImportfileFacts
<1>10. Kept'
  BY <1>1, <1>2, <1>6, <1>7, ImportfileFacts
<1>11. Files' = Files
  BY <1>7, SameFiles
<1>12. /\ \A i \in 1..n : Looked[i].name = stack[i].name /\ Looked[i].mod = stack[i].mod
       /\ \A i \in 1..(n - 1) : Looked[i].next = stack[i].next
       /\ Looked[n].next = stack[n].next + 1
  BY <1>1, <1>8
<1>13. /\ NumberedOn(stack, imported, reads) /\ UnfinishedOn(stack, imported, Files)
       /\ ChainedOn(stack, program) /\ BehindOn(stack)
  BY <1>2 DEF Numbered, Unfinished, Chained, Behind
<1>14. AtImport(stack, program, n, m)
  BY <1>4, <1>6 DEF AtImport
<1>15. Advanced(stack, Looked, n)
  BY <1>12 DEF Advanced
<1>16. /\ \A k \in Module : imported[k].known => imported'[k].known
       /\ imported'[m].known
       /\ \A k \in Module : imported'[k].mod # NoModule => imported'[k].known
  BY <1>1, <1>6, <1>7, KnownFacts DEF IInv
<1>17. \A i \in 1..n : stack[i].name \in Module /\ imported[stack[i].name].known
  <2>1. \A i \in 1..n : stack[i] \in Frame
    BY <1>1
  <2> QED
    BY <2>1 DEF IInv, KnownIfRead, Frame
<1>18. \A i \in 1..n : imported'[stack[i].name].known
  BY <1>16, <1>17
<1> HIDE DEF n, m
<1>19. CASE ~(imported[m].mod = NoModule /\ Found(m))
  <2>1. stack' = Looked /\ reads' = reads
    BY <1>7, <1>19 DEF importfile
  <2>2. NothingToRead(imported, m, Files)
    BY <1>19 DEF Files, NothingToRead
  <2>3. Looked \in Seq(Frame) /\ Len(Looked) = n
    BY <1>8
  <2>4. /\ NumberedOn(Looked, imported, reads) /\ UnfinishedOn(Looked, imported, Files)
        /\ ChainedOn(Looked, program) /\ BehindOn(Looked)
    BY <1>1, <1>3, <1>6, <1>13, <1>14, <1>15, <2>2, <2>3, AnsweredStack
  <2>5. NumberedOn(Looked, imported', reads) /\ UnfinishedOn(Looked, imported', Files)
    BY <1>1, <1>9, <2>3, <2>4, SameModules
  <2>6. Numbered' /\ Unfinished' /\ Chained' /\ Behind'
    BY <1>7, <1>11, <2>1, <2>4, <2>5 DEF Numbered, Unfinished, Chained, Behind
  <2>7. KnownIfRead'
    <3>1. \A i \in 1..Len(stack') : i \in 1..n /\ stack'[i].name = stack[i].name
      BY <1>8, <2>1
    <3> QED
      BY <1>16, <1>18, <3>1 DEF KnownIfRead
  <2> QED
    BY <1>10, <2>6, <2>7 DEF IInv
<1>20. CASE imported[m].mod = NoModule /\ Found(m)
  <2>1. stack' = Append(Looked, [name |-> m, mod |-> reads + 1, next |-> 1]) /\ reads' = reads + 1
    BY <1>7, <1>20 DEF importfile
  <2>2. /\ Len(stack') = n + 1
        /\ \A i \in 1..n : stack'[i] = Looked[i]
        /\ stack'[n + 1] = [name |-> m, mod |-> reads + 1, next |-> 1]
    BY <1>1, <1>8, <2>1
  <2>3. m \in Files
    BY <1>6, <1>20 DEF Files
  <2>4. \A i \in 1..(n - 1) : i \in 1..n
    BY <1>1
  <2>5. Advanced(stack, stack', n)
    BY <1>1, <1>15, <2>2, <2>4 DEF Advanced
  <2>6. Pushed(stack', n, m, reads)
    BY <2>2 DEF Pushed
  <2>7. /\ NumberedOn(stack', imported, reads + 1) /\ UnfinishedOn(stack', imported, Files)
        /\ ChainedOn(stack', program) /\ BehindOn(stack')
    BY <1>1, <1>3, <1>6, <1>13, <1>14, <1>20, <2>3, <2>5, <2>6, PushedStack
  <2>8. NumberedOn(stack', imported', reads + 1) /\ UnfinishedOn(stack', imported', Files)
    <3>1. reads + 1 \in Nat
      BY <1>1
    <3> QED
      BY <1>1, <1>9, <2>7, <3>1, SameModules
  <2>9. Numbered' /\ Unfinished' /\ Chained' /\ Behind'
    BY <1>7, <1>11, <2>1, <2>7, <2>8 DEF Numbered, Unfinished, Chained, Behind
  <2>10. KnownIfRead'
    <3>1. \A i \in 1..n : stack'[i].name = stack[i].name
      BY <2>5 DEF Advanced
    <3>2. stack'[n + 1].name = m
      BY <2>6 DEF Pushed
    <3>3. \A i \in 1..Len(stack') : i \in 1..n \/ i = n + 1
      BY <1>1, <2>2
    <3> QED
      BY <1>16, <1>18, <3>1, <3>2, <3>3 DEF KnownIfRead
  <2> QED
    BY <1>10, <2>9, <2>10 DEF IInv
<1> QED
  BY <1>19, <1>20

\* A stack without its top.
LEMMA FrontFacts ==
  ASSUME NEW s \in Seq(Frame), s # <<>>
  PROVE  LET t == SubSeq(s, 1, Len(s) - 1)
         IN  Len(t) = Len(s) - 1 /\ \A i \in 1..(Len(s) - 1) : t[i] = s[i]
<1> DEFINE n == Len(s) - 1
<1>1. Len(s) \in Nat \ {0} /\ n \in Nat /\ 1..n \subseteq 1..Len(s)
  OBVIOUS
<1>2. \A i \in 1..n : s[i] \in Frame
  BY <1>1
<1>3. SubSeq(s, 1, n) = [i \in 1..n |-> s[i]]
  BY <1>1
<1> HIDE DEF n
<1>4. Len(SubSeq(s, 1, n)) = n
  BY <1>1, <1>2, <1>3
<1>5. \A i \in 1..n : SubSeq(s, 1, n)[i] = s[i]
  BY <1>3
<1> QED
  BY <1>4, <1>5 DEF n

\* The end of an analysis.
LEMMA FinishInv ==
  ASSUME IInv, Finish, TypeOK'
  PROVE  IInv'
<1> DEFINE n == Len(stack)
           m == stack[n].name
<1>1. /\ TypeOK /\ stack # <<>> /\ stack \in Seq(Frame) /\ n \in Nat \ {0} /\ n \in 1..n
      /\ reads \in Nat /\ imported \in [Module -> Entry] /\ imported' \in [Module -> Entry]
      /\ stack' \in Seq(Frame)
      /\ given \subseteq [importer : Nat, name : Module, mod : Nat]
  BY DEF IInv, Finish, TypeOK
<1>2. /\ NumberedOn(stack, imported, reads) /\ UnfinishedOn(stack, imported, Files)
      /\ ChainedOn(stack, program) /\ BehindOn(stack) /\ Kept
  BY DEF IInv, Numbered, Unfinished, Chained, Behind
<1>3. program \in [Module -> Seq(Module)]
  BY <1>1, ProgramsAssumption DEF TypeOK
<1>4. Top = stack[n] /\ stack[n] \in Frame
  BY <1>1 DEF Top
<1>5. m \in Module /\ stack[n].mod \in Nat
  BY <1>4 DEF Frame
<1>6. /\ stack[n].next > Len(program[m])
      /\ imported' = [imported EXCEPT ![m].mod = stack[n].mod]
      /\ Give(Below, m, stack[n].mod)
      /\ stack' = Below /\ program' = program /\ syspaths' = syspaths /\ reads' = reads
  BY <1>4 DEF Finish
<1>7. Len(Below) = n - 1 /\ \A i \in 1..(n - 1) : Below[i] = stack[i]
  BY <1>1, FrontFacts DEF Below
<1>8. /\ imported'[m].mod = stack[n].mod
      /\ \A k \in Module : k # m => imported'[k].mod = imported[k].mod
  BY <1>1, <1>5, <1>6 DEF Entry
<1>9. Files' = Files
  BY <1>6, SameFiles
<1>10. Ended(stack, program, n) /\ Popped(stack, Below, n) /\ Filled(stack, imported, imported', n)
  BY <1>6, <1>7, <1>8 DEF Ended, Popped, Filled
<1>11. imported[m].mod = NoModule /\ stack[n].mod # NoModule
  BY <1>1, <1>2 DEF UnfinishedOn, NumberedOn, NoModule
<1>12. Kept'
  <2> SUFFICES ASSUME NEW x \in given'
               PROVE  x.mod # NoModule /\ imported'[x.name].mod = x.mod
    BY DEF Kept
  <2>1. CASE x \in given
    <3>1. x.name \in Module /\ x.mod # NoModule /\ imported[x.name].mod = x.mod
      BY <1>1, <1>2, <2>1 DEF Kept
    <3>2. x.name # m
      BY <1>11, <3>1
    <3> QED
      BY <1>8, <3>1, <3>2
  <2>2. CASE x \notin given
    <3>1. x.name = m /\ x.mod = stack[n].mod
      BY <1>6, <2>2 DEF Give
    <3> QED
      BY <1>8, <1>11, <3>1
  <2> QED
    BY <2>1, <2>2
<1> HIDE DEF n, m
<1>13. Below \in Seq(Frame)
  BY <1>1, <1>6
<1>14. /\ NumberedOn(Below, imported', reads) /\ UnfinishedOn(Below, imported', Files)
       /\ ChainedOn(Below, program) /\ BehindOn(Below)
  BY <1>1, <1>2, <1>3, <1>10, <1>13, PoppedStack
<1>15. Numbered' /\ Unfinished' /\ Chained' /\ Behind'
  BY <1>6, <1>9, <1>14 DEF Numbered, Unfinished, Chained, Behind
<1>16. KnownIfRead'
  <2>1. KnownIfRead
    BY DEF IInv
  <2>2. \A k \in Module : imported'[k].known = imported[k].known
    BY <1>1, <1>5, <1>6 DEF Entry
  <2>3. \A i \in 1..n : stack[i].name \in Module /\ imported[stack[i].name].known
    <3>1. \A i \in 1..n : stack[i] \in Frame
      BY <1>1 DEF n
    <3> QED
      BY <2>1, <3>1 DEF KnownIfRead, Frame, n
  <2>4. imported[m].known
    BY <1>1, <2>3 DEF m
  <2>5. \A k \in Module : imported'[k].mod # NoModule => imported'[k].known
    BY <1>8, <2>1, <2>2, <2>4 DEF KnownIfRead
  <2>6. \A i \in 1..Len(stack') : i \in 1..n /\ stack'[i].name = stack[i].name
    BY <1>1, <1>6, <1>7
  <2> QED
    BY <2>2, <2>3, <2>5, <2>6 DEF KnownIfRead
<1> QED
  BY <1>12, <1>15, <1>16 DEF IInv

\* The program imports a module.
LEMMA ImportInv ==
  ASSUME IInv, TypeOK', NEW m \in Module, Import(m)
  PROVE  IInv'
<1>1. /\ TypeOK /\ stack = <<>> /\ reads \in Nat /\ imported \in [Module -> Entry]
      /\ imported' \in [Module -> Entry] /\ program \in [Module -> Seq(Module)] /\ Kept
      /\ importfile(m, <<>>) /\ program' = program /\ syspaths' = syspaths
  BY ProgramsAssumption DEF IInv, TypeOK, Import
<1>2. Kept' /\ \A k \in Module : imported'[k].mod = imported[k].mod
  BY <1>1, ImportfileFacts
<1>3. \A k \in Module : imported[k].mod <= reads /\ imported[k].mod \in Nat
  BY <1>1 DEF IInv, Numbered, NumberedOn, Entry
<1>4. \A k \in Module : imported'[k].mod <= reads /\ imported'[k].mod \in Nat
  BY <1>2, <1>3
<1>5. Files' = Files
  BY <1>1, SameFiles
<1>6. /\ imported'[m].known
      /\ \A k \in Module : imported'[k].mod # NoModule => imported'[k].known
  BY <1>1, KnownFacts DEF IInv
<1>7. CASE stack' = <<>> /\ reads' = reads
  <2>1. 1..Len(stack') = {}
    BY <1>7
  <2>2. Unfinished' /\ Chained' /\ Behind'
    BY <2>1 DEF Unfinished, Chained, Behind, UnfinishedOn, ChainedOn, BehindOn
  <2>3. Numbered'
    BY <1>4, <1>7, <2>1 DEF Numbered, NumberedOn
  <2> QED
    BY <1>2, <2>1, <2>2, <2>3, <1>6 DEF IInv, KnownIfRead
<1>8. CASE /\ imported[m].mod = NoModule /\ Found(m) /\ reads' = reads + 1
           /\ stack' = Append(<<>>, [name |-> m, mod |-> reads + 1, next |-> 1])
  <2>1. /\ Len(stack') = 1 /\ stack'[1].name = m /\ stack'[1].mod = reads + 1
        /\ stack'[1].next = 1
    BY <1>8
  <2>2. \A i \in 1..Len(stack') : i = 1
    BY <2>1
  <2>3. Numbered'
    <3>1. \A k \in Module : imported'[k].mod <= reads + 1 /\ imported'[k].mod # reads + 1
      BY <1>1, <1>4
    <3>2. reads + 1 \in 1..(reads + 1)
      BY <1>1
    <3> QED
      BY <1>8, <2>1, <2>2, <3>1, <3>2 DEF Numbered, NumberedOn
  <2>4. Unfinished'
    <3>1. m \in Files /\ imported'[m].mod = NoModule
      BY <1>2, <1>8 DEF Files
    <3> QED
      BY <1>5, <2>1, <2>2, <3>1 DEF Unfinished, UnfinishedOn
  <2>5. Chained'
    <3>1. Len(program[m]) \in Nat
      BY <1>1
    <3>2. 1 <= Len(program[m]) + 1
      BY <3>1
    <3> QED
      BY <1>1, <2>1, <2>2, <3>2 DEF Chained, ChainedOn
  <2>6. Behind'
    BY <2>2 DEF Behind, BehindOn
  <2>7. KnownIfRead'
    BY <1>6, <2>1, <2>2 DEF KnownIfRead
  <2> QED
    BY <1>2, <2>3, <2>4, <2>5, <2>6, <2>7 DEF IInv
<1> QED
  BY <1>1, <1>7, <1>8 DEF importfile

\* A native module gets a number of its own.
LEMMA AddModuleInv ==
  ASSUME IInv, TypeOK', NEW m \in Module, add_module(m)
  PROVE  IInv'
<1>1. /\ TypeOK /\ stack = <<>> /\ stack' = <<>> /\ reads \in Nat
      /\ imported \in [Module -> Entry] /\ given' = given /\ Kept
      /\ given \subseteq [importer : Nat, name : Module, mod : Nat]
      /\ imported' = [imported EXCEPT ![m] = Inserted(@)]
      /\ reads' = IF imported[m].known THEN reads ELSE reads + 1
  BY DEF IInv, TypeOK, add_module
<1>2. KnownIfRead
  BY DEF IInv
<1>3. \A k \in Module : imported[k].mod # NoModule => imported'[k].mod = imported[k].mod
  BY <1>1, <1>2 DEF KnownIfRead, Inserted
<1>4. 1..Len(stack') = {}
  BY <1>1
<1>5. Unfinished' /\ Chained' /\ Behind'
  BY <1>4 DEF Unfinished, Chained, Behind, UnfinishedOn, ChainedOn, BehindOn
<1>6. \A k \in Module : imported[k].mod <= reads /\ imported[k].mod \in Nat
  BY <1>1 DEF IInv, Numbered, NumberedOn, Entry
<1>7. \A k \in Module : imported'[k].mod <= reads'
  <2>1. CASE imported[m].known
    <3>1. imported' = imported /\ reads' = reads
      BY <1>1, <2>1 DEF Inserted
    <3> QED
      BY <1>6, <3>1
  <2>2. CASE ~imported[m].known
    <3>1. reads' = reads + 1
      BY <1>1, <2>2
    <3>2. \A k \in Module : imported'[k].mod = reads + 1 \/ imported'[k].mod = imported[k].mod
      BY <1>1, <2>2 DEF Inserted
    <3> QED
      BY <1>1, <1>6, <3>1, <3>2
  <2> QED
    BY <2>1, <2>2
<1>8. Numbered'
  BY <1>4, <1>7 DEF Numbered, NumberedOn
<1>9. Kept'
  <2> SUFFICES ASSUME NEW x \in given
               PROVE  x.mod # NoModule /\ imported'[x.name].mod = x.mod
    BY <1>1 DEF Kept
  <2>1. x.name \in Module /\ x.mod # NoModule /\ imported[x.name].mod = x.mod
    BY <1>1 DEF Kept
  <2> QED
    BY <1>3, <2>1
<1>10. KnownIfRead'
  <2>1. \A k \in Module : imported'[k].mod # NoModule => imported'[k].known
    BY <1>1, <1>2 DEF KnownIfRead, Inserted
  <2> QED
    BY <1>4, <2>1 DEF KnownIfRead
<1> QED
  BY <1>5, <1>8, <1>9, <1>10 DEF IInv

\* Every step keeps the invariant.
LEMMA NextInv ==
  ASSUME IInv, [Next]_vars
  PROVE  IInv'
<1>1. TypeOK'
  BY TypeStep DEF IInv
<1>2. CASE ImportNext
  BY <1>1, <1>2, ImportNextInv
<1>3. CASE Finish
  BY <1>1, <1>3, FinishInv
<1>4. ASSUME NEW m \in Module, Import(m)
      PROVE  IInv'
  BY <1>1, <1>4, ImportInv
<1>5. ASSUME NEW m \in Module, add_module(m)
      PROVE  IInv'
  BY <1>1, <1>5, AddModuleInv
<1>6. ASSUME UNCHANGED <<program, imported, stack, reads, given>>, Files \subseteq Files'
      PROVE  IInv'
  <2>1. stack' = stack /\ imported' = imported /\ reads' = reads /\ program' = program
        /\ given' = given
    BY <1>6
  <2>2. Numbered' /\ Chained' /\ Behind' /\ Kept' /\ KnownIfRead'
    BY <2>1 DEF IInv, Numbered, Chained, Behind, Kept, KnownIfRead
  <2>3. Unfinished'
    BY <1>6, <2>1 DEF IInv, Unfinished, UnfinishedOn
  <2> QED
    BY <1>1, <2>2, <2>3 DEF IInv
<1>7. ASSUME NEW d \in Dir, add_to_path(d)
      PROVE  IInv'
  <2>1. \A m : Found(m) => Found(m)'
    <3>1. syspaths \in Seq(Dir) /\ syspaths' = Append(syspaths, d)
      BY <1>7 DEF IInv, TypeOK, add_to_path
    <3>2. \A i \in DOMAIN syspaths : i \in DOMAIN syspaths' /\ syspaths'[i] = syspaths[i]
      BY <3>1
    <3> QED
      BY <3>2 DEF Found
  <2>2. Files \subseteq Files'
    BY <2>1 DEF Files
  <2> QED
    BY <1>6, <1>7, <2>2 DEF add_to_path
<1>8. CASE UNCHANGED vars
  <2>1. Files' = Files
    BY <1>8, SameFiles DEF vars
  <2> QED
    BY <1>6, <1>8, <2>1 DEF vars
<1> QED
  BY <1>2, <1>3, <1>4, <1>5, <1>7, <1>8 DEF Next, Analysis

LEMMA AlwaysInv == Spec => []IInv
<1>1. Init => IInv
  BY InitInv
<1>2. IInv /\ [Next]_vars => IInv'
  BY NextInv
<1> QED
  BY <1>1, <1>2, PTL DEF Spec

(***************************************************************************)
(* The theorems                                                            *)
(***************************************************************************)
\* The table, the activations and what was given out keep their types.
THEOREM TypeCorrect == Spec => []TypeOK
<1>1. IInv => TypeOK
  BY DEF IInv
<1> QED
  BY <1>1, AlwaysInv, PTL

\* importfile (importlib.cpp) gives every importer of a module one and the same
\* Module, which stays the module of its entry and is not under analysis, for
\* every graph of imports, cycles included.
THEOREM ImportsGivenOneVersion == Spec => []OneVersion
<1>1. ASSUME IInv
      PROVE  OneVersion
  <2> SUFFICES ASSUME NEW g \in given
               PROVE  /\ imported[g.name].mod = g.mod
                      /\ \A i \in DOMAIN stack : stack[i].mod # g.mod
    BY DEF OneVersion
  <2>1. imported[g.name].mod = g.mod /\ g.name \in Module
    BY <1>1 DEF IInv, Kept, TypeOK
  <2>2. DOMAIN stack = 1..Len(stack)
    BY <1>1 DEF IInv, TypeOK
  <2>3. \A i \in 1..Len(stack) : imported[g.name].mod # stack[i].mod
    BY <1>1, <2>1 DEF IInv, Numbered, NumberedOn
  <2> QED
    BY <2>1, <2>2, <2>3
<1> QED
  BY <1>1, AlwaysInv, PTL

\* No step replaces a module that is in the table, the end of an analysis that
\* was under way when the entry was filled least of all: a module is analysed
\* to its end at most once.
THEOREM EntriesNeverReplaced == Spec => NeverReplaced
<1> DEFINE Stays == \A m \in Module : imported[m].mod # NoModule => imported'[m] = imported[m]
<1>1. ASSUME IInv, [Next]_vars
      PROVE  Stays
  <2>1. TypeOK /\ imported \in [Module -> Entry]
    BY <1>1 DEF IInv, TypeOK
  <2>2. KnownIfRead
    BY <1>1 DEF IInv
  <2>3. ASSUME NEW k \in Module, NEW s, importfile(k, s)
        PROVE  Stays
    BY <2>1, <2>2, <2>3 DEF importfile
  <2>4. CASE ImportNext
    <3>1. stack # <<>> /\ stack \in Seq(Frame) /\ Len(stack) \in 1..Len(stack)
      BY <2>1, <2>4 DEF ImportNext, TypeOK
    <3>2. Top \in Frame
      BY <3>1 DEF Top
    <3>3. program[Top.name][Top.next] \in Module
      BY <2>1, <2>4, <3>2, ProgramFacts DEF ImportNext, Frame
    <3> QED
      BY <2>3, <2>4, <3>3 DEF ImportNext
  <2>5. CASE Finish
    <3>1. stack # <<>> /\ stack \in Seq(Frame) /\ Len(stack) \in 1..Len(stack)
      BY <2>1, <2>5 DEF Finish, TypeOK
    <3>2. imported[Top.name].mod = NoModule
      BY <1>1, <3>1 DEF IInv, Unfinished, UnfinishedOn, Top
    <3>3. imported' = [imported EXCEPT ![Top.name].mod = Top.mod]
      BY <2>5 DEF Finish
    <3> QED
      BY <2>1, <3>2, <3>3
  <2>6. ASSUME NEW k \in Module, Import(k)
        PROVE  Stays
    BY <2>3, <2>6 DEF Import
  <2>7. ASSUME NEW k \in Module, add_module(k)
        PROVE  Stays
    BY <2>1, <2>2, <2>7 DEF add_module, Inserted, KnownIfRead
  <2>8. ASSUME NEW d \in Dir, add_to_path(d)
        PROVE  Stays
    BY <2>8 DEF add_to_path
  <2>9. CASE UNCHANGED vars
    BY <2>9 DEF vars
  <2> QED
    BY <1>1, <2>4, <2>5, <2>6, <2>7, <2>8, <2>9 DEF Next, Analysis
<1>2. IInv /\ [Next]_vars => [Stays]_vars
  BY <1>1
<1> QED
  BY <1>2, AlwaysInv, PTL DEF Spec, NeverReplaced
=============================================================================
