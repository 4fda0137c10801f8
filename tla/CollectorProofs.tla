--------------------------- MODULE CollectorProofs ---------------------------
(* Theorems about the collector, for every set of addresses, fields and    *)
(* words of the client, with free() and mark_obj called as it likes.       *)
EXTENDS Collector, TLAPS

-----------------------------------------------------------------------------
(* The inductive invariant                                                 *)

\* What each phase has finished with.
Phases ==
  /\ phase \in {"idle", "sweep", "destroy"} => pointers = {} /\ pending = {}
  /\ phase = "mark_obj" => pending = {}
  /\ phase \in {"idle", "destroy"} => words = {}
  /\ phase \in {"idle", "mark", "mark_obj"} => index = 1 /\ kept = <<>>
  /\ phase = "sweep" => index > 0
  /\ phase = "destroyed" => live = {}

\* The entries sweep has before it, and those it has kept, are together what
\* ListedOnce says of the list.
Lists ==
  phase \in {"idle", "mark", "mark_obj", "sweep"} =>
    /\ \A a \in live : \/ \E i \in DOMAIN allocations : i >= index /\ allocations[i] = a
                       \/ \E j \in DOMAIN kept : kept[j] = a
    /\ \A i \in DOMAIN allocations : i >= index => allocations[i] \in live \union freed
    /\ \A j \in DOMAIN kept : kept[j] \in live \union freed /\ kept[j] \in Listed
    /\ \A i, j \in DOMAIN allocations :
         allocations[i] = allocations[j] => i = j \/ allocations[i] \in freed
    /\ \A i, j \in DOMAIN kept : kept[i] = kept[j] => i = j \/ kept[i] \in freed
    /\ \A i \in DOMAIN allocations, j \in DOMAIN kept :
         i >= index /\ allocations[i] = kept[j] => kept[j] \in freed
    /\ phase = "sweep" =>
         \A a \in marked : \E i \in DOMAIN allocations : i >= index /\ allocations[i] = a

\* The destructor has the live blocks before it, once each without free().
Destroying ==
  phase = "destroy" =>
    /\ index <= Len(allocations)
    /\ \A a \in live : \E i \in DOMAIN allocations : i <= index /\ allocations[i] = a
    /\ freed = {} =>
         /\ \A i \in DOMAIN allocations : i <= index => allocations[i] \in live
         /\ \A i, j \in DOMAIN allocations : allocations[i] = allocations[j] => i = j

\* What a block refers to is in R, unless it was freed.
Within(R, D) == \A a \in D, f \in Field : field[a][f] \in R \union freed \union {Null}
RootsWithin(R) == \A s \in Slot : root[s] \in R \union freed \union {Null}

\* What survives the sweep
Retained == marked \union ToSet(kept)

\* No marked block refers to a block that will be missed.
Marks ==
  ~torn =>
    /\ phase \in {"idle", "mark", "mark_obj"} => Within(live, live) /\ RootsWithin(live)
    /\ phase = "mark" =>
         /\ Within(marked \union pointers, marked)
         /\ RootsWithin(marked \union pointers \union pending)
    /\ phase = "sweep" =>
         /\ Within(Retained, Retained \intersect live)
         /\ RootsWithin(Retained)
         /\ Within(live \union Swept, live)
    /\ phase = "destroy" => Within(live \union Undone, live)

\* S has the words of the scan, and what the marked blocks in it refer to, as
\* far as that is marked or waits to be.
Reached(S) ==
  /\ words \subseteq S
  /\ \A a \in S \intersect Retained, f \in Field :
       field[a][f] \in Retained \union pointers => field[a][f] \in S

\* Only what the scan could reach is marked.
Traced ==
  (freed = {} /\ phase \in {"mark", "sweep"}) =>
    \A S \in SUBSET Addr : Reached(S) => Retained \union pointers \subseteq S

IInv ==
  TypeOK /\ Phases /\ Lists /\ Destroying /\ Marks /\ Traced /\ (freed = {} => phase # "corrupt")

\* Where the corrupted and broken runs end nothing but the types is said.
LEMMA EndedIInv ==
  ASSUME IInv, freed # {} \/ ~Corrupt, Corrupt \/ Broken
  PROVE  IInv'
PROOF
<1> USE DEF IInv, Corrupt, Broken, heapVars, scanVars, sweepVars, ghosts
<1>1. TypeOK'
  BY DEF TypeOK, Listed
<1>2. Phases' /\ Lists' /\ Destroying' /\ Marks' /\ Traced'
  BY DEF Phases, Lists, Destroying, Marks, Traced
<1> QED
  BY <1>1, <1>2

-----------------------------------------------------------------------------
LEMMA InitIInv == Init => IInv
PROOF
<1> SUFFICES ASSUME Init PROVE IInv
  OBVIOUS
<1>1. TypeOK
  <2>1. <<>> \in Seq(Addr)
    OBVIOUS
  <2>2. Empty \in [Field -> Word]
    BY DEF Empty, Word
  <2>3. root \in [Slot -> Word]
    BY DEF Init, Word
  <2>4. pending \subseteq words /\ words \subseteq Listed /\ pointers \subseteq Listed
    BY DEF Init
  <2>5. field \in [Addr -> [Field -> Word]] /\ allocations \in Seq(Addr) /\ kept \in Seq(Addr)
    BY <2>1, <2>2 DEF Init
  <2>6. live \subseteq Addr /\ marked \subseteq live /\ freed \subseteq Addr /\ phase = "idle"
    BY DEF Init
  <2>7. torn \in BOOLEAN
    BY DEF Init
  <2>8. index \in Nat
    BY DEF Init
  <2> QED
    BY <2>3, <2>4, <2>5, <2>6, <2>7, <2>8 DEF TypeOK
<1>2. Phases /\ Lists /\ Destroying
  BY DEF Init, Phases, Lists, Destroying, Empty, ToSet, Listed
<1>3. Marks /\ Traced
  BY DEF Init, Marks, Traced, Within, RootsWithin
<1> QED
  BY <1>1, <1>2, <1>3 DEF IInv, Init

\* Outside the sweep the list has the live blocks, and dead ones only by free().
LEMMA WholeList ==
  ASSUME IInv, phase \in {"idle", "mark", "mark_obj"}
  PROVE  live \subseteq Listed /\ Listed \subseteq live \union freed
PROOF
<1>1. index = 1 /\ kept = <<>>
  BY DEF IInv, Phases
<1>2. ASSUME NEW i \in DOMAIN allocations PROVE i >= index
  BY <1>1 DEF IInv, TypeOK
<1> QED
  BY <1>1, <1>2 DEF IInv, Lists, Listed, ToSet

LEMMA MallocPreserves == ASSUME IInv, NEW s \in Slot, Malloc(s) PROVE IInv'
PROOF
<1> USE DEF IInv, vars, heapVars, scanVars, sweepVars, ghosts
<1>1. TypeOK'
  BY NullAssumption DEF Malloc, Empty, TypeOK, Word, Empty, Listed, ToSet, Phases
<1>2. Phases' /\ Destroying'
  BY DEF Malloc, Phases, Destroying
<1>3. Lists'
  <2>1. PICK a \in Addr \ live :
          /\ live' = live \union {a}
          /\ marked' = marked \ {a}
          /\ allocations' = Append(allocations, a)
    BY DEF Malloc
  <2>2. /\ index = 1 /\ kept = <<>> /\ index' = 1 /\ kept' = <<>> /\ phase = "idle" /\ phase' = "idle"
        /\ freed' = freed
    BY DEF Malloc, Phases
  <2>3. /\ allocations \in Seq(Addr)
        /\ DOMAIN allocations' = DOMAIN allocations \union {Len(allocations) + 1}
        /\ DOMAIN allocations = 1 .. Len(allocations) /\ Len(allocations) \in Nat
        /\ \A i \in DOMAIN allocations : allocations'[i] = allocations[i]
        /\ allocations'[Len(allocations) + 1] = a
    BY <2>1 DEF TypeOK
  <2>4. \A b \in live' : \E i \in DOMAIN allocations' : i >= 1 /\ allocations'[i] = b
    BY <2>1, <2>2, <2>3 DEF Lists
  <2>5. \A i \in DOMAIN allocations' : allocations'[i] \in live' \union freed
    BY <2>1, <2>2, <2>3 DEF Lists
  <2>6. \A i, j \in DOMAIN allocations' :
          allocations'[i] = allocations'[j] => i = j \/ allocations'[i] \in freed
    BY <2>1, <2>2, <2>3 DEF Lists
  <2> QED
    BY <2>2, <2>4, <2>5, <2>6 DEF Lists
<1>4. Marks'
  BY NullAssumption DEF Malloc, Empty, TypeOK, Marks, Within, RootsWithin, Retained, ToSet, Phases
<1>5. Traced'
  BY DEF Malloc, Traced
<1> QED
  BY <1>1, <1>2, <1>3, <1>4, <1>5 DEF Malloc

LEMMA AssignPreserves == ASSUME IInv, NEW s \in Slot, Assign(s) PROVE IInv'
PROOF
<1> USE DEF IInv, vars, heapVars, scanVars, sweepVars, ghosts
<1>1. TypeOK'
  BY NullAssumption DEF Assign, TypeOK, Word, Listed, ToSet, Phases
<1>2. Phases' /\ Destroying'
  BY DEF Assign, TypeOK, Phases, Destroying
<1>3. Lists'
  BY DEF Assign, TypeOK, Lists, Listed, ToSet, Phases
<1>4. Marks'
  BY DEF Assign, TypeOK, Marks, Within, RootsWithin, Retained, ToSet, Phases
<1>5. Traced'
  BY DEF Assign, TypeOK, Traced, Reached, Retained, ToSet, Phases
<1> QED
  BY <1>1, <1>2, <1>3, <1>4, <1>5 DEF Assign

LEMMA FreePreserves == ASSUME IInv, NEW s \in Slot, Free(s) PROVE IInv'
PROOF
<1> USE DEF IInv, vars, heapVars, scanVars, sweepVars, ghosts
<1>1. CASE Broken
  BY <1>1, EndedIInv DEF Broken, Corrupt
<1>2. CASE ~Broken
  <2> USE DEF Free, Release, Unshared
  <2>1. TypeOK'
    <3>1. Empty \in [Field -> Word]
      BY DEF Empty, Word
    <3>2. field' \in [Addr -> [Field -> Word]]
      BY <1>2, <3>1 DEF TypeOK
    <3>3. root[s] \in Addr
      BY DEF TypeOK
    <3>4. root' \in [Slot -> Word]
      BY <1>2, <3>3 DEF TypeOK, Word
    <3> QED
      BY <1>2, <3>2, <3>3, <3>4 DEF TypeOK, Listed
  <2>2. Phases' /\ Destroying'
    BY <1>2 DEF TypeOK, Phases, Destroying
  <2>3. Lists'
    BY <1>2 DEF TypeOK, Lists, Listed, ToSet, Phases
  <2>4. Marks'
    BY <1>2, NullAssumption DEF TypeOK, Marks, Within, RootsWithin, Retained, ToSet, Phases, Empty
  <2>5. Traced'
    BY <1>2 DEF Traced
  <2> QED
    BY <1>2, <2>1, <2>2, <2>3, <2>4, <2>5
<1> QED
  BY <1>1, <1>2

LEMMA TouchPreserves == ASSUME IInv, NEW s \in Slot, Touch(s) PROVE IInv'
BY EndedIInv DEF Touch, Broken, Corrupt

LEMMA MarkObjPreserves == ASSUME IInv, NEW s \in Slot, MarkObj(s) PROVE IInv'
PROOF
<1> USE DEF IInv, vars, heapVars, scanVars, sweepVars, ghosts
<1>1. TypeOK'
  <2>1. pointers' \subseteq Listed
    BY WholeList DEF MarkObj
  <2> QED
    BY <2>1 DEF MarkObj, TypeOK, Listed
<1>2. Phases' /\ Destroying'
  BY DEF MarkObj, TypeOK, Phases, Destroying
<1>3. Lists'
  BY DEF MarkObj, TypeOK, Lists, Listed, ToSet, Phases
<1>4. Marks'
  BY DEF MarkObj, TypeOK, Marks, Within, RootsWithin, Retained, ToSet, Phases
<1>5. Traced'
  BY DEF MarkObj, TypeOK, Traced, Reached, Retained, ToSet, Phases
<1> QED
  BY <1>1, <1>2, <1>3, <1>4, <1>5 DEF MarkObj

LEMMA ClearMarkPreserves == ASSUME IInv, NEW s \in Slot, ClearMark(s) PROVE IInv'
PROOF
<1> USE DEF IInv, vars, heapVars, scanVars, sweepVars, ghosts
<1>1. TypeOK'
  BY NullAssumption DEF ClearMark, TypeOK, Word, Listed, ToSet, Phases
<1>2. Phases' /\ Destroying'
  BY DEF ClearMark, TypeOK, Phases, Destroying
<1>3. Lists'
  BY DEF ClearMark, TypeOK, Lists, Listed, ToSet, Phases
<1>4. Marks'
  BY DEF ClearMark, TypeOK, Marks, Within, RootsWithin, Retained, ToSet, Phases
<1>5. Traced'
  BY DEF ClearMark, TypeOK, Traced, Reached, Retained, ToSet, Phases
<1> QED
  BY <1>1, <1>2, <1>3, <1>4, <1>5 DEF ClearMark

LEMMA StorePreserves == ASSUME IInv, NEW s \in Slot, NEW f \in Field, Store(s, f) PROVE IInv'
PROOF
<1> USE DEF IInv, vars, heapVars, scanVars, sweepVars, ghosts
<1>1. TypeOK'
  BY NullAssumption DEF Store, TypeOK, Word, Listed, ToSet, Phases
<1>2. Phases' /\ Destroying'
  BY DEF Store, TypeOK, Phases, Destroying
<1>3. Lists'
  BY DEF Store, TypeOK, Lists, Listed, ToSet, Phases
<1>4. Marks'
  BY DEF Store, TypeOK, Marks, Within, RootsWithin, Retained, ToSet, Phases
<1>5. Traced'
  BY DEF Store, TypeOK, Traced, Reached, Retained, ToSet, Phases
<1> QED
  BY <1>1, <1>2, <1>3, <1>4, <1>5 DEF Store

LEMMA LoadPreserves == ASSUME IInv, NEW s \in Slot, NEW t \in Slot, NEW f \in Field, Load(s, t, f) PROVE IInv'
PROOF
<1> USE DEF IInv, vars, heapVars, scanVars, sweepVars, ghosts
<1>1. TypeOK'
  BY NullAssumption DEF Load, TypeOK, Word, Listed, ToSet, Phases
<1>2. Phases' /\ Destroying'
  BY DEF Load, TypeOK, Phases, Destroying
<1>3. Lists'
  BY DEF Load, TypeOK, Lists, Listed, ToSet, Phases
<1>4. Marks'
  BY DEF Load, TypeOK, Marks, Within, RootsWithin, Retained, ToSet, Phases
<1>5. Traced'
  BY DEF Load, TypeOK, Traced, Reached, Retained, ToSet, Phases
<1> QED
  BY <1>1, <1>2, <1>3, <1>4, <1>5 DEF Load

LEMMA CollectPreserves == ASSUME IInv, Collect PROVE IInv'
PROOF
<1> USE DEF IInv, vars, heapVars, scanVars, sweepVars, ghosts
<1>1. PICK stray \in Stray :
        pending' = {w \in {root[s] : s \in Slot} : IsPointer(w)} \union stray
  BY DEF Collect
<1>2. stray \subseteq Listed /\ pending' \subseteq Listed /\ words' = pending' \union marked
  BY <1>1 DEF Stray, IsPointer, Collect
<1>3. kept = <<>> /\ kept' = <<>> /\ Retained = marked /\ Retained' = marked
  BY DEF Collect, Phases, Retained, ToSet
<1>4. TypeOK'
  BY <1>2, WholeList DEF Collect, TypeOK, Word, Listed
<1>5. Phases' /\ Lists' /\ Destroying'
  BY DEF Collect, Phases, Lists, Destroying, Listed
<1>6. Marks'
  <2> SUFFICES ASSUME ~torn' PROVE Marks'
    BY DEF Marks
  <2>1. ~torn /\ ~Split /\ Within(live, live) /\ RootsWithin(live)
    BY DEF Collect, Marks
  <2>2. Within(marked, marked)
    BY <2>1 DEF Within, Split, TypeOK
  <2>3. \A s \in Slot : root[s] \in live => root[s] \in pending'
    BY <1>1, WholeList DEF Collect, IsPointer
  <2>4. UNCHANGED <<live, field, marked, root, freed>> /\ phase' = "mark" /\ pointers' = {}
    BY DEF Collect
  <2>5. Within(live, live)' /\ RootsWithin(live)'
    BY <2>1, <2>4 DEF Within, RootsWithin
  <2>6. Within(marked \union pointers, marked)'
    BY <2>2, <2>4 DEF Within
  <2>7. RootsWithin(marked \union pointers \union pending)'
    BY <2>1, <2>3, <2>4 DEF RootsWithin
  <2> QED
    BY <2>4, <2>5, <2>6, <2>7 DEF Marks
<1>7. Traced'
  BY <1>2, <1>3 DEF Collect, Traced, Reached
<1> QED
  BY <1>4, <1>5, <1>6, <1>7 DEF Collect

LEMMA ScanWordPreserves == ASSUME IInv, ScanWord PROVE IInv'
PROOF
<1> USE DEF IInv, vars, heapVars, scanVars, sweepVars, ghosts
<1>1. TypeOK'
  BY NullAssumption DEF ScanWord, TypeOK, Word, Listed, ToSet, Phases
<1>2. Phases' /\ Destroying'
  BY DEF ScanWord, TypeOK, Phases, Destroying
<1>3. Lists'
  BY DEF ScanWord, TypeOK, Lists, Listed, ToSet, Phases
<1>4. Marks'
  BY DEF ScanWord, TypeOK, Marks, Within, RootsWithin, Retained, ToSet, Phases
<1>5. Traced'
  BY DEF ScanWord, TypeOK, Traced, Reached, Retained, ToSet, Phases
<1> QED
  BY <1>1, <1>2, <1>3, <1>4, <1>5 DEF ScanWord

LEMMA MarkPointerPreserves == ASSUME IInv, MarkPointer PROVE IInv'
PROOF
<1> USE DEF IInv, vars, heapVars, scanVars, sweepVars, ghosts
<1> DEFINE Passes(p) == /\ p \in marked
                        /\ pointers' = pointers \ {p}
                        /\ UNCHANGED <<heapVars, root, phase, pending, words, sweepVars, ghosts>>
           Reads(p) == /\ p \in live \ marked
                       /\ marked' = marked \union {p}
                       /\ \E stray \in Stray :
                            /\ pointers' = (pointers \ {p}) \union {w \in Members(p) : IsPointer(w)}
                                             \union stray
                            /\ words' = words \union stray
                       /\ UNCHANGED <<live, field, allocations, root, phase, pending, sweepVars, ghosts>>
<1>1. PICK p \in pointers : (p \notin live /\ Corrupt) \/ Passes(p) \/ Reads(p)
  BY DEF MarkPointer, Unread, TypeOK
<1>2. phase \in {"mark", "mark_obj"} /\ kept = <<>> /\ Retained = marked
  BY DEF MarkPointer, Phases, Retained, ToSet
<1>3. CASE p \notin live /\ Corrupt
  <2>1. freed # {}
    BY <1>2, <1>3, WholeList DEF TypeOK
  <2> QED
    BY <1>3, <2>1, EndedIInv
<1>4. CASE Passes(p)
  <2>1. TypeOK' /\ Phases' /\ Destroying'
    BY <1>2, <1>4 DEF TypeOK, Listed, Phases, Destroying
  <2>2. Lists'
    BY <1>2, <1>4 DEF Lists, Listed
  <2>3. Marks'
    BY <1>2, <1>4 DEF Marks, Within, RootsWithin
  <2>4. Traced'
    BY <1>2, <1>4 DEF Traced, Reached, Retained
  <2> QED
    BY <1>2, <1>4, <2>1, <2>2, <2>3, <2>4
<1>5. CASE Reads(p)
  <2>1. PICK stray \in Stray :
          /\ pointers' = (pointers \ {p}) \union {w \in Members(p) : IsPointer(w)} \union stray
          /\ words' = words \union stray
    BY <1>5
  <2>2. TypeOK' /\ Phases' /\ Destroying'
    <3>1. {w \in Members(p) : IsPointer(w)} \subseteq Listed /\ stray \subseteq Listed
      BY DEF IsPointer, Stray
    <3> QED
      BY <1>2, <1>5, <2>1, <3>1 DEF TypeOK, Listed, Phases, Destroying
  <2>3. Lists'
    BY <1>2, <1>5 DEF Lists, Listed
  <2>4. Marks'
    <3>1. ASSUME ~torn PROVE Within(live, live) /\ RootsWithin(live)
      BY <1>2, <3>1 DEF Marks
    <3>2. ASSUME ~torn, NEW f \in Field
          PROVE  field[p][f] \in pointers' \union freed \union {Null}
      <4>1. field[p][f] \in Members(p)
        BY DEF Members
      <4>2. field[p][f] \in live \union freed \union {Null}
        BY <1>5, <3>1, <3>2 DEF Within
      <4> QED
        BY <1>2, <2>1, <4>1, <4>2, WholeList DEF IsPointer
    <3>3. ASSUME ~torn, phase = "mark" PROVE Within(marked \union pointers, marked)
      BY <3>3 DEF Marks
    <3>4. ASSUME ~torn, phase = "mark" PROVE Within(marked \union pointers, marked)'
      BY <1>5, <2>1, <3>2, <3>3, <3>4 DEF Within
    <3>5. ASSUME ~torn, phase = "mark" PROVE RootsWithin(marked \union pointers \union pending)'
      BY <1>5, <2>1, <3>5 DEF Marks, RootsWithin
    <3>6. ASSUME ~torn PROVE Within(live, live)' /\ RootsWithin(live)'
      BY <1>5, <3>1, <3>6 DEF Within, RootsWithin
    <3> QED
      BY <1>2, <1>5, <3>4, <3>5, <3>6 DEF Marks
  <2>5. Traced'
    <3> SUFFICES ASSUME freed = {}, phase = "mark", NEW S \in SUBSET Addr, Reached(S)'
                 PROVE  (marked \union pointers)' \subseteq S
      BY <1>2, <1>5 DEF Traced, Retained, ToSet
    <3>1. Retained' = marked \union {p} /\ words' = words \union stray /\ field' = field
      BY <1>2, <1>5, <2>1 DEF Retained
    <3>2. Retained \union pointers \subseteq (Retained \union pointers)'
      BY <1>2, <1>5, <2>1, <3>1
    <3>3. Reached(S)
      BY <3>1, <3>2, <1>2 DEF Reached
    <3>4. marked \union pointers \subseteq S
      BY <1>2, <3>3 DEF Traced
    <3>5. \A w \in Members(p) : IsPointer(w) => w \in S
      BY <2>1, <3>1, <3>4 DEF Members, Reached
    <3>6. stray \subseteq S
      BY <3>1 DEF Reached
    <3> QED
      BY <1>5, <2>1, <3>4, <3>5, <3>6
  <2> QED
    BY <1>2, <1>5, <2>2, <2>3, <2>4, <2>5
<1> QED
  BY <1>1, <1>3, <1>4, <1>5

LEMMA EndMarkObjPreserves == ASSUME IInv, EndMarkObj PROVE IInv'
PROOF
<1> USE DEF IInv, vars, heapVars, scanVars, sweepVars, ghosts
<1>1. TypeOK'
  BY NullAssumption DEF EndMarkObj, TypeOK, Word, Listed, ToSet, Phases
<1>2. Phases' /\ Destroying'
  BY DEF EndMarkObj, TypeOK, Phases, Destroying
<1>3. Lists'
  BY DEF EndMarkObj, TypeOK, Lists, Listed, ToSet, Phases
<1>4. Marks'
  BY DEF EndMarkObj, TypeOK, Marks, Within, RootsWithin, Retained, ToSet, Phases
<1>5. Traced'
  BY DEF EndMarkObj, TypeOK, Traced, Reached, Retained, ToSet, Phases
<1> QED
  BY <1>1, <1>2, <1>3, <1>4, <1>5 DEF EndMarkObj

LEMMA BeginSweepPreserves == ASSUME IInv, BeginSweep PROVE IInv'
PROOF
<1> USE DEF IInv, vars, heapVars, scanVars, sweepVars, ghosts
<1>1. kept = <<>> /\ index = 1 /\ Retained = marked /\ marked \subseteq live
  BY DEF BeginSweep, Phases, Retained, ToSet, TypeOK
<1>2. TypeOK' /\ Phases' /\ Destroying'
  BY <1>1 DEF BeginSweep, TypeOK, Listed, Phases, Destroying
<1>3. Lists'
  BY <1>1 DEF BeginSweep, Lists, Listed
<1>4. Marks'
  <2> SUFFICES ASSUME ~torn PROVE Marks'
    BY DEF BeginSweep, Marks
  <2>1. Within(live, live) /\ Within(marked, marked) /\ RootsWithin(marked)
    BY DEF BeginSweep, Marks, Within, RootsWithin
  <2>2. UNCHANGED <<live, marked, field, root, freed, kept>> /\ Retained' = marked
    BY <1>1 DEF BeginSweep, Retained
  <2>3. Within(Retained, Retained \intersect live)' /\ RootsWithin(Retained)'
    BY <1>1, <2>1, <2>2 DEF Within, RootsWithin
  <2>4. Within(live \union Swept, live)'
    BY <2>1, <2>2 DEF Within
  <2> QED
    BY <2>3, <2>4 DEF BeginSweep, Marks
<1>5. Traced'
  BY DEF BeginSweep, Traced, Reached, Retained
<1> QED
  BY <1>2, <1>3, <1>4, <1>5 DEF BeginSweep

LEMMA SweepEntryPreserves == ASSUME IInv, SweepEntry PROVE IInv'
PROOF
<1> USE DEF IInv, vars, heapVars, scanVars, sweepVars, ghosts
<1> DEFINE a == allocations[index]
<1>1. /\ phase = "sweep" /\ index \in DOMAIN allocations /\ a \in Addr
      /\ a \in live \union freed /\ a \in Listed
      /\ pointers = {} /\ pending = {}
  <2>1. index \in DOMAIN allocations /\ a \in Addr
    BY DEF SweepEntry, Phases, TypeOK
  <2>2. a \in live \union freed
    BY <2>1 DEF SweepEntry, Lists, TypeOK
  <2> QED
    BY <2>1, <2>2 DEF SweepEntry, Phases, Listed, ToSet
<1>2. CASE a \notin live /\ Corrupt
  BY <1>1, <1>2, EndedIInv
<1>6. CASE Broken
  BY <1>6, EndedIInv DEF Broken, Corrupt
<1>3. CASE /\ a \in live \ marked /\ Release(a) /\ index' = index + 1
           /\ UNCHANGED <<kept, allocations, root, phase, scanVars, ghosts>>
  <2>1. TypeOK' /\ Phases'
    <3>1. Empty \in [Field -> Word]
      BY DEF Empty, Word
    <3>2. field' \in [Addr -> [Field -> Word]]
      BY <1>3, <3>1 DEF Release, TypeOK
    <3> QED
      BY <1>1, <1>3, <3>2 DEF Release, TypeOK, Listed, Phases
  <2>6. Destroying' /\ Swept' = Swept \union {a}
    BY <1>1, <1>3 DEF Destroying, Swept, TypeOK
  <2>2. /\ live' = live \ {a} /\ marked' = marked /\ a \notin marked
        /\ \A b \in live' : field'[b] = field[b]
    BY <1>3 DEF Release, TypeOK
  <2>3. Lists'
    <3>1. \A b \in live' : \/ \E i \in DOMAIN allocations : i >= index + 1 /\ allocations[i] = b
                           \/ \E k \in DOMAIN kept : kept[k] = b
      BY <1>1, <2>2 DEF Lists, TypeOK
    <3>2. \A i \in DOMAIN allocations : i >= index + 1 => allocations[i] \in live' \union freed
      BY <1>1, <2>2 DEF Lists, TypeOK
    <3>3. \A k \in DOMAIN kept : kept[k] \in live' \union freed
      BY <1>1, <2>2 DEF Lists, TypeOK
    <3>4. \A b \in marked : \E i \in DOMAIN allocations : i >= index + 1 /\ allocations[i] = b
      BY <1>1, <2>2 DEF Lists, TypeOK
    <3>5. \A i \in DOMAIN allocations, k \in DOMAIN kept :
            i >= index + 1 /\ allocations[i] = kept[k] => kept[k] \in freed
      BY <1>1 DEF Lists, TypeOK
    <3> QED
      BY <1>1, <1>3, <2>2, <3>1, <3>2, <3>3, <3>4, <3>5 DEF Lists, Listed
  <2>4. Marks'
    BY <1>1, <1>3, <2>2, <2>6 DEF Marks, Within, RootsWithin, Retained
  <2>5. Traced'
    <3> SUFFICES ASSUME freed = {}, NEW S \in SUBSET Addr, Reached(S)'
                 PROVE  Retained \subseteq S
      BY <1>1, <1>3, <2>2 DEF Traced, Retained
    <3>1. a \notin Retained
      BY <1>1, <1>3, <2>2 DEF Lists, Retained, ToSet, TypeOK
    <3>2. Retained' = Retained /\ words' = words
      BY <1>3, <2>2 DEF Retained
    <3>3. \A b \in Retained : field'[b] = field[b]
      BY <1>3, <3>1 DEF Release, TypeOK
    <3>4. Reached(S)
      BY <1>3, <3>2, <3>3 DEF Reached
    <3> QED
      BY <1>1, <3>4 DEF Traced
  <2> QED
    BY <1>1, <1>3, <2>1, <2>3, <2>4, <2>5, <2>6
<1>4. CASE /\ a \in marked /\ Keep(a) /\ index' = index + 1
           /\ UNCHANGED <<allocations, root, phase, scanVars, ghosts>>
  <2>1. TypeOK' /\ Phases'
    BY <1>1, <1>4 DEF Keep, TypeOK, Listed, Phases
  <2>8. Destroying' /\ Swept' = Swept \union {a}
    BY <1>1, <1>4 DEF Destroying, Swept, TypeOK
  <2>2. /\ live' = live /\ field' = field /\ marked' = marked \ {a} /\ a \in live
        /\ kept' = Append(kept, a)
        /\ DOMAIN kept' = DOMAIN kept \union {Len(kept) + 1}
        /\ DOMAIN kept = 1 .. Len(kept) /\ Len(kept) \in Nat
        /\ \A k \in DOMAIN kept : kept'[k] = kept[k]
        /\ kept'[Len(kept) + 1] = a
    BY <1>4 DEF Keep, TypeOK
  <2>3. ToSet(kept') = ToSet(kept) \union {a}
    BY <2>2 DEF ToSet
  <2>4. Retained' = Retained
    BY <1>4, <2>2, <2>3 DEF Retained
  <2>5. Lists'
    <3>1. \A b \in live : \/ \E i \in DOMAIN allocations : i >= index + 1 /\ allocations[i] = b
                          \/ \E k \in DOMAIN kept' : kept'[k] = b
      <4> TAKE b \in live
      <4>1. CASE b = a
        BY <4>1, <2>2
      <4>2. CASE \E k \in DOMAIN kept : kept[k] = b
        BY <4>2, <2>2
      <4>3. CASE b # a /\ \E i \in DOMAIN allocations : i >= index /\ allocations[i] = b
        BY <4>3, <1>1 DEF TypeOK
      <4> QED
        BY <1>1, <4>1, <4>2, <4>3 DEF Lists
    <3>2. \A i \in DOMAIN allocations : i >= index + 1 => allocations[i] \in live \union freed
      BY <1>1 DEF Lists, TypeOK
    <3>3. \A k \in DOMAIN kept' : kept'[k] \in live \union freed /\ kept'[k] \in Listed
      BY <1>1, <2>2 DEF Lists
    <3>4. \A b \in marked \ {a} :
            \E i \in DOMAIN allocations : i >= index + 1 /\ allocations[i] = b
      BY <1>1 DEF Lists, TypeOK
    <3>5. \A k, l \in DOMAIN kept' : kept'[k] = kept'[l] => k = l \/ kept'[k] \in freed
      BY <1>1, <2>2 DEF Lists, TypeOK
    <3>6. \A i \in DOMAIN allocations, k \in DOMAIN kept' :
            i >= index + 1 /\ allocations[i] = kept'[k] => kept'[k] \in freed
      BY <1>1, <2>2 DEF Lists, TypeOK
    <3>7. \A i, j \in DOMAIN allocations :
            allocations[i] = allocations[j] => i = j \/ allocations[i] \in freed
      BY <1>1 DEF Lists
    <3>8. phase' = "sweep" /\ allocations' = allocations /\ freed' = freed /\ index' = index + 1
      BY <1>1, <1>4
    <3> QED
      BY <2>2, <3>1, <3>2, <3>3, <3>4, <3>5, <3>6, <3>7, <3>8 DEF Lists, Listed
  <2>6. Marks'
    BY <1>1, <1>4, <2>2, <2>4, <2>8 DEF Marks, Within, RootsWithin
  <2>7. Traced'
    BY <1>1, <1>4, <2>2, <2>4 DEF Traced, Reached
  <2> QED
    BY <1>1, <1>4, <2>1, <2>5, <2>6, <2>7, <2>8
<1> QED
  BY <1>2, <1>3, <1>4, <1>6 DEF SweepEntry, Unmarked

LEMMA EndSweepPreserves == ASSUME IInv, EndSweep PROVE IInv'
PROOF
<1> USE DEF IInv, vars, heapVars, scanVars, sweepVars, ghosts
<1>1. ~ \E i \in DOMAIN allocations : i >= index
  BY DEF EndSweep, TypeOK
<1>2. live \subseteq ToSet(kept) /\ marked = {} /\ ToSet(kept) \subseteq live \union freed
  BY <1>1 DEF EndSweep, Lists, ToSet
<1>3. TypeOK'
  BY DEF EndSweep, Survivors, TypeOK, Word, Listed, ToSet, Phases
<1>4. Phases' /\ Destroying'
  BY DEF EndSweep, Phases, Destroying
<1>5. Lists'
  <2>1. allocations' = kept /\ index' = 1 /\ kept' = <<>> /\ phase' = "idle" /\ kept \in Seq(Addr)
        /\ UNCHANGED <<live, freed>>
    BY DEF EndSweep, Survivors, TypeOK
  <2>2. DOMAIN kept' = {} /\ \A i \in DOMAIN kept : i >= 1
    BY <2>1
  <2>3. \A a \in live : \E j \in DOMAIN kept : kept[j] = a
    BY <1>1 DEF EndSweep, Lists
  <2>4. /\ \A j \in DOMAIN kept : kept[j] \in live \union freed
        /\ \A i, j \in DOMAIN kept : kept[i] = kept[j] => i = j \/ kept[i] \in freed
    BY DEF EndSweep, Lists
  <2> QED
    BY ONLY <2>1, <2>2, <2>3, <2>4 DEF Lists
<1>6. Marks'
  BY <1>2, NullAssumption DEF EndSweep, Marks, Within, RootsWithin, Retained
<1>7. Traced'
  BY DEF EndSweep, Traced
<1> QED
  BY <1>3, <1>4, <1>5, <1>6, <1>7 DEF EndSweep

LEMMA DestroyPreserves == ASSUME IInv, Destroy PROVE IInv'
PROOF
<1> USE DEF IInv, vars, heapVars, scanVars, sweepVars, ghosts
<1>1. index = 1 /\ allocations \in Seq(Addr) /\ DOMAIN allocations = 1 .. Len(allocations)
      /\ Len(allocations) \in Nat
  BY DEF Destroy, Phases, TypeOK
<1>2. TypeOK' /\ Phases' /\ Lists'
  BY <1>1 DEF Destroy, Latest, TypeOK, Listed, Phases, Lists
<1>3. Destroying'
  <2>1. live \subseteq Listed /\ Listed \subseteq live \union freed
    BY WholeList DEF Destroy
  <2>2. \A a \in live : \E i \in DOMAIN allocations : allocations[i] = a
    BY <2>1 DEF Listed, ToSet
  <2>3. \A i \in DOMAIN allocations : allocations[i] \in live \union freed
    BY <2>1 DEF Listed, ToSet
  <2>4. \A i, j \in DOMAIN allocations : allocations[i] = allocations[j] => i = j \/ allocations[i] \in freed
    BY DEF Destroy, Lists
  <2> QED
    BY <1>1, <2>2, <2>3, <2>4 DEF Destroy, Latest, Destroying
<1>4. Marks' /\ Traced'
  BY DEF Destroy, Marks, Traced, Within
<1> QED
  BY <1>2, <1>3, <1>4 DEF Destroy

LEMMA DestroyEntryPreserves == ASSUME IInv, DestroyEntry PROVE IInv'
PROOF
<1> USE DEF IInv, vars, heapVars, scanVars, sweepVars, ghosts
<1> DEFINE a == allocations[index]
<1>1. /\ phase = "destroy" /\ index \in DOMAIN allocations /\ a \in Addr
      /\ allocations \in Seq(Addr) /\ index \in Nat /\ index > 0
  BY DEF DestroyEntry, Destroying, TypeOK
<1>2. CASE a \notin live /\ Corrupt
  BY <1>1, <1>2, EndedIInv DEF Destroying
<1>3. CASE Broken
  BY <1>3, EndedIInv DEF Broken, Corrupt
<1>4. CASE /\ a \in live /\ Release(a)
           /\ index' = index - 1
           /\ UNCHANGED <<allocations, root, phase, scanVars, kept, ghosts>>
  <2>1. TypeOK'
    <3>1. Empty \in [Field -> Word]
      BY DEF Empty, Word
    <3>2. field' \in [Addr -> [Field -> Word]]
      BY <1>4, <3>1 DEF Release, TypeOK
    <3>3. index' \in Nat
      BY <1>1, <1>4
    <3> QED
      BY <1>4, <3>2, <3>3 DEF Release, TypeOK, Listed
  <2>2. Phases' /\ Lists' /\ Traced'
    BY <1>1, <1>4 DEF Phases, Lists, Traced
  <2>3. /\ live' = live \ {a} /\ freed' = freed /\ allocations' = allocations
        /\ \A b \in live' : field'[b] = field[b]
    BY <1>4 DEF Release, TypeOK
  <2>4. Destroying'
    <3>1. \A b \in live' : \E i \in DOMAIN allocations : i <= index - 1 /\ allocations[i] = b
      BY <1>1, <2>3 DEF Destroying, TypeOK
    <3>2. freed = {} => \A i \in DOMAIN allocations : i <= index - 1 => allocations[i] \in live'
      BY <1>1, <2>3 DEF Destroying, TypeOK
    <3> QED
      BY <1>1, <1>4, <2>3, <3>1, <3>2 DEF Destroying, TypeOK
  <2>5. Undone' = Undone \union {a}
    BY <1>1, <1>4 DEF Undone, TypeOK
  <2>6. Marks'
    BY <1>1, <1>4, <2>3, <2>5 DEF Marks, Within
  <2> QED
    BY <1>1, <1>4, <2>1, <2>2, <2>4, <2>6
<1> QED
  BY <1>2, <1>3, <1>4 DEF DestroyEntry

LEMMA EndDestroyPreserves == ASSUME IInv, EndDestroy PROVE IInv'
PROOF
<1> USE DEF IInv, vars, heapVars, scanVars, sweepVars, ghosts
<1>1. live = {}
  BY DEF EndDestroy, Destroying, TypeOK
<1>2. pending = {} /\ pointers = {} /\ words = {}
  BY DEF EndDestroy, Phases
<1>3. TypeOK'
  <2>1. <<>> \in Seq(Addr)
    OBVIOUS
  <2> QED
    BY <1>2, <2>1 DEF EndDestroy, TypeOK
<1>4. Phases' /\ Lists' /\ Destroying' /\ Marks' /\ Traced'
  BY <1>1 DEF EndDestroy, Phases, Lists, Destroying, Marks, Traced
<1> QED
  BY <1>3, <1>4 DEF EndDestroy

-----------------------------------------------------------------------------
(* What follows from it                                                    *)

LEMMA NextPreserves == ASSUME IInv, [Next]_vars PROVE IInv'
PROOF
<1>1. ASSUME NEW s \in Slot, Malloc(s) \/ Assign(s) \/ Free(s) \/ Touch(s) \/ MarkObj(s) \/ ClearMark(s)
      PROVE  IInv'
  BY <1>1, MallocPreserves, AssignPreserves, FreePreserves, TouchPreserves, MarkObjPreserves,
     ClearMarkPreserves
<1>2. ASSUME NEW s \in Slot, NEW f \in Field, Store(s, f) PROVE IInv'
  BY <1>2, StorePreserves
<1>3. ASSUME NEW s \in Slot, NEW t \in Slot, NEW f \in Field, Load(s, t, f) PROVE IInv'
  BY <1>3, LoadPreserves
<1>4. CASE Collect \/ Collection \/ Destroy
  BY <1>4, CollectPreserves, ScanWordPreserves, MarkPointerPreserves, EndMarkObjPreserves,
     BeginSweepPreserves, SweepEntryPreserves, EndSweepPreserves, DestroyPreserves,
     DestroyEntryPreserves, EndDestroyPreserves DEF Collection
<1>5. CASE UNCHANGED vars
  BY <1>5 DEF IInv, vars, heapVars, scanVars, sweepVars, ghosts, TypeOK, Phases, Lists, Destroying,
     Marks, Traced, Within, RootsWithin, Retained, Reached, Listed, Swept, Undone
<1> QED
  BY <1>1, <1>2, <1>3, <1>4, <1>5 DEF Next, Client, Over

LEMMA Inductive == Spec => []IInv
PROOF
<1> QED
  BY InitIInv, NextPreserves, PTL DEF Spec

(* Blocks, headers, lists and the collector's positions keep their types.  *)
THEOREM TypeCorrect == Spec => []TypeOK
PROOF
<1>1. IInv => TypeOK
  BY DEF IInv
<1> QED
  BY <1>1, Inductive, PTL

(* A block the client refers to is there, unless it was given to free():   *)
(* mark and sweep free nothing reachable, as long as no collection began   *)
(* with a mark of the client that hid what its block refers to (~torn).    *)
THEOREM HeldBlocksStay == Spec => []NoDangling
PROOF
<1>1. IInv => NoDangling
  BY DEF IInv, Marks, Within, RootsWithin, NoDangling
<1> QED
  BY <1>1, Inductive, PTL

(* The list of allocations has every live block once, and others or        *)
(* repeated ones only for addresses given to free().                       *)
THEOREM EveryBlockListedOnce == Spec => []ListedOnce
PROOF
<1>1. IInv => ListedOnce
  BY WholeList DEF IInv, Lists, ListedOnce
<1> QED
  BY <1>1, Inductive, PTL

(* As long as nobody calls free(), the collector reads no header it has    *)
(* given back, whatever the client marks, and the destructor frees all.    *)
THEOREM NoUseAfterFree == Spec => []CleanWithoutFree
PROOF
<1>1. IInv => CleanWithoutFree
  BY DEF IInv, Phases, CleanWithoutFree
<1> QED
  BY <1>1, Inductive, PTL

(* A finalizer finds nothing gone but what the same sweep or destructor    *)
(* freed before it.                                                        *)
THEOREM FinalizersSeeOneSweep == Spec => []FinalizersMeetTheirOwn
PROOF
<1>1. IInv => FinalizersMeetTheirOwn
  BY DEF IInv, Marks, Within, FinalizersMeetTheirOwn
<1> QED
  BY <1>1, Inductive, PTL

(* What is left after a collection is what its scan could reach, and it is *)
(* not marked.                                                             *)
THEOREM CollectionIsComplete == Spec => GarbageGone
PROOF
<1> DEFINE A == (phase = "sweep" /\ phase' = "idle" /\ freed = {})
                  => marked' = {} /\ \A S \in SUBSET Addr : Closed(S) => live' \subseteq S
<1>1. ASSUME IInv, Next PROVE A
  <2> SUFFICES ASSUME phase = "sweep", phase' = "idle", freed = {}
               PROVE  marked' = {} /\ \A S \in SUBSET Addr : Closed(S) => live' \subseteq S
    OBVIOUS
  <2>1. EndSweep
    BY <1>1 DEF Next, Client, Malloc, Assign, Free, Touch, MarkObj, ClearMark, Store, Load, Collect,
       Collection, ScanWord, MarkPointer, EndMarkObj, BeginSweep, SweepEntry, Corrupt, Broken, Destroy,
       DestroyEntry, EndDestroy, Over, vars, scanVars, sweepVars, heapVars, ghosts
  <2>2. live' = live /\ live \subseteq ToSet(kept)
    BY <1>1, <2>1 DEF EndSweep, IInv, TypeOK, Lists, ToSet
  <2>3. marked = {} /\ marked' = {}
    BY <1>1, <2>1 DEF EndSweep, IInv, TypeOK, Lists
  <2>4. /\ Retained = ToSet(kept) /\ ToSet(kept) \subseteq live /\ ToSet(kept) \subseteq Listed
        /\ pointers = {}
    BY <1>1, <2>3 DEF IInv, Lists, Phases, Retained, ToSet
  <2>5. ASSUME NEW S \in SUBSET Addr, Closed(S) PROVE live' \subseteq S
    <3>1. Reached(S)
      BY <2>4, <2>5 DEF Reached, Closed, IsPointer
    <3> QED
      BY <1>1, <2>2, <2>4, <3>1 DEF IInv, Traced
  <2> QED
    BY <2>3, <2>5
<1>2. ASSUME IInv, [Next]_vars PROVE [A]_vars
  BY <1>1, <1>2
<1>3. Spec => [][A]_vars
  BY <1>2, Inductive, PTL DEF Spec
<1> QED
  BY <1>3 DEF GarbageGone
=============================================================================
