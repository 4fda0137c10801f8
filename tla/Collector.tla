------------------------------ MODULE Collector ------------------------------
(***************************************************************************)
(* lython::BoehmGarbageCollector (src/stdlib/garbage.h, garbage.cpp,       *)
(* garbage_linux.cpp): a conservative mark and sweep collector over the    *)
(* blocks it has handed out.  Every collection is one of the youngest      *)
(* generation: should_promote is constantly false, so the others are       *)
(* empty, and collecting them changes nothing.                             *)
(*                                                                         *)
(* The client is one thread that holds references in words the collector   *)
(* scans (stack, globals, registers) and in the fields of its blocks; it   *)
(* runs between the calls.  collect is cut into its iterations: one root   *)
(* word, one pointer of mark_obj, one entry of sweep.                      *)
(*                                                                         *)
(* free() gives the block back and leaves its header in the list ("TODO:   *)
(* remove the ptr from the allocation").  A collector that reads a header  *)
(* std::free has taken back is undefined: the run is `corrupt` and ends.   *)
(* It ends as `broken` when somebody else follows a reference to a block   *)
(* that is gone: the client, or the finalizer of another block.            *)
(*                                                                         *)
(* A finalizer, run before its block is given back, may follow any of the  *)
(* references of that block, or none; it calls no function of the collector*)
(* and stores nothing.                                                     *)
(***************************************************************************)
EXTENDS Integers, Sequences, FiniteSets, SequencesExt

CONSTANTS
  Addr,       \* addresses std::malloc returns
  Null,
  Field,      \* the words of a block that may hold a reference
  Slot,       \* the scanned words that hold the client's references
  MaxListed,  \* bound: entries of the list of allocations
  MaxStray    \* bound: stray words of one scan, and of one block

ASSUME NullAssumption == Null \notin Addr
ASSUME MaxListedAssumption == MaxListed \in Nat
ASSUME MaxStrayAssumption == MaxStray \in Nat

VARIABLES
  live,         \* the blocks std::malloc has handed out
  field,        \* what they hold
  marked,       \* the blocks whose header has its mark
  allocations,  \* allocations(GCGen::Temporary)
  root,         \* the references in scanned words
  phase,
  pending,      \* words still to be scanned
  pointers,     \* the work space of mark_obj
  index,        \* the entry sweep has reached
  kept,         \* `allocs` of sweep
  words,        \* ghost: the words of this scan, and the marks it found
  freed,        \* ghost: addresses given to free()
  torn          \* ghost: a collection began with a marked block that refers
                \* to an unmarked one

heapVars == <<live, field, marked, allocations>>
scanVars == <<pending, pointers, words>>
sweepVars == <<index, kept>>
ghosts == <<freed, torn>>
vars == <<heapVars, root, phase, scanVars, sweepVars, ghosts>>

Empty == [f \in Field |-> Null]
Listed == ToSet(allocations)

\* is_pointer: the address of a listed block, alive or not
IsPointer(w) == w \in Listed

\* Words that hold no reference of anybody and still read as the address of
\* a listed block: old stack words, numbers, bytes of two neighbouring fields
\* and those beyond the end of a block (mark_obj reads at every offset).
Stray == {w \in SUBSET Listed : Cardinality(w) <= MaxStray}

Corrupt ==
  /\ phase' = "corrupt"
  /\ UNCHANGED <<heapVars, root, scanVars, sweepVars, ghosts>>

Broken ==
  /\ phase' = "broken"
  /\ UNCHANGED <<heapVars, root, scanVars, sweepVars, ghosts>>

\* The finalizer of a, if it follows its references, reads freed memory.
Dangles(a) == \E f \in Field : field[a][f] \notin live \union {Null}

-----------------------------------------------------------------------------
(* The client                                                              *)

\* malloc<T>(), and the constructor of T
Malloc(s) ==
  /\ phase = "idle" /\ Len(allocations) < MaxListed
  /\ \E a \in Addr \ live :
       /\ live' = live \union {a}
       /\ field' = [field EXCEPT ![a] = Empty]
       /\ marked' = marked \ {a}
       /\ allocations' = Append(allocations, a)
       /\ root' = [root EXCEPT ![s] = a]
  /\ UNCHANGED <<phase, scanVars, sweepVars, ghosts>>

\* It copies a reference, or forgets one ...
Assign(s) ==
  /\ phase = "idle"
  /\ \E w \in {root[t] : t \in Slot} \union {Null} : root' = [root EXCEPT ![s] = w]
  /\ UNCHANGED <<heapVars, phase, scanVars, sweepVars, ghosts>>

\* ... reads one from a block ...
Load(s, t, f) ==
  /\ phase = "idle" /\ root[t] \in live
  /\ root' = [root EXCEPT ![s] = field[root[t]][f]]
  /\ UNCHANGED <<heapVars, phase, scanVars, sweepVars, ghosts>>

\* ... or writes one to a block.
Store(t, f) ==
  /\ phase = "idle" /\ root[t] \in live
  /\ \E w \in {root[s] : s \in Slot} \union {Null} : field' = [field EXCEPT ![root[t]][f] = w]
  /\ UNCHANGED <<live, marked, allocations, root, phase, scanVars, sweepVars, ghosts>>

\* The client holds the last reference to the block it frees; the word that
\* held it may keep its value.
Unshared(s) ==
  /\ \A t \in Slot \ {s} : root[t] # root[s]
  /\ \A a \in live, f \in Field : field[a][f] # root[s]

Release(a) ==
  /\ live' = live \ {a}
  /\ marked' = marked \ {a}
  /\ field' = [field EXCEPT ![a] = Empty]

Free(s) ==
  /\ phase = "idle" /\ root[s] \in live /\ Unshared(s)
  /\ \/ Dangles(root[s]) /\ Broken
     \/ /\ Release(root[s])
        /\ freed' = freed \union {root[s]}
        /\ \E w \in {Null, root[s]} : root' = [root EXCEPT ![s] = w]
        /\ UNCHANGED <<allocations, phase, scanVars, sweepVars, torn>>

\* Any use of a reference to a block that is gone, calls included
Touch(s) == phase = "idle" /\ root[s] \notin live \union {Null} /\ Broken

\* mark_obj, called by the client
MarkObj(s) ==
  /\ phase = "idle" /\ root[s] \in live
  /\ phase' = "mark_obj"
  /\ pointers' = {root[s]}
  /\ UNCHANGED <<heapVars, root, pending, words, sweepVars, ghosts>>

ClearMark(s) ==
  /\ phase = "idle" /\ root[s] \in live
  /\ marked' = marked \ {root[s]}
  /\ UNCHANGED <<live, field, allocations, root, phase, scanVars, sweepVars, ghosts>>

-----------------------------------------------------------------------------
(* collect                                                                 *)

\* A marked block refers to one that is not marked: a client that marked it,
\* and stored something in it or cleared a mark since, is why.
Split == \E a \in marked, f \in Field : field[a][f] \in live \ marked

\* The scan sees the words that hold references of the client, those it will
\* not use again and stray ones included: what possible_pointer takes for
\* pointers.  The client does not run until it is over.
Collect ==
  /\ phase = "idle"
  /\ \E stray \in Stray : pending' = {w \in {root[s] : s \in Slot} : IsPointer(w)} \union stray
  /\ words' = pending' \union marked
  /\ phase' = "mark"
  /\ pointers' = {}
  /\ torn' = (torn \/ Split)
  /\ UNCHANGED <<heapVars, root, sweepVars, freed>>

\* mark_obj, for the next word
ScanWord ==
  /\ phase = "mark" /\ pointers = {}
  /\ \E w \in pending :
       /\ pending' = pending \ {w}
       /\ pointers' = {w}
  /\ UNCHANGED <<heapVars, root, phase, sweepVars, words, ghosts>>

NoMembers(p) == {}
Members(p) == {field[p][f] : f \in Field}

Always(p) == TRUE
Unread(p) == p \notin marked

\* mark_obj takes a pointer: a marked block is done, another one is marked and
\* read.  The order it takes them in does not matter, nor how often.
MarkPointer ==
  /\ phase \in {"mark", "mark_obj"}
  /\ \E p \in pointers :
       \/ p \notin live /\ Corrupt
       \/ /\ p \in live /\ ~Unread(p)
          /\ pointers' = pointers \ {p}
          /\ UNCHANGED <<heapVars, root, phase, pending, words, sweepVars, ghosts>>
       \/ /\ p \in live /\ Unread(p)
          /\ marked' = marked \union {p}
          /\ \E stray \in Stray :
               /\ pointers' = (pointers \ {p}) \union {w \in Members(p) : IsPointer(w)} \union stray
               /\ words' = words \union stray
          /\ UNCHANGED <<live, field, allocations, root, phase, pending, sweepVars, ghosts>>

\* mark_obj returns to the client
EndMarkObj ==
  /\ phase = "mark_obj" /\ pointers = {}
  /\ phase' = "idle" /\ words' = {}
  /\ UNCHANGED <<heapVars, root, pending, pointers, sweepVars, ghosts>>

BeginSweep ==
  /\ phase = "mark" /\ pointers = {} /\ pending = {}
  /\ phase' = "sweep"
  /\ UNCHANGED <<heapVars, root, scanVars, sweepVars, ghosts>>

Keep(a) ==
  /\ marked' = marked \ {a}
  /\ kept' = Append(kept, a)
  /\ UNCHANGED <<live, field>>

\* fault: what another block refers to is kept, as if references were counted
Unreferenced(a) == a \notin marked /\ \A b \in live, f \in Field : field[b][f] # a
Unmarked(a) == a \notin marked

SweepEntry ==
  /\ phase = "sweep" /\ index <= Len(allocations)
  /\ LET a == allocations[index]
     IN \/ a \notin live /\ Corrupt
        \/ a \in live /\ Unmarked(a) /\ Dangles(a) /\ Broken
        \/ /\ \/ a \in live /\ Unmarked(a) /\ Release(a) /\ UNCHANGED kept
              \/ a \in live /\ ~Unmarked(a) /\ Keep(a)
           /\ index' = index + 1
           /\ UNCHANGED <<allocations, root, phase, scanVars, ghosts>>

Promoted == <<>>
Survivors == kept

\* The list is cleared, and what was kept put back: nothing is promoted.
EndSweep ==
  /\ phase = "sweep" /\ index > Len(allocations)
  /\ phase' = "idle"
  /\ allocations' = Survivors
  /\ words' = {} /\ index' = 1 /\ kept' = <<>>
  /\ UNCHANGED <<live, field, marked, root, pending, pointers, ghosts>>

-----------------------------------------------------------------------------
(* ~BoehmGarbageCollector frees every entry, the latest first.             *)

ButTheLatest == IF allocations = <<>> THEN 0 ELSE Len(allocations) - 1
Latest == Len(allocations)

Destroy ==
  /\ phase = "idle"
  /\ phase' = "destroy"
  /\ index' = Latest
  /\ UNCHANGED <<heapVars, root, scanVars, kept, ghosts>>

DestroyEntry ==
  /\ phase = "destroy" /\ index > 0
  /\ LET a == allocations[index]
     IN \/ a \notin live /\ Corrupt
        \/ a \in live /\ Dangles(a) /\ Broken
        \/ /\ a \in live /\ Release(a)
           /\ index' = index - 1
           /\ UNCHANGED <<allocations, root, phase, scanVars, kept, ghosts>>

EndDestroy ==
  /\ phase = "destroy" /\ index <= 0
  /\ phase' = "destroyed"
  /\ allocations' = <<>>
  /\ UNCHANGED <<live, field, marked, root, scanVars, sweepVars, ghosts>>

-----------------------------------------------------------------------------
Init ==
  /\ live = {} /\ marked = {} /\ allocations = <<>>
  /\ field = [a \in Addr |-> Empty]
  /\ root = [s \in Slot |-> Null]
  /\ phase = "idle"
  /\ pending = {} /\ pointers = {} /\ words = {}
  /\ index = 1 /\ kept = <<>>
  /\ freed = {} /\ torn = FALSE

Client ==
  \E s \in Slot :
    \/ Malloc(s) \/ Assign(s) \/ Free(s) \/ Touch(s) \/ MarkObj(s) \/ ClearMark(s)
    \/ \E f \in Field : Store(s, f) \/ \E t \in Slot : Load(s, t, f)

Collection ==
  \/ ScanWord \/ MarkPointer \/ EndMarkObj \/ BeginSweep \/ SweepEntry \/ EndSweep
  \/ DestroyEntry \/ EndDestroy

Over == phase \in {"corrupt", "broken", "destroyed"} /\ UNCHANGED vars

Next == Client \/ Collect \/ Collection \/ Destroy \/ Over

\* A call of the collector runs to its end.
Spec == Init /\ [][Next]_vars /\ WF_vars(Collection)

-----------------------------------------------------------------------------
(* Properties                                                              *)

Word == Addr \union {Null}

TypeOK ==
  /\ live \subseteq Addr /\ marked \subseteq live
  /\ field \in [Addr -> [Field -> Word]]
  /\ allocations \in Seq(Addr) /\ kept \in Seq(Addr)
  /\ root \in [Slot -> Word]
  /\ phase \in {"idle", "mark", "mark_obj", "sweep", "destroy", "corrupt", "broken", "destroyed"}
  /\ pending \subseteq words /\ words \subseteq Listed /\ pointers \subseteq Listed
  /\ index \in Nat
  /\ freed \subseteq Addr /\ torn \in BOOLEAN

\* What the client holds is there (mark_stack, mark_globals, mark_obj, sweep):
\* a reference in a word or in a block dangles only if its address has once
\* been given to free(), or if a collection began with a mark of the client
\* that hid what its block had come to refer to (`torn`: see NowhereElse).
NoDangling ==
  (phase = "idle" /\ ~torn) =>
    /\ \A s \in Slot : root[s] \in live \union freed \union {Null}
    /\ \A a \in live, f \in Field : field[a][f] \in live \union freed \union {Null}

\* Between two calls the list has each block once and nothing else, but for
\* addresses given to free(), which may be listed dead or twice (malloc, sweep).
ListedOnce ==
  (phase = "idle") =>
    /\ live \subseteq Listed
    /\ Listed \subseteq live \union freed
    /\ \A i, j \in DOMAIN allocations :
         allocations[i] = allocations[j] => i = j \/ allocations[i] \in freed

\* Without free() the collector itself reads no header that was given back,
\* whatever the client marks, and its destructor leaves no block behind.
CleanWithoutFree ==
  (freed = {}) => phase # "corrupt" /\ (phase = "destroyed" => live = {})

\* What a finalizer can find gone: blocks freed before it by the same sweep,
\* which runs from the oldest entry, or by the destructor, which runs from the
\* latest; nothing that an earlier collection freed (sweep, ~Boehm...).
Swept == {allocations[j] : j \in {k \in DOMAIN allocations : k < index}}
Undone == {allocations[j] : j \in {k \in DOMAIN allocations : k > index}}

FinalizersMeetTheirOwn ==
  (freed = {} /\ ~torn) =>
    \A a \in live, f \in Field :
      /\ phase = "sweep" => field[a][f] \in live \union Swept \union {Null}
      /\ phase = "destroy" => field[a][f] \in live \union Undone \union {Null}

\* A set of blocks that has all that the scan can reach from its words.
Closed(S) ==
  /\ words \subseteq S
  /\ \A a \in S \intersect live, f \in Field : IsPointer(field[a][f]) => field[a][f] \in S

\* A collection leaves nothing that its scan could not reach from the words it
\* read and the blocks it found marked, cycles included, and no mark for the
\* next one to find (mark_obj, sweep).
GarbageGone ==
  [][(phase = "sweep" /\ phase' = "idle" /\ freed = {})
       => marked' = {} /\ \A S \in SUBSET Addr : Closed(S) => live' \subseteq S]_vars

\* "The GC will free the value so we have to make sure it is nowhere else"
\* (garbage.h:88): without free() nothing the client refers to is freed.
\* mark_obj stops at the marked blocks it meets, so it is not so.
NowhereElse ==
  (phase = "idle" /\ freed = {}) => \A s \in Slot : root[s] \in live \union {Null}

\* "Usually it is better to free the latest first" (garbage.h:112): as long as
\* blocks refer to older blocks only, no finalizer meets a freed one.  sweep
\* frees the oldest first.
OlderOnly ==
  \A i \in DOMAIN allocations, f \in Field :
    allocations[i] \in live => field[allocations[i]][f] \in {Null} \union ToSet(SubSeq(allocations, 1, i))

LatestFirst == (freed = {} /\ ~torn /\ OlderOnly) => phase # "broken"

\* Every collection, mark_obj and the destructor return.
Collecting == phase \in {"mark", "mark_obj", "sweep", "destroy"}

CollectEnds == Collecting ~> ~Collecting
=============================================================================
