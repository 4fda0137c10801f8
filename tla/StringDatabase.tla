--------------------------- MODULE StringDatabase ---------------------------
(***************************************************************************)
(* lython::StringDatabase and StringRef (src/utilities/names.h, names.cpp):*)
(* every identifier of a program is stored once and referred to by the     *)
(* index of its entry.  Entries live in blocks of block_size that reserve  *)
(* their memory when they are created, so that the views handed out and    *)
(* the keys of `defined`, which point into the entries, stay valid.        *)
(*                                                                         *)
(* A member function that holds the mutex is one step.  A StringRef is     *)
(* built, copied, assigned and destroyed by several such calls in a row,   *)
(* between which other threads run: call[t].todo lists those still to do.  *)
(* inc() reads `size` before it takes the mutex: the value may be any      *)
(* between the last one the thread is known to have seen and the present.  *)
(*                                                                         *)
(* The counters `count` and `copy`, only printed by report(), are left out.*)
(***************************************************************************)
EXTENDS Integers, Sequences, FiniteSets

CONSTANTS
  Thread,
  Slot,          \* storage for StringRef objects
  Owner,         \* the thread that builds, assigns and destroys each of them
  Text,          \* the strings that are interned, other than ""
  Empty,         \* the string "", entry 0
  BlockSize,     \* block_size (1024 in the code)
  MaxForgotten   \* no text is interned again once it has so many uncounted references

ASSUME SlotAssumption == Slot # {} /\ IsFiniteSet(Slot)
ASSUME ThreadAssumption == IsFiniteSet(Thread)
ASSUME OwnerAssumption == Owner \in [Slot -> Thread]
ASSUME EmptyAssumption == Empty \notin Text
ASSUME BlockSizeAssumption == BlockSize \in Nat \ {0}
ASSUME ForgottenAssumption == MaxForgotten \in Nat

VARIABLES
  blocks,      \* memory_blocks and reverse: sequence of [entries, capacity]
  defined,     \* text -> id
  size,
  ref,         \* StringRef::ref of each slot
  alive,       \* the slots that hold a constructed StringRef
  text,        \* ghost: the text each slot was built from
  call,        \* per thread, the StringRef member function it is in
  seen,        \* ghost: lower bound on the value of `size` a thread can read
  forgotten    \* ghost: per text, the references that in_use does not count

dbVars == <<blocks, defined, size>>
refVars == <<ref, alive, text>>
vars == <<dbVars, refVars, call, seen, forgotten>>

AnyText == Text \union {Empty}

Idle == [todo |-> <<>>, slot |-> CHOOSE s \in Slot : TRUE, arg |-> 0, name |-> Empty, temp |-> 0]

-----------------------------------------------------------------------------
(* Storage                                                                 *)

(* get(i)                                                                  *)
BlockOf(i) == (i \div BlockSize) + 1
IndexOf(i) == (i % BlockSize) + 1
Get(i) == IF BlockOf(i) <= Len(blocks) THEN blocks[BlockOf(i)].entries[IndexOf(i)]
                                       ELSE blocks[1].entries[1]

(* in_use of entry i changes by d; inc and dec do nothing for entry 0.     *)
Use(bs, i, d) ==
  IF i = 0 THEN bs ELSE [bs EXCEPT ![BlockOf(i)].entries[IndexOf(i)].in_use = @ + d]

NewBlock == [entries |-> <<>>, capacity |-> BlockSize]

AlwaysLast == blocks    \* fault: a full block is used again
CurrentBlock ==
  IF blocks[Len(blocks)].capacity # Len(blocks[Len(blocks)].entries)
  THEN blocks
  ELSE Append(blocks, NewBlock)

(* std::vector::push_back: a full vector moves to twice its capacity.      *)
PushBack(b, e) ==
  [entries |-> Append(b.entries, e),
   capacity |-> IF Len(b.entries) = b.capacity THEN 2 * b.capacity ELSE b.capacity]

(* insert_string: the entry is born with in_use = 1, and the StringRef     *)
(* that is returned adds one.                                              *)
Inserted(x) ==
  LET bs == CurrentBlock
  IN  [bs EXCEPT ![Len(bs)] = PushBack(@, [data |-> x, in_use |-> 2])]

SizeKept(n) == n        \* fault: size += 1 is forgotten
SizeAfter(n) == n + 1

-----------------------------------------------------------------------------
(* The calls each StringRef member function makes, in order.               *)

BuildSteps == <<"lookup", "drop">>
CopySteps == <<"test", "acquire">>
DestroySteps == <<"release">>
AssignStringSteps == <<"release", "lookup", "drop">>
(* operator=(StringRef const&) returns a StringRef by value: the result is *)
(* a copy of *this that is built and destroyed.                            *)
LeakyAssign == <<"test", "acquire", "test", "hold", "drop">> \* fault: no dec
AssignSteps == <<"release", "test", "acquire", "test", "hold", "drop">>

Enter(t, s, todo, arg, name) ==
  /\ call[t].todo = <<>>
  /\ Owner[s] = t
  /\ call' = [call EXCEPT ![t] = [todo |-> todo, slot |-> s, arg |-> arg,
                                  name |-> name, temp |-> 0]]

Busy(s) == \E u \in Thread : call[u].todo # <<>> /\ call[u].slot = s

WithinBound(x) == x # Empty => forgotten[x] < MaxForgotten

(* StringRef(String const&), StringRef(const char* )                       *)
Build(t, s, x) ==
  /\ s \notin alive
  /\ WithinBound(x)
  /\ Enter(t, s, BuildSteps, 0, x)
  /\ UNCHANGED <<dbVars, refVars, seen, forgotten>>

(* A reference reaches another thread through some synchronisation, after  *)
(* which the reader knows the size its owner knew.                         *)
Unsynchronised(t, u) == seen[t]   \* fault: the reference is passed by a race
HandOver(t, u) == IF seen[t] < seen[u] THEN seen[u] ELSE seen[t]

(* StringRef(StringRef const&) and StringRef(StringRef const&&)            *)
Copy(t, s, from) ==
  /\ s \notin alive
  /\ from \in alive /\ ~Busy(from)
  /\ Enter(t, s, CopySteps, ref[from], text[from])
  /\ seen' = [seen EXCEPT ![t] = HandOver(t, Owner[from])]
  /\ UNCHANGED <<dbVars, refVars, forgotten>>

(* operator=(StringRef const&)                                             *)
Assign(t, s, from) ==
  /\ s \in alive
  /\ from \in alive /\ ~Busy(from)
  /\ Enter(t, s, AssignSteps, ref[from], text[from])
  /\ seen' = [seen EXCEPT ![t] = HandOver(t, Owner[from])]
  /\ UNCHANGED <<dbVars, refVars, forgotten>>

(* operator=(String const&)                                                *)
AssignString(t, s, x) ==
  /\ s \in alive
  /\ WithinBound(x)
  /\ Enter(t, s, AssignStringSteps, 0, x)
  /\ UNCHANGED <<dbVars, refVars, seen, forgotten>>

Destroy(t, s) ==
  /\ s \in alive
  /\ Enter(t, s, DestroySteps, 0, Empty)
  /\ UNCHANGED <<dbVars, refVars, seen, forgotten>>

-----------------------------------------------------------------------------
(* The steps of a call                                                     *)

Doing(t, what) == call[t].todo # <<>> /\ Head(call[t].todo) = what

(* The step is done; the last one of a call leaves nothing behind.         *)
Step(t, arg, temp) ==
  LET now == call[t]
  IN  call' = [call EXCEPT ![t] =
                 IF Len(now.todo) = 1 THEN Idle
                 ELSE [todo |-> Tail(now.todo), slot |-> now.slot, arg |-> arg,
                       name |-> now.name, temp |-> temp]]

(* A thread that held the mutex knows the size; inc(0), dec(0) do not lock.*)
Observe(t, i) == seen' = IF i = 0 THEN seen ELSE [seen EXCEPT ![t] = size]

(* dec(ref); what the slot holds afterwards is not read again.             *)
Release(t) ==
  LET s == call[t].slot
  IN  /\ Doing(t, "release")
      /\ blocks' = Use(blocks, ref[s], -1)
      /\ alive' = alive \ {s}
      /\ ref' = [ref EXCEPT ![s] = 0]
      /\ text' = [text EXCEPT ![s] = Empty]
      /\ Step(t, call[t].arg, call[t].temp)
      /\ Observe(t, ref[s])
      /\ UNCHANGED <<defined, size, forgotten>>

(* string(name).ref: the slot takes the id while the temporary still lives.*)
Take(t, id) ==
  /\ ref' = [ref EXCEPT ![call[t].slot] = id]
  /\ alive' = alive \union {call[t].slot}
  /\ text' = [text EXCEPT ![call[t].slot] = call[t].name]

Found(t, id, n) ==
  /\ Take(t, id)
  /\ seen' = [seen EXCEPT ![t] = n]
  /\ Step(t, call[t].arg, id)

(* `auto entry = get(ref)` copies the entry: of the two increments of      *)
(* in_use only the one of the returned StringRef is kept.                  *)
LookupKnown(t) ==
  LET x == call[t].name
  IN  /\ Doing(t, "lookup")
      /\ x \in DOMAIN defined
      /\ Found(t, defined[x], size)
      /\ blocks' = Use(blocks, defined[x], 1)
      /\ forgotten' = IF x = Empty THEN forgotten ELSE [forgotten EXCEPT ![x] = @ + 1]
      /\ UNCHANGED <<defined, size>>

LookupNew(t) ==
  LET x == call[t].name
  IN  /\ Doing(t, "lookup")
      /\ x \notin DOMAIN defined
      /\ Found(t, size, SizeAfter(size))
      /\ blocks' = Inserted(x)
      /\ defined' = [y \in DOMAIN defined \union {x} |-> IF y = x THEN size ELSE defined[y]]
      /\ size' = SizeAfter(size)
      /\ UNCHANGED forgotten

(* The temporary is destroyed.                                             *)
Drop(t) ==
  /\ Doing(t, "drop")
  /\ blocks' = Use(blocks, call[t].temp, -1)
  /\ Step(t, call[t].arg, 0)
  /\ Observe(t, call[t].temp)
  /\ UNCHANGED <<defined, size, refVars, forgotten>>

(* The test at the head of inc(), without the mutex: an id that is not     *)
(* below the size read becomes 0.                                          *)
Test(t) ==
  /\ Doing(t, "test")
  /\ \E n \in seen[t] .. size :
        Step(t, IF call[t].arg >= n THEN 0 ELSE call[t].arg, call[t].temp)
  /\ UNCHANGED <<dbVars, refVars, seen, forgotten>>

(* The rest of inc(), for the slot ...                                     *)
Acquire(t) ==
  /\ Doing(t, "acquire")
  /\ blocks' = Use(blocks, call[t].arg, 1)
  /\ Take(t, call[t].arg)
  /\ Step(t, call[t].arg, call[t].temp)
  /\ Observe(t, call[t].arg)
  /\ UNCHANGED <<defined, size, forgotten>>

(* ... and for the StringRef that operator= returns.                       *)
Hold(t) ==
  /\ Doing(t, "hold")
  /\ blocks' = Use(blocks, call[t].arg, 1)
  /\ Step(t, call[t].arg, call[t].arg)
  /\ Observe(t, call[t].arg)
  /\ UNCHANGED <<defined, size, refVars, forgotten>>

-----------------------------------------------------------------------------
Init ==
  /\ blocks = <<[entries |-> <<[data |-> Empty, in_use |-> 0]>>, capacity |-> BlockSize]>>
  /\ defined = [x \in {Empty} |-> 0]
  /\ size = 1
  /\ ref = [s \in Slot |-> 0]
  /\ alive = {}
  /\ text = [s \in Slot |-> Empty]
  /\ call = [t \in Thread |-> Idle]
  /\ seen = [t \in Thread |-> 1]
  /\ forgotten = [x \in Text |-> 0]

Begin(t) ==
  \E s \in Slot :
    \/ \E x \in AnyText : Build(t, s, x) \/ AssignString(t, s, x)
    \/ \E from \in Slot : Copy(t, s, from) \/ Assign(t, s, from)
    \/ Destroy(t, s)

Continue(t) ==
  \/ Release(t)
  \/ LookupKnown(t)
  \/ LookupNew(t)
  \/ Drop(t)
  \/ Test(t)
  \/ Acquire(t)
  \/ Hold(t)

Next == \E t \in Thread : Begin(t) \/ Continue(t)

Spec == Init /\ [][Next]_vars

-----------------------------------------------------------------------------
Ids == 0 .. size - 1

(* Types; a reference is always the index of an entry (the lyassert of     *)
(* every StringRef constructor, names.h:125-145).                          *)
TypeOK ==
  /\ size \in Nat \ {0}
  /\ defined \in [DOMAIN defined -> Ids]
  /\ DOMAIN defined \subseteq AnyText
  /\ blocks \in Seq([entries : Seq([data : AnyText, in_use : Int]), capacity : Nat])
  /\ ref \in [Slot -> Ids]
  /\ alive \subseteq Slot
  /\ text \in [Slot -> AnyText]
  /\ call \in [Thread -> [todo : Seq({"release", "lookup", "test", "acquire", "hold", "drop"}),
                          slot : Slot, arg : Ids, name : AnyText, temp : Ids]]
  /\ seen \in [Thread -> 1 .. size]
  /\ forgotten \in [Text -> Nat]

(* Comparing two references (operator==, names.h:148) is comparing the     *)
(* texts they were built from, whatever was interned, copied or destroyed  *)
(* by other threads meanwhile; and a reference still reads as its text.    *)
EqualNames ==
  \A s \in alive :
    /\ Get(ref[s]).data = text[s]
    /\ \A r \in alive : (ref[s] = ref[r]) <=> (text[s] = text[r])

(* The views that operator[] returned and the keys of `defined` point into *)
(* the entries: a block never moves and the text of an entry never changes *)
(* ("allocates strings in block to avoid reallocation", names.h:105).      *)
ViewsStay ==
  [][\A k \in 1 .. Len(blocks) :
        /\ k <= Len(blocks')
        /\ blocks'[k].capacity = blocks[k].capacity
        /\ \A i \in 1 .. Len(blocks[k].entries) :
              /\ i <= Len(blocks'[k].entries)
              /\ blocks'[k].entries[i].data = blocks[k].entries[i].data]_vars

(* The StringRef objects and temporaries that refer to entry i.            *)
Holders(i) ==
  Cardinality({s \in alive : ref[s] = i}) + Cardinality({t \in Thread : call[t].temp = i})

(* in_use is short of the references that exist by exactly one for every   *)
(* time a text that was already known was interned: nothing else, no copy, *)
(* assignment or destruction in any order, loses or invents a reference.   *)
InUseDrift ==
  \A x \in DOMAIN defined \ {Empty} :
    Get(defined[x]).in_use + forgotten[x] = Holders(defined[x])
=============================================================================
