------------------------------ MODULE HashTable ------------------------------
(***************************************************************************)
(* lython::HashTable (src/stdlib/hashtable.h): open addressing with linear *)
(* probing over a power of two slots; a removed item keeps its slot, which *)
(* is marked deleted.  Before an insertion at a load of 0.75 the table is  *)
(* rebuilt at twice its size; resize, reserve and rehash rebuild it too.   *)
(*                                                                         *)
(* A call is one step, but for the loop of resize_force, which is one step *)
(* per slot (phase, into, next).  What a free or a deleted slot still      *)
(* holds is never read again and is not kept.  `collision` only counts.    *)
(*                                                                         *)
(* resize_force ends with an assignment of std::vector.  When the new      *)
(* slots do not fit the memory of the table they are copied into fresh     *)
(* memory; otherwise they are assigned over the old ones, and operator= of *)
(* an item marks it used, so that the free ones become items of the        *)
(* default key: the table is no longer `intact`.                           *)
(***************************************************************************)
EXTENDS Integers, FiniteSets

CONSTANTS
  Key,
  Value,
  NoValue,       \* get() returned false
  DefaultKey,    \* Key()
  DefaultValue,  \* the value of a slot that was never written
  Hash,          \* H::hash
  Sizes,         \* the powers of two (bound: the largest)
  Buckets,       \* the sizes the constructor is called with
  MinUsed,       \* bounds: calls that would take `used` out of
  MaxUsed        \* MinUsed .. MaxUsed are not made

ASSUME KeyAssumption == DefaultKey \in Key
ASSUME ValueAssumption == DefaultValue \in Value /\ NoValue \notin Value
ASSUME HashAssumption == Hash \in [Key -> Nat]
ASSUME SizesAssumption == Sizes \subseteq Nat \ {0} /\ Buckets \subseteq Sizes
ASSUME UsedAssumption == MinUsed \in Int /\ MaxUsed \in Int

VARIABLES
  storage,   \* _storage
  capacity,  \* _storage.capacity()
  used,
  phase,     \* "idle", "reinsert" (in resize_force) or "insert" (after it)
  into,      \* `storage` of resize_force
  next,      \* the slot its loop has reached
  request,   \* the insertion that made the table grow, or NoRequest
  older,     \* ghost: per key, the values that live items have covered
  holes,     \* ghost: an item was deleted since the table was last rebuilt
  intact     \* ghost: no resize was done in place

ghosts == <<older, holes, intact>>
rebuildVars == <<phase, into, next, request>>
vars == <<storage, capacity, used, rebuildVars, ghosts>>

-----------------------------------------------------------------------------
(* Slots and tables                                                        *)

Item == [key : Key, value : Value, used : BOOLEAN, deleted : BOOLEAN]
Free == [key |-> DefaultKey, value |-> DefaultValue, used |-> FALSE, deleted |-> TRUE]
Deleted == [key |-> DefaultKey, value |-> DefaultValue, used |-> TRUE, deleted |-> TRUE]
Holding(k, v) == [key |-> k, value |-> v, used |-> TRUE, deleted |-> FALSE]

Live(item) == item.used /\ ~ item.deleted

Storage(n) == [size |-> n, item |-> [i \in 0 .. n - 1 |-> Free]]
Slots(t) == 0 .. t.size - 1
LiveSlots(t) == {i \in Slots(t) : Live(t.item[i])}
Put(t, i, item) == [size |-> t.size, item |-> [t.item EXCEPT ![i] = item]]

NoRequest == [key |-> DefaultKey, value |-> DefaultValue, upsert |-> FALSE, none |-> TRUE]

(* P2_MOD(hash + offset, size)                                             *)
Place(t, k, o) == (Hash[k] + o) % t.size
At(t, k, o) == t.item[Place(t, k, o)]
Holds(item, k) == Live(item) /\ item.key = k

(* The offset at which _find returns an item.                              *)
FindsAt(t, k, o) ==
  /\ Holds(At(t, k, o), k)
  /\ \A p \in 0 .. o - 1 : At(t, k, p).used /\ ~ Holds(At(t, k, p), k)

Lookup(t, k) ==
  IF \E o \in Slots(t) : FindsAt(t, k, o)
  THEN At(t, k, CHOOSE o \in Slots(t) : FindsAt(t, k, o)).value
  ELSE NoValue

(* The offset at which the loop of insert returns.                         *)
StopsAt(t, k, o) ==
  LET Stop(p) == Live(At(t, k, p)) => At(t, k, p).key = k
  IN  Stop(o) /\ \A p \in 0 .. o - 1 : ~ Stop(p)

-----------------------------------------------------------------------------
(* insert(Storage&, ...): t becomes t2 and the count c becomes c2          *)

PutIn(t, t2, k, v, upsert, c, c2) ==
  \/ \E o \in Slots(t) :
       /\ StopsAt(t, k, o)
       /\ IF ~ Live(At(t, k, o))
          THEN t2 = Put(t, Place(t, k, o), Holding(k, v)) /\ c2 = c + 1
          ELSE /\ t2 = IF upsert THEN Put(t, Place(t, k, o), Holding(k, v)) ELSE t
               /\ c2 = c
  \/ /\ \A o \in Slots(t) : ~ StopsAt(t, k, o)      \* no room
     /\ t2 = t
     /\ c2 = c

(* A value that reaches a new slot covers the one found before.            *)
Covered(k, t2) ==
  IF LiveSlots(t2) # LiveSlots(storage) /\ Lookup(storage, k) # NoValue
  THEN [older EXCEPT ![k] = @ \union {Lookup(storage, k)}]
  ELSE older

(* load_factor() >= 0.75                                                   *)
LoadedWhenFull == used > storage.size    \* fault: off by one, and no reserve
Loaded == 4 * used >= 3 * storage.size

(* insert(name, value), upsert(name, value)                                *)
Insert(k, v, upsert) ==
  /\ phase = "idle"
  /\ used < MaxUsed
  /\ ~ Loaded
  /\ PutIn(storage, storage', k, v, upsert, used, used')
  /\ older' = Covered(k, storage')
  /\ UNCHANGED <<capacity, rebuildVars, holes, intact>>

(* resize_force(n) up to its loop                                          *)
Rebuild(n, r) ==
  /\ phase' = "reinsert"
  /\ into' = Storage(n)
  /\ next' = 0
  /\ request' = r
  /\ intact' = (intact /\ n > capacity)
  /\ UNCHANGED <<storage, capacity, used, older, holes>>

InsertAndGrow(k, v, upsert) ==
  /\ phase = "idle"
  /\ used < MaxUsed
  /\ Loaded
  /\ 2 * storage.size \in Sizes
  /\ Rebuild(2 * storage.size, [key |-> k, value |-> v, upsert |-> upsert, none |-> FALSE])

(* resize, reserve, rehash: the argument is rounded up to a power of two.  *)
(* Bound: not called again after a resize in place.                        *)
Resize(n) ==
  /\ phase = "idle"
  /\ intact
  /\ Rebuild(n, NoRequest)

MissesLast == next = storage.size - 1    \* fault: the last slot is left out
LoopIsOver == next = storage.size

(* One turn of the loop; the counts it gives to insert are its own.        *)
Reinsert ==
  /\ phase = "reinsert"
  /\ ~ LoopIsOver
  /\ LET item == storage.item[next]
     IN  IF Live(item)
         THEN \E c \in {0, 1} : PutIn(into, into', item.key, item.value, FALSE, 0, c)
         ELSE into' = into
  /\ next' = next + 1
  /\ UNCHANGED <<storage, capacity, used, phase, request, ghosts>>

(* _storage = storage                                                      *)
Assigned(item) == Holding(item.key, item.value)

Adopted ==
  [size |-> into.size,
   item |-> [i \in Slots(into) |->
               IF into.size <= capacity /\ i < storage.size
               THEN Assigned(into.item[i]) ELSE into.item[i]]]

Memory == IF into.size > capacity THEN into.size ELSE capacity

Adopt ==
  /\ phase = "reinsert"
  /\ LoopIsOver
  /\ storage' = Adopted
  /\ capacity' = Memory
  /\ phase' = IF request.none THEN "idle" ELSE "insert"
  /\ into' = Storage(1)
  /\ next' = 0
  /\ older' = [k \in Key |-> {}]
  /\ holes' = FALSE
  /\ UNCHANGED <<used, request, intact>>

(* The insertion that made the table grow.                                 *)
InsertPending ==
  /\ phase = "insert"
  /\ PutIn(storage, storage', request.key, request.value, request.upsert, used, used')
  /\ older' = Covered(request.key, storage')
  /\ phase' = "idle"
  /\ request' = NoRequest
  /\ UNCHANGED <<capacity, into, next, holes, intact>>

Freed == Free           \* fault: a removed item leaves a free slot
Marked == Deleted

Remove(k) ==
  /\ phase = "idle"
  /\ used > MinUsed
  /\ \E o \in Slots(storage) :
       /\ FindsAt(storage, k, o)
       /\ storage' = Put(storage, Place(storage, k, o), Marked)
  /\ used' = used - 1
  /\ older' = IF Lookup(storage', k) = NoValue THEN [older EXCEPT ![k] = {}] ELSE older
  /\ holes' = TRUE
  /\ UNCHANGED <<capacity, rebuildVars, intact>>

(* `used`, the member, is left as it is.                                   *)
Clear ==
  /\ phase = "idle"
  /\ storage' = Storage(storage.size)
  /\ older' = [k \in Key |-> {}]
  /\ holes' = FALSE
  /\ UNCHANGED <<capacity, used, rebuildVars, intact>>

Init ==
  /\ \E n \in Buckets : storage = Storage(n) /\ capacity = n
  /\ used = 0
  /\ phase = "idle"
  /\ into = Storage(1)
  /\ next = 0
  /\ request = NoRequest
  /\ older = [k \in Key |-> {}]
  /\ holes = FALSE
  /\ intact = TRUE

Next ==
  \/ \E k \in Key, v \in Value, upsert \in BOOLEAN :
       Insert(k, v, upsert) \/ InsertAndGrow(k, v, upsert)
  \/ \E k \in Key : Remove(k)
  \/ \E n \in Sizes : Resize(n)
  \/ Reinsert \/ Adopt \/ InsertPending \/ Clear

Spec == Init /\ [][Next]_vars

-----------------------------------------------------------------------------
(* Properties                                                              *)

(* A table has one item per slot; the memory of the vector is at least as  *)
(* large, and while resize_force runs no other call does (lines 192-207).  *)
TypeOK ==
  /\ \A t \in {storage, into} : t = [size |-> t.size, item |-> t.item]
                                /\ t.size \in Nat \ {0}
                                /\ t.item \in [Slots(t) -> Item]
  /\ capacity \in Nat /\ storage.size <= capacity
  /\ used \in Int
  /\ phase \in {"idle", "reinsert", "insert"}
  /\ next \in 0 .. storage.size
  /\ request.key \in Key /\ request.value \in Value
  /\ request.upsert \in BOOLEAN /\ request.none \in BOOLEAN
  /\ older \in [Key -> SUBSET Value]
  /\ holes \in BOOLEAN /\ intact \in BOOLEAN

(* Every slot between the home of a key and the item that holds it is used *)
(* (_find gives up at a slot that is not, line 228): nothing that was put  *)
(* in the table becomes unreachable by later removals and insertions.  The *)
(* items of the default key a resize in place makes up are the exception.  *)
Reachable(t, i) ==
  \E o \in Slots(t) : /\ Place(t, t.item[i].key, o) = i
                       /\ \A p \in 0 .. o - 1 : At(t, t.item[i].key, p).used
ProbeChain ==
  \A t \in {storage, into} : \A i \in LiveSlots(t) :
    intact \/ t.item[i].key # DefaultKey => Reachable(t, i)

(* insert always finds a slot: the load is below 0.75 or the table has     *)
(* just grown (lines 244-250), although clear and covered items leave      *)
(* `used` too high, and although `used` is what the load is computed from. *)
RoomToInsert ==
  intact /\ (phase = "insert" \/ (phase = "idle" /\ ~ Loaded))
    => LiveSlots(storage) # Slots(storage)

(* HashTable implements Dictionary: get() returns the last value accepted  *)
(* for the key, unless it was covered (insert, lines 254-283).             *)
Found == [k \in Key |-> Lookup(storage, k)]
Abstract == INSTANCE Dictionary WITH val <- Found
IsDictionary == Abstract!Spec

(* "if the key already exist does not insert" (line 243).                  *)
ExistingKeyRefused ==
  [][\A k \in Key, v \in Value :
       Insert(k, v, FALSE) /\ Lookup(storage, k) # NoValue => storage' = storage]_vars
=============================================================================
