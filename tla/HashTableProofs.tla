--------------------------- MODULE HashTableProofs ---------------------------
(* Theorems about HashTable, for every hash function, every set of keys    *)
(* and values and every size of the table.                                 *)
EXTENDS HashTable, FiniteSetTheorems, WellFoundedInduction, TLAPS

-----------------------------------------------------------------------------
(* The inductive invariant                                                 *)

IsTable(t) ==
  /\ t = [size |-> t.size, item |-> t.item]
  /\ t.size \in Nat \ {0}
  /\ t.item \in [Slots(t) -> Item]

(* The keys a resize in place makes no item of.                            *)
Genuine == IF intact THEN Key ELSE Key \ {DefaultKey}

Chain(t, K) == \A i \in LiveSlots(t) : t.item[i].key \in K => Reachable(t, i)

NoneDeleted(t) == \A i \in Slots(t) : Live(t.item[i]) \/ ~ t.item[i].used

(* What get() does not return is known to have been covered.               *)
CoveredKnown ==
  \A i \in LiveSlots(storage) :
    LET k == storage.item[i].key
    IN  \/ storage.item[i].value \in older[k]
        \/ \E o \in Slots(storage) : FindsAt(storage, k, o) /\ Place(storage, k, o) = i

SeenLive == {j \in LiveSlots(storage) : j < next}

(* The loop of resize_force has moved one item of each key it has met.     *)
Moved ==
  /\ \A i \in LiveSlots(into) : \E j \in SeenLive :
        into.item[i].key = storage.item[j].key /\ into.item[i].value = storage.item[j].value
  /\ \A j \in SeenLive : \E i \in LiveSlots(into) : into.item[i].key = storage.item[j].key
  /\ \A i, j \in LiveSlots(into) : into.item[i].key = into.item[j].key => i = j
  /\ Cardinality(LiveSlots(into)) <= Cardinality(SeenLive)

Counted == Cardinality(LiveSlots(storage)) <= used

IntactInv ==
  /\ CoveredKnown
  /\ ~ holes => NoneDeleted(storage)
  /\ phase = "reinsert" => into.size > capacity /\ Moved
  /\ phase = "insert" => ~ holes /\ LiveSlots(storage) # Slots(storage)
  /\ Counted

IInv ==
  /\ TypeOK
  /\ Chain(storage, Genuine)
  /\ Chain(into, Key)
  /\ \A i \in Slots(into) : Live(into.item[i]) \/ into.item[i] = Free
  /\ intact => IntactInv

-----------------------------------------------------------------------------
(* Arithmetic of places                                                    *)

LEMMA Division ==
  ASSUME NEW n \in Nat \ {0}, NEW i \in Nat
  PROVE  /\ i \div n \in Nat
         /\ i % n \in 0 .. n - 1
         /\ i = n * (i \div n) + (i % n)
BY Z3

LEMMA Product ==
  ASSUME NEW n \in Nat \ {0}, NEW p \in Nat, NEW q \in Nat, p > q
  PROVE  n * p >= n * q + n
BY Z3

LEMMA DivisionUnique ==
  ASSUME NEW n \in Nat \ {0}, NEW q \in Nat, NEW r \in 0 .. n - 1
  PROVE  (n * q + r) % n = r
<1> DEFINE i == n * q + r
           p == i \div n
           u == i % n
<1>a. n * q \in Nat
  BY Z3
<1>1. i \in Nat
  BY <1>a
<1>2. p \in Nat /\ u \in 0 .. n - 1 /\ i = n * p + u
  BY <1>1, Division
<1>3. n * p \in Nat /\ i = n * q + r
  BY <1>2, Z3
<1> HIDE DEF i, p, u
<1>4. ~(p > q)
  BY <1>2, <1>3, <1>a, Product
<1>5. ~(q > p)
  BY <1>2, <1>3, <1>a, Product
<1>6. p = q
  BY <1>2, <1>4, <1>5
<1>7. u = r
  BY <1>2, <1>3, <1>6, <1>a
<1> QED
  BY <1>7 DEF u, i

LEMMA PlaceIsSlot ==
  ASSUME NEW t, IsTable(t), NEW k \in Key, NEW o \in Nat
  PROVE  Place(t, k, o) \in Slots(t)
<1>1. Hash[k] + o \in Nat /\ t.size \in Nat \ {0}
  BY HashAssumption DEF IsTable
<1> QED
  BY <1>1, Division DEF Place, Slots

LEMMA PlaceApart ==
  ASSUME NEW t, IsTable(t), NEW k \in Key, NEW o \in Slots(t), NEW p \in Slots(t),
         Place(t, k, o) = Place(t, k, p)
  PROVE  o = p
<1> DEFINE n == t.size
           h == Hash[k]
<1>1. n \in Nat \ {0} /\ h \in Nat /\ o \in 0 .. n - 1 /\ p \in 0 .. n - 1
  BY HashAssumption DEF IsTable, Slots
<1>2. (h + o) % n = (h + p) % n
  BY DEF Place
<1> HIDE DEF n, h
<1> DEFINE a == (h + o) \div n
           b == (h + p) \div n
           r == (h + o) % n
<1>a. h + o \in Nat /\ h + p \in Nat
  BY <1>1
<1>3. a \in Nat /\ h + o = n * a + r /\ r \in 0 .. n - 1
  BY <1>1, <1>a, Division
<1>4. b \in Nat /\ h + p = n * b + r
  BY <1>1, <1>2, <1>a, Division
<1> HIDE DEF a, b, r
<1>5. n * a \in Nat /\ n * b \in Nat
  BY <1>1, <1>3, <1>4, Z3
<1>6. ~(a > b)
  BY <1>1, <1>3, <1>4, <1>5, Product
<1>7. ~(b > a)
  BY <1>1, <1>3, <1>4, <1>5, Product
<1>8. a = b
  BY <1>3, <1>4, <1>6, <1>7
<1> QED
  BY <1>1, <1>3, <1>4, <1>5, <1>8

LEMMA EveryPlace ==
  ASSUME NEW t, IsTable(t), NEW k \in Key, NEW i \in Slots(t)
  PROVE  \E o \in Slots(t) : Place(t, k, o) = i
<1> DEFINE n == t.size
           h == Hash[k]
           q == h \div n
           r == h % n
<1>1. n \in Nat \ {0} /\ h \in Nat /\ i \in 0 .. n - 1
  BY HashAssumption DEF IsTable, Slots
<1>2. q \in Nat /\ r \in 0 .. n - 1 /\ h = n * q + r
  BY <1>1, Division
<1>3. Slots(t) = 0 .. n - 1 /\ \A o \in Nat : Place(t, k, o) = (h + o) % n
  BY DEF Slots, Place
<1> HIDE DEF n, h, q, r
<1>4. n * q \in Nat /\ n * (q + 1) = n * q + n
  BY <1>1, <1>2, Z3
<1>5. CASE i >= r
  <2>1. i - r \in 0 .. n - 1 /\ h + (i - r) = n * q + i
    BY <1>1, <1>2, <1>4, <1>5
  <2>2. (h + (i - r)) % n = i
    BY <2>1, <1>1, <1>2, DivisionUnique
  <2> QED
    BY <2>1, <2>2, <1>3
<1>6. CASE i < r
  <2>1. i - r + n \in 0 .. n - 1 /\ h + (i - r + n) = n * (q + 1) + i
    BY <1>1, <1>2, <1>4, <1>6
  <2>2. (h + (i - r + n)) % n = i
    BY <2>1, <1>1, <1>2, DivisionUnique
  <2> QED
    BY <2>1, <2>2, <1>3
<1> QED
  BY <1>1, <1>2, <1>5, <1>6

LEMMA Least ==
  ASSUME NEW S \in SUBSET Nat, S # {}
  PROVE  \E m \in S : \A p \in S : m <= p
<1>1. PICK m \in S : \A p \in S : ~ (<<p, m>> \in OpToRel(<, Nat))
  BY NatLessThanWellFounded, WFMin
<1>2. \A p \in S : ~ (p < m)
  BY <1>1 DEF OpToRel
<1> QED
  BY <1>2

-----------------------------------------------------------------------------
(* Looking a key up                                                        *)

LEMMA OffsetsAreNat == ASSUME NEW t, IsTable(t) PROVE Slots(t) \subseteq Nat
BY DEF IsTable, Slots

LEMMA ItemAt ==
  ASSUME NEW t, IsTable(t), NEW i \in Slots(t)
  PROVE  t.item[i] \in Item
BY DEF IsTable

LEMMA FindsOne ==
  ASSUME NEW t, IsTable(t), NEW k \in Key, NEW o \in Slots(t), NEW p \in Slots(t),
         FindsAt(t, k, o), FindsAt(t, k, p)
  PROVE  o = p
<1>1. o \in Nat /\ p \in Nat
  BY OffsetsAreNat
<1>2. ~ (o < p) /\ ~ (p < o)
  BY <1>1 DEF FindsAt
<1> QED
  BY <1>1, <1>2

LEMMA LookupFinds ==
  ASSUME NEW t, IsTable(t), NEW k \in Key, NEW o \in Slots(t), FindsAt(t, k, o)
  PROVE  /\ Lookup(t, k) = t.item[Place(t, k, o)].value
         /\ Lookup(t, k) \in Value
         /\ Lookup(t, k) # NoValue
<1>1. (CHOOSE p \in Slots(t) : FindsAt(t, k, p)) = o
  BY FindsOne
<1>2. Lookup(t, k) = t.item[Place(t, k, o)].value
  BY <1>1 DEF Lookup, At
<1>3. t.item[Place(t, k, o)] \in Item
  BY PlaceIsSlot, OffsetsAreNat, ItemAt
<1> QED
  BY <1>2, <1>3, ValueAssumption DEF Item

LEMMA LookupFails ==
  ASSUME NEW t, NEW k
  PROVE  (\A o \in Slots(t) : ~ FindsAt(t, k, o)) => Lookup(t, k) = NoValue
BY DEF Lookup

LEMMA LookupType ==
  ASSUME NEW t, IsTable(t), NEW k \in Key
  PROVE  Lookup(t, k) \in Value \union {NoValue}
BY LookupFinds, LookupFails

(* A live item that can be reached is found, or one before it is.          *)
LEMMA ReachedIsFound ==
  ASSUME NEW t, IsTable(t), NEW i \in LiveSlots(t), Reachable(t, i)
  PROVE  \E o \in Slots(t) : FindsAt(t, t.item[i].key, o)
<1> DEFINE k == t.item[i].key
<1>1. i \in Slots(t) /\ Live(t.item[i]) /\ k \in Key
  BY ItemAt DEF LiveSlots, Item
<1>2. PICK o \in Slots(t) : /\ Place(t, k, o) = i
                            /\ \A p \in 0 .. o - 1 : At(t, k, p).used
  BY DEF Reachable
<1> DEFINE S == {p \in 0 .. o : Holds(At(t, k, p), k)}
<1>3. o \in Nat /\ o < t.size /\ t.size \in Nat
  BY DEF IsTable, Slots
<1>4. o \in S
  BY <1>1, <1>2, <1>3 DEF At, Holds
<1>5. S \in SUBSET Nat
  BY <1>3
<1> HIDE DEF k
<1>6. PICK m \in S : \A p \in S : m <= p
  BY <1>4, <1>5, Least
<1>7. m \in 0 .. o /\ Holds(At(t, k, m), k) /\ m \in Slots(t)
  BY <1>3 DEF Slots
<1>8. \A p \in 0 .. m - 1 : At(t, k, p).used /\ ~ Holds(At(t, k, p), k)
  <2> TAKE p \in 0 .. m - 1
  <2>1. p \in 0 .. o - 1 /\ p \in 0 .. o /\ ~ (m <= p)
    BY <1>3, <1>7
  <2> QED
    BY <2>1, <1>2, <1>6
<1>9. FindsAt(t, k, m)
  BY <1>7, <1>8 DEF FindsAt
<1> QED
  BY <1>7, <1>9 DEF k

LEMMA FoundIsLive ==
  ASSUME NEW t, IsTable(t), NEW k \in Key, NEW o \in Slots(t), FindsAt(t, k, o)
  PROVE  Place(t, k, o) \in LiveSlots(t) /\ t.item[Place(t, k, o)].key = k
BY PlaceIsSlot, OffsetsAreNat DEF FindsAt, At, Holds, LiveSlots

LEMMA LookupIffLive ==
  ASSUME NEW t, IsTable(t), NEW k \in Key,
         \A i \in LiveSlots(t) : t.item[i].key = k => Reachable(t, i)
  PROVE  Lookup(t, k) # NoValue <=> \E i \in LiveSlots(t) : t.item[i].key = k
<1>1. ASSUME Lookup(t, k) # NoValue PROVE \E i \in LiveSlots(t) : t.item[i].key = k
  BY <1>1, LookupFails, FoundIsLive
<1>2. ASSUME NEW i \in LiveSlots(t), t.item[i].key = k PROVE Lookup(t, k) # NoValue
  BY <1>2, ReachedIsFound, LookupFinds
<1> QED
  BY <1>1, <1>2

-----------------------------------------------------------------------------
(* Writing a slot                                                          *)

LEMMA Putting ==
  ASSUME NEW t, IsTable(t), NEW i \in Slots(t), NEW x \in Item
  PROVE  LET u == Put(t, i, x)
         IN  /\ IsTable(u)
             /\ u.size = t.size /\ Slots(u) = Slots(t)
             /\ u.item[i] = x
             /\ \A j \in Slots(t) \ {i} : u.item[j] = t.item[j]
             /\ \A k, o : Place(u, k, o) = Place(t, k, o)
BY DEF Put, IsTable, Slots, Place

(* Slots never become unused, so a chain stays: Reachable is kept.         *)
LEMMA ReachableKept ==
  ASSUME NEW t, IsTable(t), NEW i \in Slots(t), NEW x \in Item, x.used,
         NEW j \in Slots(t) \ {i}, Reachable(t, j)
  PROVE  Reachable(Put(t, i, x), j)
<1> DEFINE u == Put(t, i, x)
           k == t.item[j].key
<1>1. /\ IsTable(u) /\ Slots(u) = Slots(t) /\ u.item[i] = x
      /\ \A s \in Slots(t) \ {i} : u.item[s] = t.item[s]
      /\ \A l, o : Place(u, l, o) = Place(t, l, o)
  BY Putting
<1>2. u.item[j].key = k /\ k \in Key
  BY <1>1, ItemAt DEF Item
<1>3. PICK o \in Slots(t) : /\ Place(t, k, o) = j
                            /\ \A p \in 0 .. o - 1 : At(t, k, p).used
  BY DEF Reachable
<1>4. ASSUME NEW p \in 0 .. o - 1 PROVE At(u, k, p).used
  <2>1. p \in Nat
    BY <1>4, OffsetsAreNat
  <2>2. Place(t, k, p) \in Slots(t) /\ At(u, k, p) = u.item[Place(t, k, p)]
    BY <2>1, <1>1, <1>2, PlaceIsSlot DEF At
  <2>3. At(t, k, p).used
    BY <1>3, <1>4
  <2> QED
    BY <2>2, <2>3, <1>1 DEF At
<1> HIDE DEF u, k
<1> QED
  BY <1>1, <1>2, <1>3, <1>4 DEF Reachable, u

LEMMA HoldingItem ==
  ASSUME NEW k \in Key, NEW v \in Value
  PROVE  /\ Holding(k, v) \in Item
         /\ Live(Holding(k, v)) /\ Holding(k, v).used
         /\ Holding(k, v).key = k /\ Holding(k, v).value = v
BY DEF Holding, Item, Live

(* What the three ways out of insert do to the table.                      *)
Updates(t, t2, k, v) ==
  \E o \in Slots(t) : FindsAt(t, k, o) /\ t2 = Put(t, Place(t, k, o), Holding(k, v))

EndOfChain(t, k, o) ==
  /\ ~ Live(At(t, k, o))
  /\ \A p \in 0 .. o - 1 : Live(At(t, k, p)) /\ At(t, k, p).key # k

Extends(t, t2, k, v) ==
  \E o \in Slots(t) : EndOfChain(t, k, o) /\ t2 = Put(t, Place(t, k, o), Holding(k, v))

(* insert stops somewhere unless every slot is live.                       *)
LEMMA RoomStops ==
  ASSUME NEW t, IsTable(t), NEW k \in Key, \A o \in Slots(t) : ~ StopsAt(t, k, o)
  PROVE  LiveSlots(t) = Slots(t)
<1> SUFFICES ASSUME NEW i \in Slots(t), ~ Live(t.item[i])
             PROVE  FALSE
  BY DEF LiveSlots
<1> DEFINE Stop(p) == Live(At(t, k, p)) => At(t, k, p).key = k
           S == {p \in Slots(t) : Stop(p)}
<1>1. PICK o \in Slots(t) : Place(t, k, o) = i
  BY EveryPlace
<1>2. o \in S
  BY <1>1 DEF At
<1>3. S \in SUBSET Nat
  BY OffsetsAreNat
<1>4. PICK m \in S : \A p \in S : m <= p
  BY <1>2, <1>3, Least
<1>5. m \in Slots(t) /\ m \in Nat /\ Stop(m)
  BY <1>3
<1>6. \A p \in 0 .. m - 1 : ~ Stop(p)
  <2> TAKE p \in 0 .. m - 1
  <2>1. p \in Slots(t) /\ ~ (m <= p)
    BY <1>5 DEF Slots, IsTable
  <2> QED
    BY <2>1, <1>4
<1>7. StopsAt(t, k, m)
  BY <1>5, <1>6 DEF StopsAt
<1> QED
  BY <1>5, <1>7

LEMMA PutInCases ==
  ASSUME NEW t, IsTable(t), NEW t2, NEW k \in Key, NEW v \in Value, NEW upsert \in BOOLEAN,
         NEW c, NEW c2, PutIn(t, t2, k, v, upsert, c, c2)
  PROVE  \/ /\ t2 = t /\ c2 = c
            /\ LiveSlots(t) = Slots(t) \/ \E o \in Slots(t) : FindsAt(t, k, o)
         \/ upsert /\ Updates(t, t2, k, v) /\ c2 = c
         \/ Extends(t, t2, k, v) /\ c2 = c + 1
<1> DEFINE Goal ==
         \/ /\ t2 = t /\ c2 = c
            /\ LiveSlots(t) = Slots(t) \/ \E o \in Slots(t) : FindsAt(t, k, o)
         \/ upsert /\ Updates(t, t2, k, v) /\ c2 = c
         \/ Extends(t, t2, k, v) /\ c2 = c + 1
<1>1. CASE /\ \A o \in Slots(t) : ~ StopsAt(t, k, o)
           /\ t2 = t /\ c2 = c
  BY <1>1, RoomStops
<1>2. ASSUME NEW o \in Slots(t), StopsAt(t, k, o),
             IF ~ Live(At(t, k, o))
             THEN t2 = Put(t, Place(t, k, o), Holding(k, v)) /\ c2 = c + 1
             ELSE /\ t2 = IF upsert THEN Put(t, Place(t, k, o), Holding(k, v)) ELSE t
                  /\ c2 = c
      PROVE  Goal
  <2>1. \A p \in 0 .. o - 1 : Live(At(t, k, p)) /\ At(t, k, p).key # k
    BY <1>2 DEF StopsAt
  <2>2. CASE ~ Live(At(t, k, o))
    BY <1>2, <2>1, <2>2 DEF EndOfChain, Extends
  <2>3. CASE Live(At(t, k, o))
    <3>1. At(t, k, o).key = k
      BY <1>2, <2>3 DEF StopsAt
    <3>2. FindsAt(t, k, o)
      BY <2>1, <2>3, <3>1 DEF FindsAt, Holds, Live
    <3> QED
      BY <1>2, <2>3, <3>2 DEF Updates
  <2> QED
    BY <2>2, <2>3
<1> QED
  BY <1>1, <1>2 DEF PutIn

LEMMA Updating ==
  ASSUME NEW t, IsTable(t), NEW u, NEW k \in Key, NEW v \in Value, NEW o \in Slots(t),
         FindsAt(t, k, o), u = Put(t, Place(t, k, o), Holding(k, v))
  PROVE  /\ IsTable(u) /\ Slots(u) = Slots(t) /\ u.size = t.size
         /\ LiveSlots(u) = LiveSlots(t)
         /\ \A i \in Slots(t) : u.item[i].key = t.item[i].key
                                /\ u.item[i].used = t.item[i].used
                                /\ Live(u.item[i]) = Live(t.item[i])
         /\ \A i \in Slots(t) \ {Place(t, k, o)} : u.item[i] = t.item[i]
         /\ u.item[Place(t, k, o)] = Holding(k, v)
         /\ \A l, q : Place(u, l, q) = Place(t, l, q)
         /\ \A i \in Slots(t) : Reachable(t, i) => Reachable(u, i)
         /\ \A l \in Key, q \in Slots(t) : FindsAt(u, l, q) <=> FindsAt(t, l, q)
<1> DEFINE i == Place(t, k, o)
           x == Holding(k, v)
<1>1. i \in Slots(t)
  BY PlaceIsSlot, OffsetsAreNat
<1>2. x \in Item /\ Live(x) /\ x.used /\ x.key = k /\ x.value = v
  BY HoldingItem
<1>3. /\ IsTable(u) /\ Slots(u) = Slots(t) /\ u.item[i] = x /\ u.size = t.size
      /\ \A j \in Slots(t) \ {i} : u.item[j] = t.item[j]
      /\ \A l, q : Place(u, l, q) = Place(t, l, q)
  BY <1>1, <1>2, Putting
<1>4. Live(t.item[i]) /\ t.item[i].key = k /\ t.item[i] \in Item
  BY <1>1, ItemAt DEF FindsAt, Holds, At
<1>5. \A j \in Slots(t) : /\ u.item[j].key = t.item[j].key
                          /\ u.item[j].used = t.item[j].used
                          /\ Live(u.item[j]) = Live(t.item[j])
  <2> TAKE j \in Slots(t)
  <2>1. CASE j = i
    BY <2>1, <1>2, <1>3, <1>4 DEF Live, Item, Holding
  <2>2. CASE j # i
    BY <2>2, <1>3
  <2> QED
    BY <2>1, <2>2
<1>6. \A l \in Key, q \in Nat : Place(t, l, q) \in Slots(t)
  BY PlaceIsSlot
<1> HIDE DEF i, x
<1>7. \A l \in Key, q \in Nat : /\ Holds(At(u, l, q), l) <=> Holds(At(t, l, q), l)
                               /\ At(u, l, q).used = At(t, l, q).used
  BY <1>3, <1>5, <1>6 DEF At, Holds
<1>8. \A j \in Slots(t) : Reachable(t, j) => Reachable(u, j)
  <2> TAKE j \in Slots(t)
  <2> HAVE Reachable(t, j)
  <2>1. PICK q \in Slots(t) : /\ Place(t, t.item[j].key, q) = j
                              /\ \A p \in 0 .. q - 1 : At(t, t.item[j].key, p).used
    BY DEF Reachable
  <2>2. t.item[j].key \in Key
    BY ItemAt DEF Item
  <2>3. \A p \in 0 .. q - 1 : At(u, t.item[j].key, p).used
    BY <2>1, <2>2, <1>7, OffsetsAreNat
  <2> QED
    BY <2>1, <2>2, <2>3, <1>3, <1>5 DEF Reachable
<1>9. \A l \in Key, q \in Slots(t) : FindsAt(u, l, q) <=> FindsAt(t, l, q)
  BY <1>7, OffsetsAreNat DEF FindsAt
<1>10. LiveSlots(u) = LiveSlots(t)
  BY <1>3, <1>5 DEF LiveSlots
<1> QED
  BY <1>3, <1>5, <1>8, <1>9, <1>10 DEF i, x

LEMMA Extending ==
  ASSUME NEW t, IsTable(t), NEW u, NEW k \in Key, NEW v \in Value, NEW o \in Slots(t),
         EndOfChain(t, k, o), u = Put(t, Place(t, k, o), Holding(k, v))
  PROVE  /\ IsTable(u) /\ Slots(u) = Slots(t) /\ u.size = t.size
         /\ Place(t, k, o) \in Slots(t) \ LiveSlots(t)
         /\ LiveSlots(u) = LiveSlots(t) \union {Place(t, k, o)}
         /\ \A i \in Slots(t) \ {Place(t, k, o)} : u.item[i] = t.item[i]
         /\ u.item[Place(t, k, o)] = Holding(k, v)
         /\ \A l, q : Place(u, l, q) = Place(t, l, q)
         /\ Reachable(u, Place(t, k, o))
         /\ \A i \in LiveSlots(t) : Reachable(t, i) => Reachable(u, i)
         /\ FindsAt(u, k, o)
<1> DEFINE i == Place(t, k, o)
           x == Holding(k, v)
<1>1. i \in Slots(t) \ LiveSlots(t)
  BY PlaceIsSlot, OffsetsAreNat DEF EndOfChain, At, LiveSlots
<1>2. x \in Item /\ Live(x) /\ x.used /\ x.key = k /\ x.value = v
  BY HoldingItem
<1>3. /\ IsTable(u) /\ Slots(u) = Slots(t) /\ u.item[i] = x /\ u.size = t.size
      /\ \A j \in Slots(t) \ {i} : u.item[j] = t.item[j]
      /\ \A l, q : Place(u, l, q) = Place(t, l, q)
  BY <1>1, <1>2, Putting
<1>4. LiveSlots(u) = LiveSlots(t) \union {i}
  BY <1>1, <1>2, <1>3 DEF LiveSlots
<1>5. \A j \in LiveSlots(t) : Reachable(t, j) => Reachable(u, j)
  BY <1>1, <1>2, ReachableKept DEF LiveSlots
<1>6. \A p \in 0 .. o - 1 : At(u, k, p).used /\ ~ Holds(At(u, k, p), k)
  <2> TAKE p \in 0 .. o - 1
  <2>1. p \in Nat
    BY OffsetsAreNat
  <2>2. Place(t, k, p) \in Slots(t) /\ Live(At(t, k, p)) /\ At(t, k, p).key # k
    BY <2>1, PlaceIsSlot DEF EndOfChain
  <2>3. Place(t, k, p) # i
    BY <2>2, <1>1 DEF At, LiveSlots
  <2> QED
    BY <2>2, <2>3, <1>3 DEF At, Holds, Live
<1>7. FindsAt(u, k, o)
  BY <1>2, <1>3, <1>6 DEF FindsAt, At, Holds
<1>8. Reachable(u, i)
  BY <1>2, <1>3, <1>6 DEF Reachable
<1> QED
  BY <1>1, <1>3, <1>4, <1>5, <1>7, <1>8

(* No other key is found in another place after the insertion of k.        *)
LEMMA ExtendingKeepsOthers ==
  ASSUME NEW t, IsTable(t), Chain(t, Key), NEW u, NEW k \in Key, NEW v \in Value,
         NEW o \in Slots(t), EndOfChain(t, k, o), u = Put(t, Place(t, k, o), Holding(k, v)),
         NEW l \in Key \ {k}, NEW q \in Slots(t)
  PROVE  FindsAt(u, l, q) <=> FindsAt(t, l, q)
<1> DEFINE i == Place(t, k, o)
<1>1. /\ i \in Slots(t) \ LiveSlots(t)
      /\ u.item[i] = Holding(k, v)
      /\ \A j \in Slots(t) \ {i} : u.item[j] = t.item[j]
      /\ \A m, p : Place(u, m, p) = Place(t, m, p)
  BY Extending
<1>2. ~ Holds(u.item[i], l) /\ ~ Holds(t.item[i], l) /\ u.item[i].used
  BY <1>1, HoldingItem DEF Holds, LiveSlots
<1>3. \A p \in Nat : Place(t, l, p) \in Slots(t)
  BY PlaceIsSlot
<1>4. q \in Nat
  BY OffsetsAreNat
<1> HIDE DEF i
<1>5. ASSUME NEW p \in Nat
      PROVE  /\ Holds(At(u, l, p), l) <=> Holds(At(t, l, p), l)
             /\ At(t, l, p).used => At(u, l, p).used
  <2>1. CASE Place(t, l, p) = i
    BY <2>1, <1>1, <1>2 DEF At
  <2>2. CASE Place(t, l, p) # i
    BY <2>2, <1>1, <1>3 DEF At
  <2> QED
    BY <2>1, <2>2
<1>6. ASSUME Holds(At(t, l, q), l) PROVE \A p \in 0 .. q - 1 : At(t, l, p).used
  <2> DEFINE j == Place(t, l, q)
  <2>1. j \in LiveSlots(t) /\ t.item[j].key = l
    BY <1>3, <1>4, <1>6 DEF At, Holds, LiveSlots
  <2>2. PICK p \in Slots(t) : Place(t, l, p) = j /\ \A r \in 0 .. p - 1 : At(t, l, r).used
    BY <2>1 DEF Chain, Reachable
  <2>3. p = q
    BY <2>2, PlaceApart
  <2> QED
    BY <2>2, <2>3
<1>7. ASSUME FindsAt(u, l, q) PROVE FindsAt(t, l, q)
  BY <1>4, <1>5, <1>6, <1>7 DEF FindsAt
<1>8. ASSUME FindsAt(t, l, q) PROVE FindsAt(u, l, q)
  BY <1>4, <1>5, <1>8 DEF FindsAt
<1> QED
  BY <1>7, <1>8

LEMMA UpdatesEffect ==
  ASSUME NEW t, IsTable(t), NEW u, NEW k \in Key, NEW v \in Value, Updates(t, u, k, v)
  PROVE  /\ IsTable(u) /\ Slots(u) = Slots(t) /\ u.size = t.size
         /\ LiveSlots(u) = LiveSlots(t)
         /\ NoneDeleted(t) => NoneDeleted(u)
         /\ \A K : Chain(t, K) => Chain(u, K)
         /\ Lookup(t, k) # NoValue /\ Lookup(u, k) = v
         /\ \A l \in Key \ {k} : Lookup(u, l) = Lookup(t, l)
<1>1. PICK o \in Slots(t) : FindsAt(t, k, o) /\ u = Put(t, Place(t, k, o), Holding(k, v))
  BY DEF Updates
<1> DEFINE i == Place(t, k, o)
<1>2. /\ IsTable(u) /\ Slots(u) = Slots(t) /\ u.size = t.size
      /\ LiveSlots(u) = LiveSlots(t)
      /\ \A j \in Slots(t) : u.item[j].key = t.item[j].key
                             /\ u.item[j].used = t.item[j].used
                             /\ Live(u.item[j]) = Live(t.item[j])
      /\ \A j \in Slots(t) \ {i} : u.item[j] = t.item[j]
      /\ u.item[i] = Holding(k, v)
      /\ \A l, q : Place(u, l, q) = Place(t, l, q)
      /\ \A j \in Slots(t) : Reachable(t, j) => Reachable(u, j)
      /\ \A l \in Key, q \in Slots(t) : FindsAt(u, l, q) <=> FindsAt(t, l, q)
  BY <1>1, Updating
<1>3. i \in Slots(t) /\ t.item[i].key = k
  BY <1>1, FoundIsLive DEF LiveSlots
<1> HIDE DEF i
<1>4. NoneDeleted(t) => NoneDeleted(u)
  BY <1>2 DEF NoneDeleted
<1>5. \A K : Chain(t, K) => Chain(u, K)
  BY <1>2 DEF Chain, LiveSlots
<1>6. Lookup(t, k) # NoValue
  BY <1>1, LookupFinds
<1>7. Lookup(u, k) = v
  <2>1. FindsAt(u, k, o) /\ o \in Slots(u) /\ Place(u, k, o) = i
    BY <1>1, <1>2 DEF i
  <2>2. Lookup(u, k) = u.item[i].value
    BY <2>1, <1>2, LookupFinds
  <2> QED
    BY <2>2, <1>2, HoldingItem
<1>8. ASSUME NEW l \in Key \ {k} PROVE Lookup(u, l) = Lookup(t, l)
  <2>1. CASE \E q \in Slots(t) : FindsAt(t, l, q)
    <3>1. PICK q \in Slots(t) : FindsAt(t, l, q)
      BY <2>1
    <3>2. Place(t, l, q) \in Slots(t) /\ t.item[Place(t, l, q)].key = l
      BY <3>1, FoundIsLive DEF LiveSlots
    <3>3. Place(t, l, q) # i
      BY <3>2, <1>3
    <3>4. Lookup(t, l) = t.item[Place(t, l, q)].value
      BY <3>1, LookupFinds
    <3>5. FindsAt(u, l, q) /\ q \in Slots(u)
      BY <3>1, <1>2
    <3>6. Lookup(u, l) = u.item[Place(u, l, q)].value
      BY <3>5, <1>2, LookupFinds
    <3> QED
      BY <3>2, <3>3, <3>4, <3>6, <1>2
  <2>2. CASE ~ \E q \in Slots(t) : FindsAt(t, l, q)
    BY <2>2, <1>2, LookupFails
  <2> QED
    BY <2>1, <2>2
<1> QED
  BY <1>2, <1>4, <1>5, <1>6, <1>7, <1>8

LEMMA ExtendsShape ==
  ASSUME NEW t, IsTable(t), NEW u, NEW k \in Key, NEW v \in Value, Extends(t, u, k, v)
  PROVE  \E i \in Slots(t) \ LiveSlots(t) :
            /\ LiveSlots(u) = LiveSlots(t) \union {i}
            /\ u.item[i] = Holding(k, v)
            /\ \A j \in Slots(t) \ {i} : u.item[j] = t.item[j]
            /\ \E o \in Slots(u) : FindsAt(u, k, o) /\ Place(u, k, o) = i
<1>1. PICK o \in Slots(t) : EndOfChain(t, k, o) /\ u = Put(t, Place(t, k, o), Holding(k, v))
  BY DEF Extends
<1> DEFINE i == Place(t, k, o)
<1>2. /\ i \in Slots(t) \ LiveSlots(t)
      /\ LiveSlots(u) = LiveSlots(t) \union {i}
      /\ \A j \in Slots(t) \ {i} : u.item[j] = t.item[j]
      /\ u.item[i] = Holding(k, v)
      /\ Slots(u) = Slots(t) /\ FindsAt(u, k, o) /\ Place(u, k, o) = i
  BY <1>1, Extending
<1> HIDE DEF i
<1> QED
  BY <1>2

LEMMA ExtendsEffect ==
  ASSUME NEW t, IsTable(t), NEW u, NEW k \in Key, NEW v \in Value, Extends(t, u, k, v)
  PROVE  /\ IsTable(u) /\ Slots(u) = Slots(t) /\ u.size = t.size
         /\ NoneDeleted(t) => NoneDeleted(u)
         /\ \A K : Chain(t, K) => Chain(u, K)
         /\ Lookup(u, k) = v
         /\ Chain(t, Key) => \A l \in Key \ {k} :
              /\ Lookup(u, l) = Lookup(t, l)
              /\ \A q \in Slots(t) : FindsAt(t, l, q) => FindsAt(u, l, q)
         /\ \A l, q : Place(u, l, q) = Place(t, l, q)
<1>1. PICK o \in Slots(t) : EndOfChain(t, k, o) /\ u = Put(t, Place(t, k, o), Holding(k, v))
  BY DEF Extends
<1> DEFINE i == Place(t, k, o)
<1>2. /\ IsTable(u) /\ Slots(u) = Slots(t) /\ u.size = t.size
      /\ i \in Slots(t) \ LiveSlots(t)
      /\ LiveSlots(u) = LiveSlots(t) \union {i}
      /\ \A j \in Slots(t) \ {i} : u.item[j] = t.item[j]
      /\ u.item[i] = Holding(k, v)
      /\ \A l, q : Place(u, l, q) = Place(t, l, q)
      /\ Reachable(u, i)
      /\ \A j \in LiveSlots(t) : Reachable(t, j) => Reachable(u, j)
      /\ FindsAt(u, k, o)
      /\ Place(u, k, o) = i
  BY <1>1, Extending
<1>3. Chain(t, Key) => \A l \in Key \ {k}, q \in Slots(t) : FindsAt(u, l, q) <=> FindsAt(t, l, q)
  BY <1>1, ExtendingKeepsOthers
<1> HIDE DEF i
<1>4. NoneDeleted(t) => NoneDeleted(u)
  BY <1>2, HoldingItem DEF NoneDeleted
<1>5. \A K : Chain(t, K) => Chain(u, K)
  BY <1>2 DEF Chain, LiveSlots
<1>6. Lookup(u, k) = v
  <2>1. Lookup(u, k) = u.item[i].value
    BY <1>2, LookupFinds
  <2> QED
    BY <2>1, <1>2, HoldingItem
<1>7. ASSUME Chain(t, Key), NEW l \in Key \ {k} PROVE Lookup(u, l) = Lookup(t, l)
  <2>1. CASE \E q \in Slots(t) : FindsAt(t, l, q)
    <3>1. PICK q \in Slots(t) : FindsAt(t, l, q)
      BY <2>1
    <3>2. Place(t, l, q) \in LiveSlots(t)
      BY <3>1, FoundIsLive
    <3>3. Lookup(t, l) = t.item[Place(t, l, q)].value
      BY <3>1, LookupFinds
    <3>4. FindsAt(u, l, q) /\ q \in Slots(u)
      BY <3>1, <1>2, <1>3, <1>7
    <3>5. Lookup(u, l) = u.item[Place(u, l, q)].value
      BY <3>4, <1>2, LookupFinds
    <3> QED
      BY <3>2, <3>3, <3>5, <1>2 DEF LiveSlots
  <2>2. CASE ~ \E q \in Slots(t) : FindsAt(t, l, q)
    BY <2>2, <1>2, <1>3, <1>7, LookupFails
  <2> QED
    BY <2>1, <2>2
<1> QED
  BY <1>2, <1>3, <1>4, <1>5, <1>6, <1>7

-----------------------------------------------------------------------------
(* Counting the live slots                                                 *)

LEMMA SlotsAreFinite ==
  ASSUME NEW t, IsTable(t)
  PROVE  IsFiniteSet(Slots(t)) /\ Cardinality(Slots(t)) = t.size
<1> DEFINE n == t.size - 1
<1>1. n \in Nat /\ t.size = n + 1 /\ Slots(t) = 0 .. n
  BY DEF IsTable, Slots
<1> HIDE DEF n
<1>2. IsFiniteSet(0 .. n) /\ Cardinality(0 .. n) = IF 0 > n THEN 0 ELSE n - 0 + 1
  BY <1>1, FS_Interval
<1>3. Cardinality(0 .. n) = n + 1
  BY <1>1, <1>2
<1> QED
  BY <1>1, <1>2, <1>3

LEMMA LiveAreFinite ==
  ASSUME NEW t, IsTable(t), NEW S \in SUBSET LiveSlots(t)
  PROVE  /\ IsFiniteSet(S) /\ Cardinality(S) \in Nat
         /\ Cardinality(S) <= Cardinality(LiveSlots(t))
         /\ Cardinality(S) <= t.size
<1>1. IsFiniteSet(Slots(t)) /\ Cardinality(Slots(t)) = t.size
  BY SlotsAreFinite
<1>2. LiveSlots(t) \subseteq Slots(t)
  BY DEF LiveSlots
<1>3. IsFiniteSet(LiveSlots(t)) /\ Cardinality(LiveSlots(t)) <= t.size
  BY <1>1, <1>2, FS_Subset
<1>4. IsFiniteSet(S) /\ Cardinality(S) <= Cardinality(LiveSlots(t))
  BY <1>3, FS_Subset
<1>5. Cardinality(S) \in Nat /\ Cardinality(LiveSlots(t)) \in Nat /\ t.size \in Nat
  BY <1>3, <1>4, FS_CardinalityType DEF IsTable
<1> QED
  BY <1>3, <1>4, <1>5

LEMMA CountAdded ==
  ASSUME NEW t, IsTable(t), NEW u, NEW k \in Key, NEW v \in Value, Extends(t, u, k, v)
  PROVE  Cardinality(LiveSlots(u)) = Cardinality(LiveSlots(t)) + 1
<1>1. PICK i \in Slots(t) \ LiveSlots(t) : LiveSlots(u) = LiveSlots(t) \union {i}
  BY ExtendsShape
<1>2. IsFiniteSet(LiveSlots(t))
  <2>1. LiveSlots(t) \in SUBSET LiveSlots(t)
    OBVIOUS
  <2> QED
    BY <2>1, LiveAreFinite
<1> QED
  BY <1>1, <1>2, FS_AddElement

LEMMA LiveCount ==
  ASSUME NEW t, IsTable(t)
  PROVE  IsFiniteSet(LiveSlots(t)) /\ Cardinality(LiveSlots(t)) \in Nat
                                   /\ Cardinality(LiveSlots(t)) <= t.size
<1>1. LiveSlots(t) \in SUBSET LiveSlots(t)
  OBVIOUS
<1> QED
  BY <1>1, LiveAreFinite

LEMMA NotFull ==
  ASSUME NEW t, IsTable(t), Cardinality(LiveSlots(t)) < t.size
  PROVE  LiveSlots(t) # Slots(t)
<1>1. Cardinality(LiveSlots(t)) \in Nat /\ t.size \in Nat
  BY LiveCount DEF IsTable
<1> QED
  BY <1>1, SlotsAreFinite

LEMMA EmptyTable ==
  ASSUME NEW n \in Nat \ {0}
  PROVE  /\ IsTable(Storage(n)) /\ Storage(n).size = n
         /\ LiveSlots(Storage(n)) = {}
         /\ Cardinality(LiveSlots(Storage(n))) = 0
         /\ \A K : Chain(Storage(n), K)
         /\ NoneDeleted(Storage(n))
         /\ \A i \in Slots(Storage(n)) : Storage(n).item[i] = Free
         /\ \A k \in Key : Lookup(Storage(n), k) = NoValue
<1> DEFINE t == Storage(n)
<1>1. t.size = n /\ Slots(t) = 0 .. n - 1 /\ t.item = [i \in 0 .. n - 1 |-> Free]
      /\ t = [size |-> t.size, item |-> t.item]
  BY DEF Storage, Slots
<1>2. Free \in Item /\ ~ Live(Free) /\ ~ Free.used
  BY KeyAssumption, ValueAssumption DEF Free, Item, Live
<1> HIDE DEF t
<1>3. IsTable(t)
  BY <1>1, <1>2 DEF IsTable
<1>4. LiveSlots(t) = {}
  BY <1>1, <1>2 DEF LiveSlots
<1>5. Cardinality(LiveSlots(t)) = 0
  BY <1>4, FS_EmptySet
<1>6. (\A K : Chain(t, K)) /\ NoneDeleted(t)
  BY <1>1, <1>2, <1>4 DEF Chain, NoneDeleted
<1>7. \A k \in Key : Lookup(t, k) = NoValue
  <2> TAKE k \in Key
  <2>1. ASSUME NEW o \in Slots(t) PROVE ~ FindsAt(t, k, o)
    <3>1. Place(t, k, o) \in Slots(t)
      BY <1>3, PlaceIsSlot, OffsetsAreNat
    <3> QED
      BY <3>1, <1>1, <1>2 DEF FindsAt, Holds, At
  <2> QED
    BY <2>1, LookupFails
<1> QED
  BY <1>1, <1>3, <1>4, <1>5, <1>6, <1>7 DEF t

-----------------------------------------------------------------------------
(* insert, called by insert and upsert                                     *)

LEMMA Types ==
  TypeOK <=>
    /\ IsTable(storage) /\ IsTable(into)
    /\ capacity \in Nat /\ storage.size <= capacity
    /\ used \in Int
    /\ phase \in {"idle", "reinsert", "insert"}
    /\ next \in 0 .. storage.size
    /\ request.key \in Key /\ request.value \in Value
    /\ request.upsert \in BOOLEAN /\ request.none \in BOOLEAN
    /\ older \in [Key -> SUBSET Value]
    /\ holes \in BOOLEAN /\ intact \in BOOLEAN
BY DEF TypeOK, IsTable

LEMMA GenuineIsKey == Genuine \subseteq Key /\ (intact => Genuine = Key)
BY DEF Genuine

AddStep(k, v) ==
  \/ UNCHANGED <<Found, older>>
  \/ Abstract!Replace(k, v)
  \/ Abstract!Add(k, v)
  \/ Abstract!Cover(k, v)

LEMMA Inserting ==
  ASSUME IInv, NEW k \in Key, NEW v \in Value, NEW upsert \in BOOLEAN,
         PutIn(storage, storage', k, v, upsert, used, used'),
         older' = Covered(k, storage'), holes' = holes, intact' = intact
  PROVE  /\ IsTable(storage') /\ storage'.size = storage.size
         /\ used' \in Int
         /\ older' \in [Key -> SUBSET Value]
         /\ Chain(storage', Genuine')
         /\ intact => /\ CoveredKnown'
                      /\ (~ holes => NoneDeleted(storage))'
                      /\ Counted'
                      /\ AddStep(k, v)
<1>1. IsTable(storage) /\ used \in Int /\ older \in [Key -> SUBSET Value]
  BY Types DEF IInv
<1>2. Genuine' = Genuine /\ Chain(storage, Genuine)
  BY DEF IInv, Genuine
<1>3. intact => /\ CoveredKnown /\ Counted /\ Chain(storage, Key)
                /\ ~ holes => NoneDeleted(storage)
  BY <1>2, GenuineIsKey DEF IInv, IntactInv
<1>4. Cardinality(LiveSlots(storage)) \in Nat
  BY <1>1, LiveCount
<1>5. Lookup(storage, k) \in Value \union {NoValue}
  BY <1>1, LookupType
<1>6. CASE storage' = storage /\ used' = used
  <2>1. older' = older
    BY <1>6 DEF Covered
  <2>2. UNCHANGED <<Found, older>>
    BY <1>6, <2>1 DEF Found
  <2>3. intact => CoveredKnown' /\ Counted' /\ (~ holes => NoneDeleted(storage))'
    BY <1>3, <1>6, <2>1 DEF CoveredKnown, Counted
  <2> QED
    BY <1>1, <1>2, <1>6, <2>1, <2>2, <2>3 DEF AddStep
<1>7. CASE Updates(storage, storage', k, v) /\ used' = used
  <2>1. /\ IsTable(storage') /\ storage'.size = storage.size
        /\ Slots(storage') = Slots(storage)
        /\ LiveSlots(storage') = LiveSlots(storage)
        /\ NoneDeleted(storage) => NoneDeleted(storage')
        /\ Chain(storage', Genuine)
        /\ Lookup(storage, k) # NoValue /\ Lookup(storage', k) = v
        /\ \A l \in Key \ {k} : Lookup(storage', l) = Lookup(storage, l)
    BY <1>1, <1>2, <1>7, UpdatesEffect
  <2>2. older' = older
    BY <2>1 DEF Covered
  <2>3. ASSUME intact PROVE CoveredKnown'
    <3>1. PICK o \in Slots(storage) :
            /\ FindsAt(storage, k, o)
            /\ storage' = Put(storage, Place(storage, k, o), Holding(k, v))
      BY <1>7 DEF Updates
    <3> DEFINE i == Place(storage, k, o)
    <3>2. /\ \A j \in Slots(storage) : storage'.item[j].key = storage.item[j].key
          /\ \A j \in Slots(storage) \ {i} : storage'.item[j] = storage.item[j]
          /\ \A l, q : Place(storage', l, q) = Place(storage, l, q)
          /\ \A l \in Key, q \in Slots(storage) :
                FindsAt(storage', l, q) <=> FindsAt(storage, l, q)
      BY <1>1, <3>1, Updating
    <3>3. i \in LiveSlots(storage) /\ storage.item[i].key = k
      BY <1>1, <3>1, FoundIsLive
    <3> HIDE DEF i
    <3>4. ASSUME NEW j \in LiveSlots(storage)
          PROVE  \/ storage'.item[j].value \in older[storage'.item[j].key]
                 \/ \E q \in Slots(storage) : FindsAt(storage', storage'.item[j].key, q)
                                            /\ Place(storage', storage'.item[j].key, q) = j
      <4>1. j \in Slots(storage) /\ storage.item[j].key \in Key
        BY <1>1, ItemAt DEF LiveSlots, Item
      <4>2. CASE j = i
        BY <4>2, <3>1, <3>2, <3>3, <4>1 DEF i
      <4>3. CASE j # i
        BY <4>1, <4>3, <3>2, <2>3, <1>3 DEF CoveredKnown
      <4> QED
        BY <4>2, <4>3
    <3> QED
      BY <3>4, <2>1, <2>2 DEF CoveredKnown
  <2>4. AddStep(k, v) \/ ~ intact
    <3>1. Found' = [Found EXCEPT ![k] = v]
      BY <2>1 DEF Found
    <3> QED
      BY <3>1, <2>1, <2>2 DEF AddStep, Abstract!Replace, Found
  <2>5. Counted => Counted'
    BY <1>7, <2>1 DEF Counted
  <2> QED
    BY <1>1, <1>2, <1>3, <1>7, <2>1, <2>2, <2>3, <2>4, <2>5
<1>8. CASE Extends(storage, storage', k, v) /\ used' = used + 1
  <2>1. PICK i \in Slots(storage) \ LiveSlots(storage) :
          /\ LiveSlots(storage') = LiveSlots(storage) \union {i}
          /\ storage'.item[i] = Holding(k, v)
          /\ \A j \in Slots(storage) \ {i} : storage'.item[j] = storage.item[j]
          /\ \E o \in Slots(storage') : FindsAt(storage', k, o) /\ Place(storage', k, o) = i
    BY <1>1, <1>8, ExtendsShape
  <2>2. /\ IsTable(storage') /\ storage'.size = storage.size
        /\ Slots(storage') = Slots(storage)
        /\ NoneDeleted(storage) => NoneDeleted(storage')
        /\ Chain(storage', Genuine)
        /\ Lookup(storage', k) = v
        /\ Chain(storage, Key) => \A l \in Key \ {k} :
              /\ Lookup(storage', l) = Lookup(storage, l)
              /\ \A q \in Slots(storage) : FindsAt(storage, l, q) => FindsAt(storage', l, q)
        /\ \A l, q : Place(storage', l, q) = Place(storage, l, q)
    <3>1. /\ IsTable(storage') /\ storage'.size = storage.size
          /\ Slots(storage') = Slots(storage)
          /\ NoneDeleted(storage) => NoneDeleted(storage')
          /\ \A K : Chain(storage, K) => Chain(storage', K)
          /\ Lookup(storage', k) = v
          /\ Chain(storage, Key) => \A l \in Key \ {k} :
                /\ Lookup(storage', l) = Lookup(storage, l)
                /\ \A q \in Slots(storage) : FindsAt(storage, l, q) => FindsAt(storage', l, q)
          /\ \A l, q : Place(storage', l, q) = Place(storage, l, q)
      <4>1. IsTable(storage) /\ Extends(storage, storage', k, v)
        BY <1>1, <1>8
      <4> QED
        BY <4>1, ExtendsEffect
    <3>2. Chain(storage', Genuine)
      BY <3>1, <1>2
    <3> QED
      BY <3>1, <3>2
  <2>3. LiveSlots(storage') # LiveSlots(storage)
    BY <2>1
  <2>4. older' = IF Lookup(storage, k) # NoValue
                 THEN [older EXCEPT ![k] = @ \union {Lookup(storage, k)}] ELSE older
    BY <2>3 DEF Covered
  <2>5. older' \in [Key -> SUBSET Value]
    BY <1>1, <1>5, <2>4
  <2>6. ASSUME intact PROVE CoveredKnown'
    <3>1. ASSUME NEW j \in LiveSlots(storage')
          PROVE  \/ storage'.item[j].value \in older'[storage'.item[j].key]
                 \/ \E q \in Slots(storage') : FindsAt(storage', storage'.item[j].key, q)
                                             /\ Place(storage', storage'.item[j].key, q) = j
      <4>1. CASE j = i
        BY <4>1, <2>1, HoldingItem
      <4>2. CASE j # i
        <5> DEFINE l == storage.item[j].key
        <5>1. j \in LiveSlots(storage) /\ storage'.item[j] = storage.item[j]
          BY <4>2, <2>1 DEF LiveSlots
        <5>2. l \in Key
          BY <5>1, <1>1, ItemAt DEF LiveSlots, Item
        <5>3. CASE storage.item[j].value \in older[l]
          BY <5>1, <5>2, <5>3, <2>4, <1>1
        <5>4. CASE \E q \in Slots(storage) : FindsAt(storage, l, q) /\ Place(storage, l, q) = j
          <6>1. PICK q \in Slots(storage) : FindsAt(storage, l, q) /\ Place(storage, l, q) = j
            BY <5>4
          <6>2. CASE l = k
            <7>1. Lookup(storage, k) = storage.item[j].value /\ Lookup(storage, k) # NoValue
              BY <6>1, <6>2, <1>1, LookupFinds
            <7> QED
              BY <7>1, <6>2, <5>1, <2>4, <1>1
          <6>3. CASE l # k
            <7>1. FindsAt(storage', l, q) /\ Place(storage', l, q) = j
              BY <6>1, <6>3, <5>2, <2>2, <2>6, <1>3
            <7> QED
              BY <7>1, <5>1, <2>2
          <6> QED
            BY <6>2, <6>3
        <5> QED
          BY <5>1, <5>3, <5>4, <2>6, <1>3 DEF CoveredKnown
      <4> QED
        BY <4>1, <4>2
    <3> QED
      BY <3>1 DEF CoveredKnown
  <2>7. Counted => Counted'
    <3>1. Cardinality(LiveSlots(storage')) = Cardinality(LiveSlots(storage)) + 1
      BY <1>1, <1>8, CountAdded
    <3> QED
      BY <3>1, <1>1, <1>4, <1>8 DEF Counted
  <2>8. ASSUME intact PROVE AddStep(k, v)
    <3>1. Found' = [Found EXCEPT ![k] = v] /\ Found[k] = Lookup(storage, k)
      BY <2>2, <2>8, <1>3 DEF Found
    <3>2. CASE Lookup(storage, k) = NoValue
      BY <3>1, <3>2, <2>4 DEF AddStep, Abstract!Add
    <3>3. CASE Lookup(storage, k) # NoValue
      <4>1. holes
        <5> SUFFICES ASSUME ~ holes PROVE FALSE
          OBVIOUS
        <5>1. PICK o \in Slots(storage) : EndOfChain(storage, k, o)
          BY <1>8 DEF Extends
        <5>2. PICK q \in Slots(storage) : FindsAt(storage, k, q)
          BY <3>3, LookupFails
        <5>3. o \in Nat /\ q \in Nat
          BY <1>1, OffsetsAreNat
        <5>4. Place(storage, k, o) \in Slots(storage)
          BY <1>1, <5>3, PlaceIsSlot
        <5>5. ~ At(storage, k, o).used
          BY <5>1, <5>4, <2>8, <1>3 DEF EndOfChain, At, NoneDeleted
        <5>6. ~ (o < q) /\ ~ (q < o) /\ q # o
          BY <5>1, <5>2, <5>3, <5>5 DEF FindsAt, EndOfChain, Holds, Live
        <5> QED
          BY <5>3, <5>6
      <4> QED
        BY <3>1, <3>3, <4>1, <2>4 DEF AddStep, Abstract!Cover
    <3> QED
      BY <3>2, <3>3
  <2> QED
    BY <1>1, <1>2, <1>3, <1>8, <2>2, <2>5, <2>6, <2>7, <2>8
<1> QED
  BY <1>1, <1>6, <1>7, <1>8, PutInCases

-----------------------------------------------------------------------------
(* One lemma per action: the invariant is kept, and an intact table makes  *)
(* a step of Dictionary.                                                   *)

Abstracted ==
  \/ UNCHANGED <<Found, older, holes, intact>>
  \/ Abstract!Next

LEMMA AddStepIsAbstract ==
  ASSUME NEW k \in Key, NEW v \in Value, AddStep(k, v), holes' = holes, intact' = intact
  PROVE  Abstracted
BY DEF AddStep, Abstracted, Abstract!Next

LEMMA IntactLost ==
  ASSUME IInv, intact' = FALSE PROVE Abstracted
BY DEF Abstracted, Abstract!Next

LEMMA InsertStep ==
  ASSUME IInv, NEW k \in Key, NEW v \in Value, NEW upsert \in BOOLEAN, Insert(k, v, upsert)
  PROVE  IInv' /\ Abstracted
<1>1. /\ PutIn(storage, storage', k, v, upsert, used, used')
      /\ older' = Covered(k, storage') /\ holes' = holes /\ intact' = intact
      /\ phase = "idle" /\ UNCHANGED <<capacity, phase, into, next, request>>
  BY DEF Insert, rebuildVars
<1>2. /\ IsTable(storage') /\ storage'.size = storage.size
      /\ used' \in Int
      /\ older' \in [Key -> SUBSET Value]
      /\ Chain(storage', Genuine')
      /\ intact => /\ CoveredKnown'
                   /\ (~ holes => NoneDeleted(storage))'
                   /\ Counted'
                   /\ AddStep(k, v)
  BY <1>1, Inserting
<1>3. TypeOK'
  BY <1>1, <1>2, Types DEF IInv, TypeOK, IsTable
<1>4. (intact => IntactInv)'
  BY <1>1, <1>2 DEF IntactInv
<1>5. IInv'
  BY <1>1, <1>2, <1>3, <1>4 DEF IInv
<1>6. Abstracted
  <2>1. CASE intact
    BY <2>1, <1>1, <1>2, AddStepIsAbstract
  <2>2. CASE ~ intact
    <3>1. intact' = FALSE
      BY <2>2, <1>1, Types DEF IInv
    <3> QED
      BY <3>1, IntactLost
  <2> QED
    BY <2>1, <2>2
<1> QED
  BY <1>5, <1>6

LEMMA InsertPendingStep ==
  ASSUME IInv, InsertPending
  PROVE  IInv' /\ Abstracted
<1> DEFINE k == request.key
           v == request.value
<1>1. /\ PutIn(storage, storage', k, v, request.upsert, used, used')
      /\ older' = Covered(k, storage') /\ holes' = holes /\ intact' = intact
      /\ phase' = "idle" /\ UNCHANGED <<capacity, into, next>> /\ request' = NoRequest
  BY DEF InsertPending
<1>2. k \in Key /\ v \in Value /\ request.upsert \in BOOLEAN
  BY Types DEF IInv
<1>3. /\ IsTable(storage') /\ storage'.size = storage.size
      /\ used' \in Int
      /\ older' \in [Key -> SUBSET Value]
      /\ Chain(storage', Genuine')
      /\ intact => /\ CoveredKnown'
                   /\ (~ holes => NoneDeleted(storage))'
                   /\ Counted'
                   /\ AddStep(k, v)
  BY <1>1, <1>2, Inserting
<1> HIDE DEF k, v
<1>4. TypeOK'
  BY <1>1, <1>3, Types, KeyAssumption, ValueAssumption DEF IInv, TypeOK, IsTable, NoRequest
<1>5. (intact => IntactInv)'
  BY <1>1, <1>3 DEF IntactInv
<1>6. IInv'
  BY <1>1, <1>3, <1>4, <1>5 DEF IInv
<1>7. Abstracted
  <2>1. CASE intact
    BY <2>1, <1>1, <1>2, <1>3, AddStepIsAbstract
  <2>2. CASE ~ intact
    <3>1. intact' = FALSE
      BY <2>2, <1>1, Types DEF IInv
    <3> QED
      BY <3>1, IntactLost
  <2> QED
    BY <2>1, <2>2
<1> QED
  BY <1>6, <1>7

LEMMA RebuildStep ==
  ASSUME IInv, NEW n \in Nat \ {0}, NEW r, Rebuild(n, r), r.key \in Key, r.value \in Value,
         r.upsert \in BOOLEAN, r.none \in BOOLEAN
  PROVE  IInv' /\ Abstracted
<1>1. /\ phase' = "reinsert" /\ into' = Storage(n) /\ next' = 0 /\ request' = r
      /\ intact' = (intact /\ n > capacity)
      /\ UNCHANGED <<storage, capacity, used, older, holes>>
  BY DEF Rebuild
<1>2. /\ IsTable(Storage(n)) /\ Storage(n).size = n
      /\ LiveSlots(Storage(n)) = {}
      /\ Cardinality(LiveSlots(Storage(n))) = 0
      /\ Chain(Storage(n), Key)
      /\ \A i \in Slots(Storage(n)) : Storage(n).item[i] = Free
  BY EmptyTable
<1>3. TypeOK'
  <2>1. IsTable(storage) /\ IsTable(into') /\ 0 \in 0 .. storage.size
    BY <1>1, <1>2, Types DEF IInv, IsTable
  <2>2. intact' \in BOOLEAN
    BY <1>1
  <2> QED
    BY <2>1, <2>2, <1>1, Types DEF IInv, TypeOK, IsTable
<1>4. Chain(storage, Genuine)'
  BY <1>1 DEF IInv, Chain, Genuine, LiveSlots, Reachable, Slots, Place, At
<1>5. SeenLive' = {}
  <2>1. \A j \in LiveSlots(storage) : j \in Nat
    BY OffsetsAreNat, Types DEF IInv, LiveSlots
  <2> QED
    BY <2>1, <1>1 DEF SeenLive
<1>6. Moved'
  BY <1>1, <1>2, <1>5, FS_EmptySet DEF Moved
<1>7. ASSUME intact' PROVE IntactInv'
  <2>1. intact /\ n > capacity
    BY <1>1, <1>7
  <2>2. CoveredKnown' /\ Counted' /\ (~ holes => NoneDeleted(storage))'
    BY <2>1, <1>1 DEF IInv, IntactInv, CoveredKnown, Counted
  <2> QED
    BY <2>1, <2>2, <1>1, <1>2, <1>6 DEF IntactInv
<1>8. IInv'
  BY <1>1, <1>2, <1>3, <1>4, <1>7 DEF IInv
<1>9. Abstracted
  <2>1. CASE intact' = intact
    BY <2>1, <1>1 DEF Abstracted, Found
  <2>2. CASE intact' # intact
    <3>1. intact' = FALSE
      BY <2>2, <1>1, Types DEF IInv
    <3> QED
      BY <3>1, IntactLost
  <2> QED
    BY <2>1, <2>2
<1> QED
  BY <1>8, <1>9

LEMMA ClearStep ==
  ASSUME IInv, Clear
  PROVE  IInv' /\ Abstracted
<1> DEFINE n == storage.size
<1>1. /\ storage' = Storage(n) /\ older' = [k \in Key |-> {}] /\ holes' = FALSE
      /\ phase = "idle"
      /\ UNCHANGED <<capacity, used, phase, into, next, request, intact>>
  BY DEF Clear, rebuildVars
<1>2. n \in Nat \ {0} /\ IsTable(storage)
  BY Types DEF IInv, IsTable
<1>3. /\ IsTable(Storage(n)) /\ Storage(n).size = n
      /\ LiveSlots(Storage(n)) = {}
      /\ Cardinality(LiveSlots(Storage(n))) = 0
      /\ \A K : Chain(Storage(n), K)
      /\ NoneDeleted(Storage(n))
      /\ \A k \in Key : Lookup(Storage(n), k) = NoValue
  BY <1>2, EmptyTable
<1> HIDE DEF n
<1>4. TypeOK'
  BY <1>1, <1>3, Types DEF IInv, TypeOK, IsTable, n
<1>5. ASSUME intact' PROVE IntactInv'
  <2>1. CoveredKnown'
    BY <1>1, <1>3 DEF CoveredKnown
  <2>2. Counted'
    <3>1. Cardinality(LiveSlots(storage)) <= used /\ used \in Int
      BY <1>1, <1>5, Types DEF IInv, IntactInv, Counted
    <3>2. Cardinality(LiveSlots(storage)) \in Nat
      BY <1>2, LiveCount
    <3> QED
      BY <3>1, <3>2, <1>1, <1>3 DEF Counted
  <2> QED
    BY <2>1, <2>2, <1>1, <1>3 DEF IntactInv
<1>6. IInv'
  BY <1>1, <1>3, <1>4, <1>5 DEF IInv
<1>7. Found' = [k \in Key |-> NoValue]
  BY <1>1, <1>3 DEF Found
<1>8. Abstracted
  BY <1>1, <1>7 DEF Abstracted, Abstract!Next, Abstract!Clear
<1> QED
  BY <1>6, <1>8

LEMMA DeletingKeepsOthers ==
  ASSUME NEW t, IsTable(t), NEW u, NEW i \in Slots(t), Live(t.item[i]),
         NEW x \in Item, x.used, ~ Live(x), u = Put(t, i, x),
         NEW l \in Key \ {t.item[i].key}, NEW q \in Slots(t)
  PROVE  FindsAt(u, l, q) <=> FindsAt(t, l, q)
<1>1. /\ u.item[i] = x
      /\ \A j \in Slots(t) \ {i} : u.item[j] = t.item[j]
      /\ \A m, p : Place(u, m, p) = Place(t, m, p)
  BY Putting
<1>2. \A p \in Nat : Place(t, l, p) \in Slots(t)
  BY PlaceIsSlot
<1>3. t.item[i] \in Item /\ t.item[i].used /\ q \in Nat
  BY ItemAt, OffsetsAreNat DEF Live
<1>4. ASSUME NEW p \in Nat
      PROVE  /\ Holds(At(u, l, p), l) <=> Holds(At(t, l, p), l)
             /\ At(t, l, p).used <=> At(u, l, p).used
  <2>1. CASE Place(t, l, p) = i
    BY <2>1, <1>1, <1>3 DEF At, Holds
  <2>2. CASE Place(t, l, p) # i
    BY <2>2, <1>1, <1>2 DEF At
  <2> QED
    BY <2>1, <2>2
<1>5. ASSUME FindsAt(u, l, q) PROVE FindsAt(t, l, q)
  BY <1>3, <1>4, <1>5 DEF FindsAt
<1>6. ASSUME FindsAt(t, l, q) PROVE FindsAt(u, l, q)
  BY <1>3, <1>4, <1>6 DEF FindsAt
<1> QED
  BY <1>5, <1>6

LEMMA RemoveStep ==
  ASSUME IInv, NEW k \in Key, Remove(k)
  PROVE  IInv' /\ Abstracted
<1>1. PICK o \in Slots(storage) :
        /\ FindsAt(storage, k, o)
        /\ storage' = Put(storage, Place(storage, k, o), Marked)
  BY DEF Remove
<1> DEFINE i == Place(storage, k, o)
<1>2. /\ phase = "idle" /\ used' = used - 1 /\ holes' = TRUE
      /\ older' = IF Lookup(storage', k) = NoValue THEN [older EXCEPT ![k] = {}] ELSE older
      /\ UNCHANGED <<capacity, phase, into, next, request, intact>>
  BY DEF Remove, rebuildVars
<1>3. IsTable(storage) /\ used \in Int /\ older \in [Key -> SUBSET Value]
  BY Types DEF IInv
<1>4. i \in LiveSlots(storage) /\ i \in Slots(storage) /\ storage.item[i].key = k
      /\ Live(storage.item[i])
  BY <1>1, <1>3, FoundIsLive DEF LiveSlots
<1>5. Marked \in Item /\ Marked.used /\ ~ Live(Marked)
  BY KeyAssumption, ValueAssumption DEF Marked, Deleted, Item, Live
<1>6. /\ IsTable(storage') /\ storage'.size = storage.size /\ Slots(storage') = Slots(storage)
      /\ storage'.item[i] = Marked
      /\ \A j \in Slots(storage) \ {i} : storage'.item[j] = storage.item[j]
      /\ \A l, q : Place(storage', l, q) = Place(storage, l, q)
  BY <1>1, <1>3, <1>4, <1>5, Putting
<1>7. \A j \in Slots(storage) \ {i} : Reachable(storage, j) => Reachable(storage', j)
  BY <1>1, <1>3, <1>4, <1>5, ReachableKept
<1> HIDE DEF i
<1>8. LiveSlots(storage') = LiveSlots(storage) \ {i}
  BY <1>4, <1>5, <1>6 DEF LiveSlots
<1>9. Chain(storage', Genuine')
  <2>1. Genuine' = Genuine /\ Chain(storage, Genuine)
    BY <1>2 DEF IInv, Genuine
  <2> QED
    BY <2>1, <1>6, <1>7, <1>8 DEF Chain, LiveSlots
<1>10. ASSUME NEW l \in Key \ {k}, NEW q \in Slots(storage)
       PROVE  FindsAt(storage', l, q) <=> FindsAt(storage, l, q)
  BY <1>1, <1>3, <1>4, <1>5, DeletingKeepsOthers DEF i
<1>11. TypeOK'
  <2>1. older' \in [Key -> SUBSET Value]
    BY <1>2, <1>3
  <2> QED
    BY <2>1, <1>2, <1>3, <1>6, Types DEF IInv, TypeOK, IsTable
(* What is left of k was covered.                                          *)
<1>12. ASSUME intact, NEW j \in LiveSlots(storage'), storage'.item[j].key = k
       PROVE  storage'.item[j].value \in older[k] /\ Lookup(storage', k) # NoValue
  <2>1. j \in LiveSlots(storage) /\ j # i /\ storage'.item[j] = storage.item[j]
    BY <1>6, <1>8, <1>12 DEF LiveSlots
  <2>2. ~ \E q \in Slots(storage) : FindsAt(storage, k, q) /\ Place(storage, k, q) = j
    BY <2>1, <1>1, <1>3, FindsOne DEF i
  <2>3. storage.item[j].value \in older[k]
    BY <2>1, <2>2, <1>12 DEF IInv, IntactInv, CoveredKnown
  <2>4. Chain(storage', Key)
    BY <1>2, <1>9, <1>12 DEF Genuine
  <2>5. Lookup(storage', k) # NoValue
    BY <2>4, <1>6, <1>12, LookupIffLive DEF Chain
  <2> QED
    BY <2>1, <2>3, <2>5
<1>13. ASSUME intact' PROVE IntactInv'
  <2>1. ASSUME NEW j \in LiveSlots(storage')
        PROVE  \/ storage'.item[j].value \in older'[storage'.item[j].key]
               \/ \E q \in Slots(storage') : FindsAt(storage', storage'.item[j].key, q)
                                           /\ Place(storage', storage'.item[j].key, q) = j
    <3> DEFINE l == storage'.item[j].key
    <3>1. l \in Key
      BY <1>6, ItemAt DEF LiveSlots, Item
    <3>2. CASE l = k
      BY <3>2, <1>2, <1>12, <1>13
    <3>3. CASE l # k
      <4>1. j \in LiveSlots(storage) /\ storage'.item[j] = storage.item[j]
        BY <1>6, <1>8 DEF LiveSlots
      <4>2. older'[l] = older[l]
        BY <3>1, <3>3, <1>2, <1>3
      <4>3. \/ storage.item[j].value \in older[l]
            \/ \E q \in Slots(storage) : FindsAt(storage, l, q) /\ Place(storage, l, q) = j
        BY <4>1, <1>2, <1>13 DEF IInv, IntactInv, CoveredKnown
      <4> HIDE DEF l
      <4>4. \A q \in Slots(storage) : FindsAt(storage, l, q) => FindsAt(storage', l, q)
        BY <3>1, <3>3, <1>10
      <4> QED
        BY <4>1, <4>2, <4>3, <4>4, <1>6 DEF l
    <3> QED
      BY <3>2, <3>3
  <2>2. CoveredKnown'
    BY <2>1 DEF CoveredKnown
  <2>3. Counted'
    <3>1. IsFiniteSet(LiveSlots(storage)) /\ Cardinality(LiveSlots(storage)) \in Nat
      BY <1>3, LiveCount
    <3>2. Cardinality(LiveSlots(storage')) = Cardinality(LiveSlots(storage)) - 1
      BY <3>1, <1>4, <1>8, FS_RemoveElement
    <3>3. Cardinality(LiveSlots(storage)) <= used
      BY <1>2, <1>13 DEF IInv, IntactInv, Counted
    <3> QED
      BY <3>1, <3>2, <3>3, <1>2, <1>3 DEF Counted
  <2> QED
    BY <2>2, <2>3, <1>2 DEF IntactInv
<1>14. IInv'
  BY <1>2, <1>9, <1>11, <1>13 DEF IInv
<1>15. Abstracted
  <2>1. CASE intact
    <3> DEFINE v == Lookup(storage', k)
    <3>1. Found' = [Found EXCEPT ![k] = v]
      <4>1. ASSUME NEW l \in Key \ {k} PROVE Lookup(storage', l) = Lookup(storage, l)
        <5>1. CASE \E q \in Slots(storage) : FindsAt(storage, l, q)
          <6>1. PICK q \in Slots(storage) : FindsAt(storage, l, q)
            BY <5>1
          <6>2. Place(storage, l, q) \in Slots(storage) \ {i}
            BY <6>1, <1>3, <1>4, FoundIsLive DEF LiveSlots
          <6>3. Lookup(storage, l) = storage.item[Place(storage, l, q)].value
            BY <6>1, <1>3, LookupFinds
          <6>4. FindsAt(storage', l, q) /\ q \in Slots(storage')
            BY <6>1, <1>6, <1>10
          <6>5. Lookup(storage', l) = storage'.item[Place(storage', l, q)].value
            BY <6>4, <1>6, LookupFinds
          <6> QED
            BY <6>2, <6>3, <6>5, <1>6
        <5>2. CASE ~ \E q \in Slots(storage) : FindsAt(storage, l, q)
          BY <5>2, <1>6, <1>10, LookupFails
        <5> QED
          BY <5>1, <5>2
      <4> QED
        BY <4>1 DEF Found
    <3>2. Found[k] # NoValue
      BY <1>1, <1>3, LookupFinds DEF Found
    <3>3. v \in older[k] \union {NoValue}
      <4>1. CASE \E q \in Slots(storage') : FindsAt(storage', k, q)
        <5>1. PICK q \in Slots(storage') : FindsAt(storage', k, q)
          BY <4>1
        <5>2. Place(storage', k, q) \in LiveSlots(storage')
              /\ storage'.item[Place(storage', k, q)].key = k
          BY <5>1, <1>6, FoundIsLive
        <5>3. v = storage'.item[Place(storage', k, q)].value
          BY <5>1, <1>6, LookupFinds
        <5> QED
          BY <5>2, <5>3, <2>1, <1>12
      <4>2. CASE ~ \E q \in Slots(storage') : FindsAt(storage', k, q)
        BY <4>2, LookupFails
      <4> QED
        BY <4>1, <4>2
    <3>4. older' = IF v = NoValue THEN [older EXCEPT ![k] = {}] ELSE older
      BY <1>2
    <3> HIDE DEF v
    <3>5. Abstract!Remove(k)
      BY <3>1, <3>2, <3>3, <3>4, <1>2 DEF Abstract!Remove
    <3> QED
      BY <3>5 DEF Abstracted, Abstract!Next
  <2>2. CASE ~ intact
    <3>1. intact' = FALSE
      BY <2>2, <1>2, Types DEF IInv
    <3> QED
      BY <3>1, IntactLost
  <2> QED
    BY <2>1, <2>2
<1> QED
  BY <1>14, <1>15

LEMMA ReinsertStep ==
  ASSUME IInv, Reinsert
  PROVE  IInv' /\ Abstracted
<1> DEFINE item == storage.item[next]
<1>1. /\ phase = "reinsert" /\ next # storage.size /\ next' = next + 1
      /\ IF Live(item)
         THEN \E c \in {0, 1} : PutIn(into, into', item.key, item.value, FALSE, 0, c)
         ELSE into' = into
      /\ UNCHANGED <<storage, capacity, used, phase, request, older, holes, intact>>
  BY DEF Reinsert, LoopIsOver, ghosts
<1>2. IsTable(storage) /\ IsTable(into) /\ Chain(into, Key)
      /\ \A i \in Slots(into) : Live(into.item[i]) \/ into.item[i] = Free
  BY Types DEF IInv
<1>3. next \in Slots(storage) /\ next \in Nat /\ next + 1 \in 0 .. storage.size
  BY <1>1, Types DEF IInv, IsTable, Slots
<1>4. item \in Item /\ item.key \in Key /\ item.value \in Value
  BY <1>2, <1>3, ItemAt DEF Item
<1>5. SeenLive' = {j \in LiveSlots(storage) : j < next + 1}
  BY <1>1 DEF SeenLive
<1>6. \A j \in LiveSlots(storage) : j \in Nat
  BY <1>2, OffsetsAreNat DEF LiveSlots
<1>7. ASSUME intact
      PROVE  /\ into.size > capacity /\ Moved
             /\ CoveredKnown /\ Counted /\ (~ holes => NoneDeleted(storage))
  BY <1>1, <1>7 DEF IInv, IntactInv
<1>8. IsFiniteSet(SeenLive) /\ Cardinality(SeenLive) \in Nat /\ Cardinality(SeenLive) <= storage.size
  <2>1. SeenLive \in SUBSET LiveSlots(storage)
    BY DEF SeenLive
  <2> QED
    BY <2>1, <1>2, LiveAreFinite
<1> HIDE DEF item
<1>9. /\ IsTable(into') /\ Chain(into', Key)
      /\ \A i \in Slots(into') : Live(into'.item[i]) \/ into'.item[i] = Free
      /\ intact => into'.size > capacity /\ Moved'
  <2>1. CASE ~ Live(item)
    <3>1. into' = into
      BY <2>1, <1>1
    <3>2. SeenLive' = SeenLive
      <4>1. next \notin LiveSlots(storage)
        BY <2>1 DEF item, LiveSlots
      <4> QED
        BY <4>1, <1>3, <1>5, <1>6 DEF SeenLive
    <3>3. intact => Moved'
      BY <3>1, <3>2, <1>1, <1>7 DEF Moved
    <3> QED
      BY <3>1, <3>3, <1>2, <1>7
  <2>2. CASE Live(item)
    <3>1. PICK c \in {0, 1} : PutIn(into, into', item.key, item.value, FALSE, 0, c)
      BY <2>2, <1>1
    <3>2. next \in LiveSlots(storage)
      BY <2>2, <1>3 DEF item, LiveSlots
    <3>3. SeenLive' = SeenLive \union {next} /\ next \notin SeenLive
      <4>1. \A j \in LiveSlots(storage) : j < next + 1 <=> j < next \/ j = next
        BY <1>3, <1>6
      <4>2. ~ (next < next)
        BY <1>3
      <4> QED
        BY <4>1, <4>2, <3>2, <1>5 DEF SeenLive
    <3>4. Cardinality(SeenLive') = Cardinality(SeenLive) + 1
      BY <3>3, <1>8, FS_AddElement
    <3>5. CASE into' = into /\ (LiveSlots(into) = Slots(into)
                               \/ \E o \in Slots(into) : FindsAt(into, item.key, o))
      <4>1. ASSUME intact PROVE Moved'
        <5>1. Cardinality(LiveSlots(into)) <= Cardinality(SeenLive)
          BY <4>1, <1>7 DEF Moved
        <5>2. LiveSlots(into) # Slots(into)
          <6>1. Cardinality(LiveSlots(into)) < into.size
            BY <5>1, <4>1, <1>2, <1>7, <1>8, LiveCount, Types DEF IInv, IsTable
          <6> QED
            BY <6>1, <1>2, NotFull
        <5>3. PICK o \in Slots(into) : FindsAt(into, item.key, o)
          BY <5>2, <3>5
        <5>4. Place(into, item.key, o) \in LiveSlots(into)
              /\ into.item[Place(into, item.key, o)].key = item.key
          BY <5>3, <1>2, <1>4, FoundIsLive
        <5>5. \A j \in SeenLive' : \E i \in LiveSlots(into) : into.item[i].key = storage.item[j].key
          BY <5>4, <4>1, <3>3, <1>7 DEF Moved, item
        <5>6. Cardinality(LiveSlots(into)) <= Cardinality(SeenLive')
          BY <5>1, <3>4, <1>2, <1>8, LiveCount
        <5> QED
          BY <5>5, <5>6, <4>1, <3>3, <3>5, <1>1, <1>7 DEF Moved
      <4> QED
        BY <4>1, <3>5, <1>2, <1>7
    <3>6. CASE Extends(into, into', item.key, item.value)
      <4>1. PICK i \in Slots(into) \ LiveSlots(into) :
              /\ LiveSlots(into') = LiveSlots(into) \union {i}
              /\ into'.item[i] = Holding(item.key, item.value)
              /\ \A j \in Slots(into) \ {i} : into'.item[j] = into.item[j]
        BY <3>6, <1>2, <1>4, ExtendsShape
      <4>2. /\ IsTable(into') /\ Slots(into') = Slots(into) /\ into'.size = into.size
            /\ Chain(into', Key)
        BY <3>6, <1>2, <1>4, ExtendsEffect
      <4>3. Holding(item.key, item.value).key = item.key /\ Holding(item.key, item.value).value = item.value
            /\ Live(Holding(item.key, item.value))
        BY <1>4, HoldingItem
      <4>4. \A j \in Slots(into') : Live(into'.item[j]) \/ into'.item[j] = Free
        BY <4>1, <4>2, <4>3, <1>2
      <4>5. \A j \in LiveSlots(into) : into.item[j].key # item.key
        <5> SUFFICES ASSUME NEW j \in LiveSlots(into), into.item[j].key = item.key
                     PROVE  FALSE
          OBVIOUS
        <5>1. PICK o \in Slots(into) : EndOfChain(into, item.key, o)
          BY <3>6 DEF Extends
        <5>2. PICK q \in Slots(into) : /\ Place(into, item.key, q) = j
                                       /\ \A p \in 0 .. q - 1 : At(into, item.key, p).used
          BY <1>2, <1>4 DEF Chain, Reachable
        <5>3. o \in Nat /\ q \in Nat /\ Place(into, item.key, o) \in Slots(into)
          BY <1>2, <1>4, OffsetsAreNat, PlaceIsSlot
        <5>4. ~ At(into, item.key, o).used
          <6>1. At(into, item.key, o) = Free
            BY <5>1, <5>3, <1>2 DEF EndOfChain, At
          <6> QED
            BY <6>1 DEF Free
        <5>5. ~ (o < q) /\ ~ (q < o) /\ q # o
          BY <5>1, <5>2, <5>3, <5>4 DEF EndOfChain, At, LiveSlots
        <5> QED
          BY <5>3, <5>5
      <4>6. ASSUME intact PROVE Moved'
        <5>1. \A j \in LiveSlots(into) : into'.item[j] = into.item[j]
          BY <4>1 DEF LiveSlots
        <5>2. \A m \in LiveSlots(into') : \E j \in SeenLive' :
                into'.item[m].key = storage.item[j].key /\ into'.item[m].value = storage.item[j].value
          BY <5>1, <4>1, <4>3, <4>6, <3>3, <1>7 DEF Moved, item
        <5>3. \A j \in SeenLive' : \E m \in LiveSlots(into') : into'.item[m].key = storage.item[j].key
          BY <5>1, <4>1, <4>3, <4>6, <3>3, <1>7 DEF Moved, item
        <5>4. \A m, j \in LiveSlots(into') : into'.item[m].key = into'.item[j].key => m = j
          BY <5>1, <4>1, <4>3, <4>5, <4>6, <1>7 DEF Moved
        <5>5. Cardinality(LiveSlots(into')) <= Cardinality(SeenLive')
          <6>1. Cardinality(LiveSlots(into')) = Cardinality(LiveSlots(into)) + 1
            BY <3>6, <1>2, <1>4, CountAdded
          <6>2. Cardinality(LiveSlots(into)) <= Cardinality(SeenLive)
            BY <4>6, <1>7 DEF Moved
          <6> QED
            BY <6>1, <6>2, <3>4, <1>2, <1>8, LiveCount
        <5> QED
          BY <5>2, <5>3, <5>4, <5>5, <1>1 DEF Moved
      <4> QED
        BY <4>2, <4>4, <4>6, <1>7
    <3> QED
      BY <3>1, <3>5, <3>6, <1>2, <1>4, PutInCases
  <2> QED
    BY <2>1, <2>2
<1>10. TypeOK'
  BY <1>1, <1>3, <1>9, Types DEF IInv, TypeOK, IsTable
<1>11. Chain(storage, Genuine)'
  BY <1>1 DEF IInv, Chain, Genuine, LiveSlots, Reachable, Slots, Place, At
<1>12. ASSUME intact' PROVE IntactInv'
  <2>1. CoveredKnown' /\ Counted' /\ (~ holes => NoneDeleted(storage))'
    BY <1>1, <1>7, <1>12 DEF CoveredKnown, Counted
  <2> QED
    BY <2>1, <1>1, <1>9, <1>12 DEF IntactInv
<1>13. IInv'
  BY <1>9, <1>10, <1>11, <1>12 DEF IInv
<1>14. Abstracted
  BY <1>1 DEF Abstracted, Found
<1> QED
  BY <1>13, <1>14

LEMMA AdoptStep ==
  ASSUME IInv, Adopt
  PROVE  IInv' /\ Abstracted
<1>1. /\ phase = "reinsert" /\ next = storage.size
      /\ storage' = Adopted
      /\ capacity' = IF into.size > capacity THEN into.size ELSE capacity
      /\ phase' = IF request.none THEN "idle" ELSE "insert"
      /\ into' = Storage(1) /\ next' = 0
      /\ older' = [k \in Key |-> {}] /\ holes' = FALSE
      /\ UNCHANGED <<used, request, intact>>
  BY DEF Adopt, LoopIsOver, Memory
<1>2. IsTable(storage) /\ IsTable(into) /\ Chain(into, Key) /\ capacity \in Nat
      /\ storage.size <= capacity /\ used \in Int
      /\ \A i \in Slots(into) : Live(into.item[i]) \/ into.item[i] = Free
  BY Types DEF IInv
<1>3. /\ Adopted.size = into.size /\ Slots(Adopted) = Slots(into)
      /\ Adopted = [size |-> Adopted.size, item |-> Adopted.item]
      /\ \A l, q : Place(Adopted, l, q) = Place(into, l, q)
  BY DEF Adopted, Slots, Place
<1>4. ASSUME NEW i \in Slots(into)
      PROVE  /\ Adopted.item[i] \in Item
             /\ Adopted.item[i].key = into.item[i].key
             /\ into.item[i].used => Adopted.item[i].used
             /\ Adopted.item[i] = into.item[i] \/ Adopted.item[i] = Assigned(into.item[i])
  <2>1. into.item[i] \in Item
    BY <1>2, ItemAt
  <2>2. Adopted.item[i] = IF into.size <= capacity /\ i < storage.size
                          THEN Assigned(into.item[i]) ELSE into.item[i]
    BY DEF Adopted
  <2>3. Assigned(into.item[i]) \in Item /\ Assigned(into.item[i]).key = into.item[i].key
        /\ Assigned(into.item[i]).used
    BY <2>1, HoldingItem DEF Assigned, Item
  <2> QED
    BY <2>1, <2>2, <2>3
<1>5. IsTable(Adopted)
  <2>1. Adopted.item \in [Slots(Adopted) -> Item]
    <3>1. DOMAIN Adopted.item = Slots(into) /\ Adopted.item = [i \in Slots(into) |-> Adopted.item[i]]
      BY DEF Adopted
    <3> QED
      BY <3>1, <1>3, <1>4
  <2> QED
    BY <2>1, <1>2, <1>3 DEF IsTable
<1>6. ASSUME NEW i \in LiveSlots(Adopted), Adopted.item[i].key # DefaultKey
      PROVE  Reachable(Adopted, i)
  <2>1. i \in Slots(into) /\ Adopted.item[i].key = into.item[i].key /\ into.item[i].key \in Key
    BY <1>2, <1>3, <1>4, ItemAt DEF LiveSlots, Item
  <2>2. Live(into.item[i])
    BY <2>1, <1>2, <1>6 DEF Free
  <2>3. PICK o \in Slots(into) : /\ Place(into, into.item[i].key, o) = i
                                 /\ \A p \in 0 .. o - 1 : At(into, into.item[i].key, p).used
    BY <2>1, <2>2, <1>2 DEF Chain, Reachable, LiveSlots
  <2>4. ASSUME NEW p \in 0 .. o - 1 PROVE At(Adopted, into.item[i].key, p).used
    <3>1. p \in Nat
      BY <1>2, OffsetsAreNat
    <3>2. Place(into, into.item[i].key, p) \in Slots(into)
      BY <3>1, <2>1, <1>2, PlaceIsSlot
    <3> QED
      BY <3>2, <2>3, <1>3, <1>4 DEF At
  <2> QED
    BY <2>1, <2>3, <2>4, <1>3 DEF Reachable
<1>7. ASSUME intact
      PROVE  /\ Adopted = into /\ into.size > capacity /\ Moved
             /\ CoveredKnown /\ Counted
             /\ SeenLive = LiveSlots(storage)
  <2>1. into.size > capacity /\ Moved /\ CoveredKnown /\ Counted
    BY <1>1, <1>7 DEF IInv, IntactInv
  <2>2. ~ (into.size <= capacity)
    BY <2>1, <1>2 DEF IsTable
  <2>3. Adopted = into
    BY <2>2, <1>2 DEF Adopted, IsTable
  <2>4. SeenLive = LiveSlots(storage)
    BY <1>1, <1>2 DEF SeenLive, LiveSlots, Slots, IsTable
  <2> QED
    BY <2>1, <2>3, <2>4
<1>8. Chain(storage, Genuine)'
  <2>1. CASE intact
    BY <2>1, <1>1, <1>2, <1>7 DEF Chain, Genuine
  <2>2. CASE ~ intact
    BY <2>2, <1>1, <1>6 DEF Chain, Genuine
  <2> QED
    BY <2>1, <2>2
<1>9. /\ IsTable(Storage(1)) /\ Storage(1).size = 1 /\ Chain(Storage(1), Key)
      /\ \A i \in Slots(Storage(1)) : Storage(1).item[i] = Free
  BY EmptyTable
<1>10. TypeOK'
  <2>1. capacity' \in Nat /\ Adopted.size <= capacity' /\ 0 \in 0 .. Adopted.size
    BY <1>1, <1>2, <1>3 DEF IsTable
  <2>2. older' \in [Key -> SUBSET Value]
    BY <1>1
  <2> QED
    BY <2>1, <2>2, <1>1, <1>5, <1>9, Types DEF IInv, TypeOK, IsTable
(* The item of a key that get() returns is the only one.                   *)
<1>11. ASSUME intact, NEW i \in LiveSlots(into)
       PROVE  \E o \in Slots(into) : FindsAt(into, into.item[i].key, o)
                                    /\ Place(into, into.item[i].key, o) = i
  <2>1. into.item[i].key \in Key /\ Reachable(into, i)
    BY <1>2, ItemAt DEF LiveSlots, Item, Chain
  <2>2. PICK o \in Slots(into) : FindsAt(into, into.item[i].key, o)
    BY <2>1, <1>2, ReachedIsFound
  <2>3. Place(into, into.item[i].key, o) \in LiveSlots(into)
        /\ into.item[Place(into, into.item[i].key, o)].key = into.item[i].key
    BY <2>1, <2>2, <1>2, FoundIsLive
  <2>4. Place(into, into.item[i].key, o) = i
    BY <2>3, <1>7, <1>11 DEF Moved
  <2> QED
    BY <2>2, <2>4
<1>12. ASSUME intact' PROVE IntactInv'
  <2>0. intact /\ storage' = into
    BY <1>1, <1>7, <1>12
  <2>1. CoveredKnown'
    BY <2>0, <1>11 DEF CoveredKnown
  <2>2. NoneDeleted(storage')
    BY <2>0, <1>2 DEF NoneDeleted, Free
  <2>3. Cardinality(LiveSlots(into)) <= Cardinality(LiveSlots(storage))
    BY <2>0, <1>7 DEF Moved
  <2>4. Counted'
    BY <2>0, <2>3, <1>1, <1>2, <1>7, LiveCount DEF Counted
  <2>5. LiveSlots(storage') # Slots(storage')
    <3>1. Cardinality(LiveSlots(into)) < into.size
      BY <2>0, <2>3, <1>2, <1>7, LiveCount DEF IsTable
    <3> QED
      BY <3>1, <2>0, <1>2, NotFull
  <2>6. phase' # "reinsert"
    BY <1>1
  <2> QED
    BY <2>1, <2>2, <2>4, <2>5, <2>6, <1>1 DEF IntactInv
<1>13. IInv'
  BY <1>1, <1>8, <1>9, <1>10, <1>12 DEF IInv
<1>14. ASSUME intact PROVE Abstract!Grow
  <2>1. storage' = into
    BY <1>1, <1>7, <1>14
  <2>2. Found' = [k \in Key |-> Lookup(into, k)]
    BY <2>1 DEF Found
  <2>3. \A k \in Key : Lookup(into, k) \in Value \union {NoValue}
    BY <1>2, LookupType
  <2>4. Found' \in [Key -> Value \union {NoValue}]
    BY <2>2, <2>3
  <2>5. Chain(storage, Key)
    BY <1>14, GenuineIsKey DEF IInv
  <2>6. ASSUME NEW k \in Key
        PROVE  IF Found[k] = NoValue THEN Found'[k] = NoValue
                                     ELSE Found'[k] \in older[k] \union {Found[k]}
    <3>1. Found[k] = Lookup(storage, k) /\ Found'[k] = Lookup(into, k)
      BY <2>2 DEF Found
    <3>2. Lookup(storage, k) # NoValue <=> \E j \in LiveSlots(storage) : storage.item[j].key = k
      BY <2>5, <1>2, LookupIffLive DEF Chain
    <3>3. Lookup(into, k) # NoValue <=> \E i \in LiveSlots(into) : into.item[i].key = k
      BY <1>2, LookupIffLive DEF Chain
    <3>4. Lookup(storage, k) # NoValue <=> Lookup(into, k) # NoValue
      BY <3>2, <3>3, <1>7, <1>14 DEF Moved
    <3>5. ASSUME Lookup(into, k) # NoValue
          PROVE  Lookup(into, k) \in older[k] \union {Lookup(storage, k)}
      <4>1. PICK o \in Slots(into) : FindsAt(into, k, o)
        BY <3>5, LookupFails
      <4> DEFINE i == Place(into, k, o)
      <4>2. i \in LiveSlots(into) /\ into.item[i].key = k /\ Lookup(into, k) = into.item[i].value
        BY <4>1, <1>2, FoundIsLive, LookupFinds
      <4> HIDE DEF i
      <4>3. PICK j \in LiveSlots(storage) :
              into.item[i].key = storage.item[j].key /\ into.item[i].value = storage.item[j].value
        BY <4>2, <1>7, <1>14 DEF Moved
      <4>4. CASE storage.item[j].value \in older[k]
        BY <4>2, <4>3, <4>4
      <4>5. CASE \E q \in Slots(storage) : FindsAt(storage, k, q) /\ Place(storage, k, q) = j
        BY <4>2, <4>3, <4>5, <1>2, LookupFinds
      <4> QED
        BY <4>2, <4>3, <4>4, <4>5, <1>7, <1>14 DEF CoveredKnown
    <3> QED
      BY <3>1, <3>4, <3>5
  <2> QED
    BY <2>4, <2>6, <1>1 DEF Abstract!Grow
<1>15. Abstracted
  <2>1. CASE intact
    BY <2>1, <1>14 DEF Abstracted, Abstract!Next
  <2>2. CASE ~ intact
    <3>1. intact' = FALSE
      BY <2>2, <1>1, Types DEF IInv
    <3> QED
      BY <3>1, IntactLost
  <2> QED
    BY <2>1, <2>2
<1> QED
  BY <1>13, <1>15

-----------------------------------------------------------------------------
(* The theorems                                                            *)

LEMMA InitInv == Init => IInv /\ Abstract!Init
<1> SUFFICES ASSUME Init PROVE IInv /\ Abstract!Init
  OBVIOUS
<1>1. PICK n \in Buckets : storage = Storage(n) /\ capacity = n
  BY DEF Init
<1>2. /\ used = 0 /\ phase = "idle" /\ into = Storage(1) /\ next = 0 /\ request = NoRequest
      /\ older = [k \in Key |-> {}] /\ holes = FALSE /\ intact = TRUE
  BY DEF Init
<1>3. n \in Nat \ {0}
  BY SizesAssumption
<1>4. /\ IsTable(storage) /\ storage.size = n /\ LiveSlots(storage) = {}
      /\ Cardinality(LiveSlots(storage)) = 0
      /\ (\A K : Chain(storage, K)) /\ NoneDeleted(storage)
      /\ \A k \in Key : Lookup(storage, k) = NoValue
  BY <1>1, <1>3, EmptyTable
<1>5. /\ IsTable(into) /\ Chain(into, Key)
      /\ \A i \in Slots(into) : into.item[i] = Free
  BY <1>2, EmptyTable
<1>6. TypeOK
  <2>1. /\ request.key \in Key /\ request.value \in Value
        /\ request.upsert \in BOOLEAN /\ request.none \in BOOLEAN
    BY <1>2, KeyAssumption, ValueAssumption DEF NoRequest
  <2>2. /\ capacity \in Nat /\ storage.size <= capacity /\ used \in Int /\ next \in 0 .. storage.size
    BY <1>1, <1>2, <1>3, <1>4
  <2>3. older \in [Key -> SUBSET Value] /\ holes \in BOOLEAN /\ intact \in BOOLEAN
        /\ phase \in {"idle", "reinsert", "insert"}
    BY <1>2
  <2> QED
    BY <2>1, <2>2, <2>3, <1>4, <1>5, Types
<1>7. IntactInv
  BY <1>2, <1>4 DEF IntactInv, CoveredKnown, Counted
<1>8. IInv
  BY <1>4, <1>5, <1>6, <1>7 DEF IInv
<1>9. Found = [k \in Key |-> NoValue]
  BY <1>4 DEF Found
<1>10. Abstract!Init
  BY <1>2, <1>9 DEF Abstract!Init
<1> QED
  BY <1>8, <1>10

LEMMA StepInv == IInv /\ [Next]_vars => IInv' /\ Abstracted
<1> SUFFICES ASSUME IInv, [Next]_vars PROVE IInv' /\ Abstracted
  OBVIOUS
<1>1. ASSUME NEW k \in Key, NEW v \in Value, NEW upsert \in BOOLEAN, Insert(k, v, upsert)
      PROVE  IInv' /\ Abstracted
  BY <1>1, InsertStep
<1>2. ASSUME NEW k \in Key, NEW v \in Value, NEW upsert \in BOOLEAN, InsertAndGrow(k, v, upsert)
      PROVE  IInv' /\ Abstracted
  <2> DEFINE r == [key |-> k, value |-> v, upsert |-> upsert, none |-> FALSE]
  <2>1. 2 * storage.size \in Nat \ {0} /\ Rebuild(2 * storage.size, r)
    BY <1>2, SizesAssumption DEF InsertAndGrow
  <2>2. r.key \in Key /\ r.value \in Value /\ r.upsert \in BOOLEAN /\ r.none \in BOOLEAN
    OBVIOUS
  <2> QED
    BY <2>1, <2>2, RebuildStep
<1>3. ASSUME NEW k \in Key, Remove(k) PROVE IInv' /\ Abstracted
  BY <1>3, RemoveStep
<1>4. ASSUME NEW n \in Sizes, Resize(n) PROVE IInv' /\ Abstracted
  <2>1. n \in Nat \ {0} /\ Rebuild(n, NoRequest)
    BY <1>4, SizesAssumption DEF Resize
  <2>2. NoRequest.key \in Key /\ NoRequest.value \in Value
        /\ NoRequest.upsert \in BOOLEAN /\ NoRequest.none \in BOOLEAN
    BY KeyAssumption, ValueAssumption DEF NoRequest
  <2> QED
    BY <2>1, <2>2, RebuildStep
<1>5. CASE UNCHANGED vars
  <2>1. UNCHANGED <<storage, capacity, used, phase, into, next, request, older, holes, intact>>
    BY <1>5 DEF vars, rebuildVars, ghosts
  <2>2. TypeOK' /\ Chain(storage, Genuine)' /\ Chain(into, Key)'
    BY <2>1 DEF IInv, TypeOK, Chain, Genuine, Reachable, LiveSlots, Slots, Place, At
  <2>3. (intact => IntactInv)'
    BY <2>1 DEF IInv, IntactInv, CoveredKnown, Moved, SeenLive, Counted
  <2>4. IInv'
    BY <2>1, <2>2, <2>3 DEF IInv
  <2> QED
    BY <2>1, <2>4 DEF Abstracted, Found
<1> QED
  BY <1>1, <1>2, <1>3, <1>4, <1>5, ReinsertStep, AdoptStep, InsertPendingStep, ClearStep DEF Next

(* The types, for every number of slots (lines 71-123).                   *)
THEOREM TypeCorrect == Spec => []TypeOK
<1>1. IInv => TypeOK
  BY DEF IInv
<1> QED
  BY <1>1, InitInv, StepInv, PTL DEF Spec

(* No item is cut off from the home of its key (_find, lines 218-240).     *)
THEOREM ChainsHold == Spec => []ProbeChain
<1>1. IInv => ProbeChain
  <2> SUFFICES ASSUME IInv, NEW t \in {storage, into}, NEW i \in LiveSlots(t),
                      intact \/ t.item[i].key # DefaultKey
               PROVE  Reachable(t, i)
    BY DEF ProbeChain
  <2>1. IsTable(t) /\ t.item[i].key \in Key
    BY Types, ItemAt DEF IInv, LiveSlots, Item
  <2> QED
    BY <2>1 DEF IInv, Chain, Genuine
<1> QED
  BY <1>1, InitInv, StepInv, PTL DEF Spec

(* An insertion finds a slot (track_insert, lines 244-251).                *)
THEOREM AlwaysRoom == Spec => []RoomToInsert
<1>1. IInv => RoomToInsert
  <2> SUFFICES ASSUME IInv, intact, phase = "insert" \/ (phase = "idle" /\ ~ Loaded)
               PROVE  LiveSlots(storage) # Slots(storage)
    BY DEF RoomToInsert
  <2>1. CASE phase = "insert"
    BY <2>1 DEF IInv, IntactInv
  <2>2. CASE ~ Loaded
    <3>1. IsTable(storage) /\ used \in Int /\ Cardinality(LiveSlots(storage)) <= used
      BY Types DEF IInv, IntactInv, Counted
    <3>2. Cardinality(LiveSlots(storage)) < storage.size
      BY <3>1, <2>2, LiveCount DEF Loaded, IsTable
    <3> QED
      BY <3>1, <3>2, NotFull
  <2> QED
    BY <2>1, <2>2
<1> QED
  BY <1>1, InitInv, StepInv, PTL DEF Spec

(* get() answers as Dictionary does (lines 130-155, 254-283).              *)
THEOREM ImplementsDictionary == Spec => IsDictionary
<1>1. Init => Abstract!Init
  BY InitInv
<1>2. IInv /\ [Next]_vars => [Abstract!Next]_(Abstract!vars)
  BY StepInv DEF Abstracted, Abstract!vars
<1> QED
  BY <1>1, <1>2, InitInv, StepInv, PTL DEF Spec, IsDictionary, Abstract!Spec
=============================================================================
