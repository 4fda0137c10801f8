----------------------------- MODULE NamesProofs -----------------------------
(* Theorems about StringDatabase, for every number of threads, references  *)
(* and texts and every block size.                                         *)
EXTENDS StringDatabase, SequenceTheorems, FiniteSetTheorems, TLAPS

-----------------------------------------------------------------------------
(* Where an entry is stored.                                               *)

LEMMA Division ==
  ASSUME NEW i \in Nat
  PROVE  /\ i \div BlockSize \in Nat
         /\ i % BlockSize \in 0 .. BlockSize - 1
         /\ i = BlockSize * (i \div BlockSize) + (i % BlockSize)
BY BlockSizeAssumption, Z3

(* Two numbers with the same block and index are the same.                 *)
LEMMA Apart ==
  ASSUME NEW i \in Nat, NEW j \in Nat, BlockOf(i) = BlockOf(j), IndexOf(i) = IndexOf(j)
  PROVE  i = j
<1>1. i \div BlockSize = j \div BlockSize /\ i % BlockSize = j % BlockSize
  BY Division, BlockSizeAssumption DEF BlockOf, IndexOf
<1> QED
  BY <1>1, Division

LEMMA Product ==
  ASSUME NEW m \in Nat, NEW n \in Nat, m > n
  PROVE  BlockSize * m >= BlockSize * n + BlockSize
BY BlockSizeAssumption, Z3

(* The quotient and remainder are known from any decomposition.            *)
LEMMA DivisionUnique ==
  ASSUME NEW q \in Nat, NEW r \in 0 .. BlockSize - 1
  PROVE  /\ (BlockSize * q + r) \div BlockSize = q
         /\ (BlockSize * q + r) % BlockSize = r
<1> DEFINE i == BlockSize * q + r
<1>1. i \in Nat
  BY BlockSizeAssumption, Z3
<1> DEFINE p == i \div BlockSize
           u == i % BlockSize
<1>2. p \in Nat /\ u \in 0 .. BlockSize - 1 /\ i = BlockSize * p + u
  BY <1>1, Division
<1>a. BlockSize * p \in Nat /\ BlockSize * q \in Nat
  BY <1>2, BlockSizeAssumption, Z3
<1>3. i = BlockSize * q + r
  OBVIOUS
<1> HIDE DEF i, p, u
<1>4. ~(p > q)
  BY <1>2, <1>3, <1>a, Product, BlockSizeAssumption
<1>5. ~(q > p)
  BY <1>2, <1>3, <1>a, Product, BlockSizeAssumption
<1>6. p = q
  BY <1>2, <1>4, <1>5
<1>7. u = r
  BY <1>2, <1>3, <1>6, <1>a, BlockSizeAssumption
<1> QED
  BY <1>6, <1>7 DEF p, u, i

-----------------------------------------------------------------------------
(* The blocks: every one but the last is full, none has grown, and `size`  *)
(* counts their entries.                                                   *)

Entry == [data : AnyText, in_use : Int]
Block == [entries : Seq(Entry), capacity : Nat]

Counted == size = BlockSize * (Len(blocks) - 1) + Len(blocks[Len(blocks)].entries)

Layout ==
  /\ blocks \in Seq(Block)
  /\ Len(blocks) >= 1
  /\ \A k \in 1 .. Len(blocks) :
        /\ blocks[k].capacity = BlockSize
        /\ Len(blocks[k].entries) \in 1 .. BlockSize
        /\ k < Len(blocks) => Len(blocks[k].entries) = BlockSize
  /\ Counted

LEMMA BlockAt ==
  ASSUME Layout, NEW k \in 1 .. Len(blocks)
  PROVE  /\ blocks[k] \in Block
         /\ blocks[k].entries \in Seq(Entry)
         /\ blocks[k].capacity \in Nat
<1>1. blocks[k] \in Block
  BY ElementOfSeq DEF Layout
<1> QED
  BY <1>1 DEF Block

LEMMA SizeIsNat == Layout => size \in Nat \ {0}
<1> SUFFICES ASSUME Layout PROVE size \in Nat \ {0}
  OBVIOUS
<1> DEFINE n == Len(blocks) - 1
           m == Len(blocks[Len(blocks)].entries)
<1>1. n \in Nat /\ m \in 1 .. BlockSize
  BY DEF Layout
<1>2. size = BlockSize * n + m
  BY DEF Layout, Counted
<1> HIDE DEF n, m
<1>3. BlockSize * n \in Nat
  BY <1>1, BlockSizeAssumption, Z3
<1> QED
  BY <1>1, <1>2, <1>3, BlockSizeAssumption

(* Every id below `size` is the id of a stored entry.                      *)
LEMMA Place ==
  ASSUME Layout, NEW i \in Ids
  PROVE  /\ i \in Nat
         /\ BlockOf(i) \in 1 .. Len(blocks)
         /\ IndexOf(i) \in 1 .. Len(blocks[BlockOf(i)].entries)
<1> DEFINE n == Len(blocks) - 1
           m == Len(blocks[Len(blocks)].entries)
           q == i \div BlockSize
           r == i % BlockSize
<1>1. n \in Nat /\ m \in 1 .. BlockSize /\ size = BlockSize * n + m
  BY DEF Layout, Counted
<1>2. i \in Nat /\ i < size
  BY SizeIsNat DEF Ids
<1>3. q \in Nat /\ r \in 0 .. BlockSize - 1 /\ i = BlockSize * q + r
  BY <1>2, Division
<1>4. BlockOf(i) = q + 1 /\ IndexOf(i) = r + 1
  BY DEF BlockOf, IndexOf
<1> HIDE DEF m, q, r, n
<1>5. BlockSize * q \in Nat /\ BlockSize * n \in Nat
  BY <1>1, <1>3, BlockSizeAssumption, Z3
<1>6. ~(q > n)
  BY <1>1, <1>2, <1>3, <1>5, Product, BlockSizeAssumption
<1>7. q + 1 \in 1 .. Len(blocks)
  BY <1>1, <1>3, <1>6 DEF Layout, n
<1>8. r + 1 \in 1 .. Len(blocks[q + 1].entries)
  <2>1. CASE q = n
    <3>1. r + 1 <= m
      BY <1>1, <1>2, <1>3, <1>5, <2>1
    <3>2. blocks[q + 1] = blocks[Len(blocks)]
      BY <2>1 DEF n, Layout
    <3> QED
      BY <1>3, <1>1, <3>1, <3>2, BlockSizeAssumption DEF m
  <2>2. CASE q # n
    <3>1. q + 1 < Len(blocks)
      BY <1>1, <1>3, <1>6, <2>2 DEF n, Layout
    <3>2. Len(blocks[q + 1].entries) = BlockSize
      BY <1>7, <3>1 DEF Layout
    <3> QED
      BY <1>3, <3>2, BlockSizeAssumption
  <2> QED
    BY <2>1, <2>2
<1> QED
  BY <1>2, <1>4, <1>7, <1>8

(* inc and dec change one counter and nothing else.                        *)
LEMMA UseKeepsLayout ==
  ASSUME Layout, NEW i \in Ids, NEW d \in Int, blocks' = Use(blocks, i, d), size' = size
  PROVE  /\ Layout'
         /\ \A j \in Ids : /\ Get(j)'.data = Get(j).data
                           /\ Get(j)'.in_use = Get(j).in_use + IF j = i /\ i # 0 THEN d ELSE 0
         /\ Len(blocks') = Len(blocks)
         /\ \A k \in 1 .. Len(blocks) :
               /\ blocks'[k].capacity = blocks[k].capacity
               /\ Len(blocks'[k].entries) = Len(blocks[k].entries)
               /\ \A e \in 1 .. Len(blocks[k].entries) :
                     blocks'[k].entries[e].data = blocks[k].entries[e].data
<1>0. \A j \in Ids : /\ BlockOf(j) \in 1 .. Len(blocks)
                     /\ IndexOf(j) \in 1 .. Len(blocks[BlockOf(j)].entries)
                     /\ Get(j) = blocks[BlockOf(j)].entries[IndexOf(j)]
                     /\ Get(j) \in Entry
  <2> SUFFICES ASSUME NEW j \in Ids
               PROVE  /\ BlockOf(j) \in 1 .. Len(blocks)
                      /\ IndexOf(j) \in 1 .. Len(blocks[BlockOf(j)].entries)
                      /\ Get(j) = blocks[BlockOf(j)].entries[IndexOf(j)]
                      /\ Get(j) \in Entry
    OBVIOUS
  <2>1. BlockOf(j) \in 1 .. Len(blocks) /\ IndexOf(j) \in 1 .. Len(blocks[BlockOf(j)].entries)
    BY Place
  <2>2. blocks[BlockOf(j)].entries \in Seq(Entry)
    BY <2>1, BlockAt
  <2>3. Get(j) = blocks[BlockOf(j)].entries[IndexOf(j)]
    BY <2>1 DEF Get, Layout
  <2> QED
    BY <2>1, <2>2, <2>3
<1>1. CASE i = 0
  <2>1. blocks' = blocks
    BY <1>1 DEF Use
  <2>2. Layout'
    BY <2>1 DEF Layout, Counted
  <2>3. \A j \in Ids : Get(j)' = Get(j)
    BY <2>1 DEF Get
  <2> QED
    BY <1>0, <1>1, <2>1, <2>2, <2>3 DEF Entry
<1>2. CASE i # 0
  <2> DEFINE b == BlockOf(i)
             x == IndexOf(i)
             new == [blocks[b].entries[x] EXCEPT !.in_use = @ + d]
             es == [blocks[b].entries EXCEPT ![x] = new]
             blk == [blocks[b] EXCEPT !.entries = es]
  <2>1. blocks' = [blocks EXCEPT ![b] = blk]
    BY <1>2 DEF Use
  <2>2. b \in 1 .. Len(blocks) /\ x \in 1 .. Len(blocks[b].entries)
    BY <1>0
  <2>3. blocks[b] \in Block /\ blocks[b].entries[x] \in Entry
    BY <2>2, BlockAt, ElementOfSeq
  <2>4. new \in Entry /\ new.data = blocks[b].entries[x].data
                      /\ new.in_use = blocks[b].entries[x].in_use + d
    BY <2>3 DEF Entry
  <2> HIDE DEF new
  <2>5. es \in Seq(Entry) /\ Len(es) = Len(blocks[b].entries)
        /\ es[x] = new /\ \A e \in 1 .. Len(es) : e # x => es[e] = blocks[b].entries[e]
    BY <2>2, <2>3, <2>4 DEF Block
  <2> HIDE DEF es
  <2>6. blk \in Block /\ blk.capacity = blocks[b].capacity /\ blk.entries = es
    BY <2>3, <2>5 DEF Block
  <2> HIDE DEF blk
  <2>7. blocks' \in Seq(Block) /\ Len(blocks') = Len(blocks) /\ blocks'[b] = blk
        /\ \A k \in 1 .. Len(blocks) : k # b => blocks'[k] = blocks[k]
    BY <2>1, <2>2, <2>6 DEF Layout
  <2>8. \A k \in 1 .. Len(blocks) :
               /\ blocks'[k].capacity = blocks[k].capacity
               /\ Len(blocks'[k].entries) = Len(blocks[k].entries)
               /\ \A e \in 1 .. Len(blocks[k].entries) :
                     blocks'[k].entries[e].data = blocks[k].entries[e].data
    BY <2>2, <2>4, <2>5, <2>6, <2>7
  <2>9. Layout'
    <3>1. Counted'
      BY <2>7, <2>8 DEF Layout, Counted
    <3> QED
      BY <2>7, <2>8, <3>1 DEF Layout
  <2>10. ASSUME NEW j \in Ids
         PROVE  /\ Get(j)'.data = Get(j).data
                /\ Get(j)'.in_use = Get(j).in_use + IF j = i /\ i # 0 THEN d ELSE 0
    <3>1. Get(j)' = blocks'[BlockOf(j)].entries[IndexOf(j)]
      BY <1>0, <2>7 DEF Get, BlockOf, IndexOf
    <3>2. CASE j = i
      BY <1>0, <1>2, <3>1, <3>2, <2>4, <2>5, <2>6, <2>7
    <3>3. CASE j # i
      <4>1. BlockOf(j) # b \/ IndexOf(j) # x
        BY <3>3, Place, Apart
      <4>2. Get(j)' = Get(j)
        BY <1>0, <3>1, <4>1, <2>5, <2>6, <2>7
      <4> QED
        BY <4>2, <1>0, <3>3 DEF Entry
    <3> QED
      BY <3>2, <3>3
  <2> QED
    BY <2>7, <2>8, <2>9, <2>10
<1> QED
  BY <1>1, <1>2

(* insert_string appends one entry, to the last block or to a new one: the *)
(* others do not move.                                                     *)
LEMMA InsertKeepsLayout ==
  ASSUME Layout, NEW x \in AnyText, blocks' = Inserted(x), size' = SizeAfter(size)
  PROVE  /\ Layout'
         /\ \A j \in Ids : Get(j)' = Get(j)
         /\ \A j \in {size} : Get(j)' = [data |-> x, in_use |-> 2]
         /\ Len(blocks) <= Len(blocks')
         /\ \A k \in 1 .. Len(blocks) :
               /\ blocks'[k].capacity = blocks[k].capacity
               /\ Len(blocks[k].entries) <= Len(blocks'[k].entries)
               /\ \A e \in 1 .. Len(blocks[k].entries) :
                     blocks'[k].entries[e] = blocks[k].entries[e]
<1> DEFINE n == Len(blocks)
           m == Len(blocks[n].entries)
           entry == [data |-> x, in_use |-> 2]
<1>1. n \in Nat \ {0} /\ m \in 1 .. BlockSize
  BY DEF Layout
<1>a. size = BlockSize * (n - 1) + m
  BY DEF Layout, Counted
<1>2. entry \in Entry
  BY DEF Entry
<1>3. \A j \in Ids : /\ BlockOf(j) \in 1 .. Len(blocks)
                     /\ IndexOf(j) \in 1 .. Len(blocks[BlockOf(j)].entries)
                     /\ Get(j) = blocks[BlockOf(j)].entries[IndexOf(j)]
  BY Place DEF Get, Layout
<1>4. blocks[n] \in Block /\ blocks[n].entries \in Seq(Entry) /\ blocks[n].capacity = BlockSize
  BY <1>1, BlockAt DEF Layout
<1>5. CASE m < BlockSize
  <2> DEFINE es == Append(blocks[n].entries, entry)
             blk == PushBack(blocks[n], entry)
  <2>1. es \in Seq(Entry) /\ Len(es) = m + 1 /\ es[m + 1] = entry
        /\ \A e \in 1 .. m : es[e] = blocks[n].entries[e]
    BY <1>2, <1>4, AppendProperties
  <2>2. blk.entries = es
    BY DEF PushBack
  <2>3. blk.capacity = BlockSize /\ blk \in Block
    BY <1>4, <1>5, <2>1, BlockSizeAssumption DEF PushBack, Block
  <2>4. blocks' = [blocks EXCEPT ![n] = blk]
    BY <1>4, <1>5 DEF Inserted, CurrentBlock
  <2> HIDE DEF es, blk, entry
  <2>5. blocks' \in Seq(Block) /\ Len(blocks') = n /\ blocks'[n] = blk
        /\ \A k \in 1 .. n : k # n => blocks'[k] = blocks[k]
    BY <1>1, <2>3, <2>4 DEF Layout
  <2>6. \A k \in 1 .. n :
               /\ blocks'[k].capacity = blocks[k].capacity
               /\ Len(blocks[k].entries) <= Len(blocks'[k].entries)
               /\ \A e \in 1 .. Len(blocks[k].entries) :
                     blocks'[k].entries[e] = blocks[k].entries[e]
    BY <1>1, <1>4, <2>1, <2>2, <2>3, <2>5 DEF Layout
  <2>7. Counted'
    <3> DEFINE a == BlockSize * (n - 1)
    <3>1. a \in Nat
      BY <1>1, BlockSizeAssumption, Z3
    <3>2. size = a + m
      BY <1>a
    <3>3. Len(blocks') - 1 = n - 1 /\ Len(blocks'[Len(blocks')].entries) = m + 1
      BY <1>1, <2>1, <2>2, <2>5
    <3>4. BlockSize * (Len(blocks') - 1) = a
      BY <3>3
    <3> HIDE DEF a
    <3>5. size' = a + (m + 1)
      BY <1>1, <3>1, <3>2, BlockSizeAssumption DEF SizeAfter
    <3> QED
      BY <3>3, <3>4, <3>5 DEF Counted
  <2>8. Layout'
    <3>1. Len(blk.entries) \in 1 .. BlockSize
      BY <1>1, <1>5, <2>1, <2>2, BlockSizeAssumption
    <3>2. \A k \in 1 .. n : /\ blocks'[k].capacity = BlockSize
                            /\ Len(blocks'[k].entries) \in 1 .. BlockSize
                            /\ k < n => Len(blocks'[k].entries) = BlockSize
      BY <1>1, <2>3, <2>5, <3>1 DEF Layout
    <3> QED
      BY <1>1, <2>5, <2>7, <3>2 DEF Layout
  <2>9. \A j \in Ids : Get(j)' = Get(j)
    BY <1>3, <2>5, <2>6 DEF Get, BlockOf, IndexOf
  <2>10. BlockOf(size) = n /\ IndexOf(size) = m + 1
    <3>1. n - 1 \in Nat /\ m \in 0 .. BlockSize - 1
      BY <1>1, <1>5, BlockSizeAssumption
    <3>2. size \div BlockSize = n - 1 /\ size % BlockSize = m
      BY <1>a, <3>1, DivisionUnique
    <3> QED
      BY <1>1, <3>2 DEF BlockOf, IndexOf
  <2>11. \A j \in {size} : Get(j)' = entry
    BY <1>1, <2>1, <2>2, <2>5, <2>10 DEF Get, BlockOf, IndexOf
  <2> QED
    BY <2>5, <2>6, <2>8, <2>9, <2>11 DEF entry
<1>6. CASE m = BlockSize
  <2> DEFINE es == Append(<<>>, entry)
             blk == PushBack(NewBlock, entry)
  <2>1. es \in Seq(Entry) /\ Len(es) = 1 /\ es[1] = entry
    BY <1>2
  <2>2. blk.entries = es
    BY DEF PushBack, NewBlock
  <2>3. blk.capacity = BlockSize /\ blk \in Block
    BY <2>1, BlockSizeAssumption DEF PushBack, NewBlock, Block
  <2>4. NewBlock \in Block
    BY BlockSizeAssumption DEF NewBlock, Block
  <2>5. CurrentBlock = Append(blocks, NewBlock)
    BY <1>4, <1>6 DEF CurrentBlock
  <2>6. CurrentBlock \in Seq(Block) /\ Len(CurrentBlock) = n + 1
        /\ CurrentBlock[n + 1] = NewBlock
        /\ \A k \in 1 .. n : CurrentBlock[k] = blocks[k]
    BY <2>4, <2>5, AppendProperties DEF Layout
  <2>7. blocks' = [CurrentBlock EXCEPT ![n + 1] = blk]
    BY <2>6 DEF Inserted
  <2> HIDE DEF es, blk, entry
  <2>8. blocks' \in Seq(Block) /\ Len(blocks') = n + 1 /\ blocks'[n + 1] = blk
        /\ \A k \in 1 .. n : blocks'[k] = blocks[k]
    <3> DEFINE c == CurrentBlock
    <3>1. n + 1 \in 1 .. Len(c) /\ c \in Seq(Block)
      BY <1>1, <2>6
    <3>2. blocks' = [c EXCEPT ![n + 1] = blk]
      BY <2>7
    <3> HIDE DEF c
    <3>3. blocks' \in Seq(Block) /\ Len(blocks') = Len(c)
          /\ \A j \in 1 .. Len(c) : blocks'[j] = IF j = n + 1 THEN blk ELSE c[j]
      BY <3>1, <3>2, <2>3, ExceptSeq
    <3> QED
      BY <1>1, <2>6, <3>1, <3>3 DEF c
  <2>9. Counted'
    <3> DEFINE a == BlockSize * (n - 1)
    <3>1. BlockSize * n = a + BlockSize
      BY <1>1, BlockSizeAssumption, Z3
    <3>2. a \in Nat /\ size = a + BlockSize
      BY <1>1, <1>a, <1>6, BlockSizeAssumption, Z3
    <3>3. size' = BlockSize * n + 1
      BY <3>1, <3>2 DEF SizeAfter
    <3>4. Len(blocks') - 1 = n /\ Len(blocks'[Len(blocks')].entries) = 1
      BY <1>1, <2>1, <2>2, <2>8
    <3> QED
      BY <3>3, <3>4 DEF Counted
  <2>10. Layout'
    <3>1. Len(blk.entries) = 1
      BY <2>1, <2>2
    <3>2. \A k \in 1 .. n : blocks[k].capacity = BlockSize /\ Len(blocks[k].entries) = BlockSize
      BY <1>1, <1>6 DEF Layout
    <3>3. \A k \in 1 .. n + 1 : /\ blocks'[k].capacity = BlockSize
                                /\ Len(blocks'[k].entries) \in 1 .. BlockSize
                                /\ k < n + 1 => Len(blocks'[k].entries) = BlockSize
      <4> TAKE k \in 1 .. n + 1
      <4>1. CASE k = n + 1
        <5>1. blocks'[k] = blk
          BY <2>8, <4>1
        <5>2. ~(k < n + 1) /\ 1 \in 1 .. BlockSize
          BY <1>1, <4>1, BlockSizeAssumption
        <5> QED
          BY <2>3, <3>1, <5>1, <5>2
      <4>2. CASE k # n + 1
        BY <1>1, <2>8, <3>2, <4>2, BlockSizeAssumption
      <4> QED
        BY <4>1, <4>2
    <3> QED
      BY <1>1, <2>8, <2>9, <3>3 DEF Layout
  <2>11. \A j \in Ids : Get(j)' = Get(j)
    BY <1>1, <1>3, <2>8 DEF Get, BlockOf, IndexOf
  <2>12. BlockOf(size) = n + 1 /\ IndexOf(size) = 1
    <3>1. size = BlockSize * n + 0
      BY <1>1, <1>a, <1>6, BlockSizeAssumption, Z3
    <3>2. 0 \in 0 .. BlockSize - 1
      BY BlockSizeAssumption
    <3> QED
      BY <1>1, <3>1, <3>2, DivisionUnique DEF BlockOf, IndexOf
  <2>13. \A j \in {size} : Get(j)' = entry
    BY <1>1, <2>1, <2>2, <2>8, <2>12 DEF Get, BlockOf, IndexOf
  <2> QED
    BY <1>1, <2>8, <2>10, <2>11, <2>13 DEF entry
<1> QED
  BY <1>1, <1>5, <1>6, BlockSizeAssumption

-----------------------------------------------------------------------------
(* The calls that are left to do, at every point of a member function.     *)

Do == {"release", "lookup", "test", "acquire", "hold", "drop"}

(* The slot still has to give up its reference.                            *)
Giving == {<<"release">>, <<"release", "lookup", "drop">>,
           <<"release", "test", "acquire", "test", "hold", "drop">>}

(* The slot has no reference yet, or no longer.                            *)
Vacant == {<<"lookup", "drop">>, <<"test", "acquire">>, <<"acquire">>,
           <<"test", "acquire", "test", "hold", "drop">>,
           <<"acquire", "test", "hold", "drop">>}

(* `arg` is the id of a reference that is to be copied.                    *)
Copying == {<<"release", "test", "acquire", "test", "hold", "drop">>,
            <<"test", "acquire">>, <<"acquire">>,
            <<"test", "acquire", "test", "hold", "drop">>,
            <<"acquire", "test", "hold", "drop">>,
            <<"test", "hold", "drop">>, <<"hold", "drop">>}

Todo == {<<>>, <<"drop">>} \union Giving \union Vacant \union Copying

LEMMA TodoType == Todo \subseteq Seq(Do)
<1>1. <<"drop">> \in Seq(Do)
  BY SMTT(20) DEF Do
<1>2. <<"release">> \in Seq(Do)
  BY SMTT(20) DEF Do
<1>3. <<"release", "lookup", "drop">> \in Seq(Do)
  BY SMTT(20) DEF Do
<1>4. <<"release", "test", "acquire", "test", "hold", "drop">> \in Seq(Do)
  BY SMTT(20) DEF Do
<1>5. <<"lookup", "drop">> \in Seq(Do)
  BY SMTT(20) DEF Do
<1>6. <<"test", "acquire">> \in Seq(Do)
  BY SMTT(20) DEF Do
<1>7. <<"acquire">> \in Seq(Do)
  BY SMTT(20) DEF Do
<1>8. <<"test", "acquire", "test", "hold", "drop">> \in Seq(Do)
  BY SMTT(20) DEF Do
<1>9. <<"acquire", "test", "hold", "drop">> \in Seq(Do)
  BY SMTT(20) DEF Do
<1>10. <<"test", "hold", "drop">> \in Seq(Do)
  BY SMTT(20) DEF Do
<1>11. <<"hold", "drop">> \in Seq(Do)
  BY SMTT(20) DEF Do
<1> QED
  BY <1>1, <1>2, <1>3, <1>4, <1>5, <1>6, <1>7, <1>8, <1>9, <1>10, <1>11, EmptySeq DEF Todo, Giving, Vacant, Copying

(* What the first call tells of where the member function is.              *)
LEMMA TodoSteps ==
  ASSUME NEW td \in Todo, td # <<>>
  PROVE  /\ Tail(td) \in Todo
         /\ Tail(td) \notin Giving
         /\ Len(td) = 1 <=> Tail(td) = <<>>
         /\ Head(td) = "release" =>
              td \in Giving /\ (Len(td) = 1 \/ Tail(td) \in Vacant)
              /\ (Tail(td) \in Copying => td \in Copying) /\ Tail(td) # <<"drop">>
         /\ Head(td) = "lookup" => td \in Vacant /\ Tail(td) = <<"drop">>
         /\ Head(td) = "test" =>
              td \in Copying /\ Tail(td) \in Copying /\ (td \in Vacant <=> Tail(td) \in Vacant)
              /\ Tail(td) # <<"drop">>
         /\ Head(td) = "acquire" =>
              td \in Copying /\ td \in Vacant /\ Tail(td) \notin Vacant
              /\ (Len(td) = 1 \/ Tail(td) \in Copying) /\ Tail(td) # <<"drop">>
         /\ Head(td) = "hold" => td \in Copying /\ td \notin Vacant /\ Tail(td) = <<"drop">>
         /\ Head(td) = "drop" => td = <<"drop">>
<1>1. CASE td = <<"drop">>
  <2>1. Head(td) = "drop" /\ Tail(td) = <<>> /\ Len(td) = 1
    BY <1>1
  <2> QED
    BY <1>1, <2>1 DEF Todo, Giving, Vacant, Copying
<1>2. CASE td = <<"release">>
  <2>1. Head(td) = "release" /\ Tail(td) = <<>> /\ Len(td) = 1
    BY <1>2
  <2> QED
    BY <1>2, <2>1 DEF Todo, Giving, Vacant, Copying
<1>3. CASE td = <<"release", "lookup", "drop">>
  <2>1. Head(td) = "release" /\ Tail(td) = <<"lookup", "drop">> /\ Len(td) = 3
    BY <1>3
  <2> QED
    BY <1>3, <2>1 DEF Todo, Giving, Vacant, Copying
<1>4. CASE td = <<"release", "test", "acquire", "test", "hold", "drop">>
  <2>1. Head(td) = "release" /\ Tail(td) = <<"test", "acquire", "test", "hold", "drop">> /\ Len(td) = 6
    BY <1>4
  <2> QED
    BY <1>4, <2>1 DEF Todo, Giving, Vacant, Copying
<1>5. CASE td = <<"lookup", "drop">>
  <2>1. Head(td) = "lookup" /\ Tail(td) = <<"drop">> /\ Len(td) = 2
    BY <1>5
  <2> QED
    BY <1>5, <2>1 DEF Todo, Giving, Vacant, Copying
<1>6. CASE td = <<"test", "acquire">>
  <2>1. Head(td) = "test" /\ Tail(td) = <<"acquire">> /\ Len(td) = 2
    BY <1>6
  <2> QED
    BY <1>6, <2>1 DEF Todo, Giving, Vacant, Copying
<1>7. CASE td = <<"acquire">>
  <2>1. Head(td) = "acquire" /\ Tail(td) = <<>> /\ Len(td) = 1
    BY <1>7
  <2> QED
    BY <1>7, <2>1 DEF Todo, Giving, Vacant, Copying
<1>8. CASE td = <<"test", "acquire", "test", "hold", "drop">>
  <2>1. Head(td) = "test" /\ Tail(td) = <<"acquire", "test", "hold", "drop">> /\ Len(td) = 5
    BY <1>8
  <2> QED
    BY <1>8, <2>1 DEF Todo, Giving, Vacant, Copying
<1>9. CASE td = <<"acquire", "test", "hold", "drop">>
  <2>1. Head(td) = "acquire" /\ Tail(td) = <<"test", "hold", "drop">> /\ Len(td) = 4
    BY <1>9
  <2> QED
    BY <1>9, <2>1 DEF Todo, Giving, Vacant, Copying
<1>10. CASE td = <<"test", "hold", "drop">>
  <2>1. Head(td) = "test" /\ Tail(td) = <<"hold", "drop">> /\ Len(td) = 3
    BY <1>10
  <2> QED
    BY <1>10, <2>1 DEF Todo, Giving, Vacant, Copying
<1>11. CASE td = <<"hold", "drop">>
  <2>1. Head(td) = "hold" /\ Tail(td) = <<"drop">> /\ Len(td) = 2
    BY <1>11
  <2> QED
    BY <1>11, <2>1 DEF Todo, Giving, Vacant, Copying
<1> QED
  BY <1>1, <1>2, <1>3, <1>4, <1>5, <1>6, <1>7, <1>8, <1>9, <1>10, <1>11 DEF Todo, Giving, Vacant, Copying

-----------------------------------------------------------------------------
(* The inductive invariant: `defined` is the inverse of the entries, what  *)
(* a reference and its text say agrees with it, and a thread that copies   *)
(* an id knows a size above it, so that its unlocked test passes.          *)

Named(x, i) == x \in DOMAIN defined /\ defined[x] = i

Defined ==
  /\ Named(Empty, 0)
  /\ \A x \in DOMAIN defined : Get(defined[x]).data = x
  /\ \A x \in Text \ DOMAIN defined : forgotten[x] = 0

References ==
  \A s \in alive : Named(text[s], ref[s]) /\ ref[s] < seen[Owner[s]]

CallAgrees(t, c) ==
  /\ c.todo \in Todo
  /\ c.todo # <<>> => Owner[c.slot] = t
  /\ c.todo \in Giving => c.slot \in alive
  /\ c.todo \in Vacant => c.slot \notin alive
  /\ c.todo \in Copying => Named(c.name, c.arg) /\ c.arg < seen[t]
  /\ c.todo # <<"drop">> => c.temp = 0

Calls == \A t \in Thread : CallAgrees(t, call[t])

IInv ==
  /\ TypeOK
  /\ Layout
  /\ Defined
  /\ References
  /\ Calls
  /\ InUseDrift

LEMMA IdleFacts ==
  /\ Idle.todo = <<>> /\ Idle.temp = 0
  /\ \E s \in Slot : Idle = [todo |-> <<>>, slot |-> s, arg |-> 0, name |-> Empty, temp |-> 0]
BY SlotAssumption DEF Idle

LEMMA TypeFacts ==
  ASSUME TypeOK
  PROVE  /\ size \in Nat \ {0} /\ Ids = 0 .. size - 1 /\ 0 \in Ids
         /\ \A x \in DOMAIN defined : defined[x] \in Ids /\ x \in AnyText
         /\ \A s \in Slot : ref[s] \in Ids /\ text[s] \in AnyText /\ Owner[s] \in Thread
         /\ alive \subseteq Slot
         /\ \A t \in Thread : /\ call[t].slot \in Slot /\ call[t].arg \in Ids
                              /\ call[t].name \in AnyText /\ call[t].temp \in Ids
                              /\ seen[t] \in 1 .. size
<1>1. size \in Nat \ {0} /\ Ids = 0 .. size - 1 /\ 0 \in Ids
  BY DEF TypeOK, Ids
<1>2. \A x \in DOMAIN defined : defined[x] \in Ids /\ x \in AnyText
  BY DEF TypeOK
<1>3. \A s \in Slot : ref[s] \in Ids /\ text[s] \in AnyText /\ Owner[s] \in Thread
  BY OwnerAssumption DEF TypeOK
<1>4. \A t \in Thread : /\ call[t].slot \in Slot /\ call[t].arg \in Ids
                        /\ call[t].name \in AnyText /\ call[t].temp \in Ids
                        /\ seen[t] \in 1 .. size
  BY DEF TypeOK
<1> QED
  BY <1>1, <1>2, <1>3, <1>4 DEF TypeOK

(* A thread in a call: what it does next tells how far it is.              *)
LEMMA AtCall ==
  ASSUME Calls, NEW t \in Thread, NEW what, Doing(t, what)
  PROVE  /\ call[t].todo \in Todo /\ call[t].todo # <<>> /\ Head(call[t].todo) = what
         /\ Owner[call[t].slot] = t /\ CallAgrees(t, call[t])
BY DEF Calls, CallAgrees, Doing

(* The call after a step.                                                  *)
LEMMA AfterStep ==
  ASSUME TypeOK, Calls, NEW t \in Thread, call[t].todo # <<>>, NEW a, NEW v, Step(t, a, v)
  PROVE  /\ \A u \in Thread : u # t => call'[u] = call[u]
         /\ Tail(call[t].todo) = <<>> => call'[t] = Idle
         /\ Tail(call[t].todo) # <<>> =>
              call'[t] = [todo |-> Tail(call[t].todo), slot |-> call[t].slot,
                          arg |-> a, name |-> call[t].name, temp |-> v]
<1>1. call \in [Thread -> [todo : Seq(Do), slot : Slot, arg : Ids, name : AnyText, temp : Ids]]
  BY DEF TypeOK, Do
<1>2. call[t].todo \in Todo
  BY DEF Calls, CallAgrees
<1>3. Len(call[t].todo) = 1 <=> Tail(call[t].todo) = <<>>
  BY <1>2, TodoSteps
<1>4. \A u \in Thread : u # t => call'[u] = call[u]
  BY <1>1 DEF Step
<1>5. call'[t] = IF Len(call[t].todo) = 1 THEN Idle
                 ELSE [todo |-> Tail(call[t].todo), slot |-> call[t].slot,
                       arg |-> a, name |-> call[t].name, temp |-> v]
  BY <1>1 DEF Step
<1> QED
  BY <1>3, <1>4, <1>5

(* One thread has moved on: what has to be checked for it alone.           *)
LEMMA CallsAfter ==
  ASSUME TypeOK, Calls, NEW t \in Thread, size' \in Nat, seen' \in [Thread -> 1 .. size'],
         \A u \in Thread : u # t => call'[u] = call[u],
         CallAgrees(t, call[t])',
         \A x \in DOMAIN defined : x \in DOMAIN defined' /\ defined'[x] = defined[x],
         \A u \in Thread : seen[u] <= seen'[u],
         \A s \in Slot : Owner[s] # t => (s \in alive <=> s \in alive')
  PROVE  Calls'
<1> SUFFICES ASSUME NEW u \in Thread, u # t PROVE CallAgrees(u, call[u])'
  BY DEF Calls
<1>1. call'[u] = call[u] /\ CallAgrees(u, call[u])
  BY DEF Calls
<1>2. call[u].slot \in Slot /\ seen[u] \in Nat /\ seen'[u] \in Nat /\ call[u].arg \in Nat
  <2>1. call[u].slot \in Slot /\ seen[u] \in Nat /\ call[u].arg \in Nat
    BY TypeFacts
  <2>2. seen'[u] \in Nat
    OBVIOUS
  <2> QED
    BY <2>1, <2>2
<1>3. call[u].todo # <<>> => (call[u].slot \in alive <=> call[u].slot \in alive')
  BY <1>1, <1>2 DEF CallAgrees
<1>4. <<>> \notin Giving /\ <<>> \notin Vacant
  BY DEF Giving, Vacant
<1>5. ASSUME call[u].todo \in Copying
      PROVE  Named(call[u].name, call[u].arg)' /\ call[u].arg < seen'[u]
  <2>1. call[u].name \in DOMAIN defined /\ defined[call[u].name] = call[u].arg
        /\ call[u].arg < seen[u]
    BY <1>1, <1>5 DEF CallAgrees, Named
  <2>2. Named(call[u].name, call[u].arg)'
    BY <1>1, <2>1 DEF Named
  <2> QED
    BY <1>2, <2>1, <2>2
<1> QED
  BY <1>1, <1>3, <1>4, <1>5 DEF CallAgrees

(* What every step of a call does to `call`.                               *)
LEMMA Progress ==
  ASSUME TypeOK, Calls, size' \in Nat, size <= size',
         NEW t \in Thread, call[t].todo # <<>>,
         NEW a, NEW v, a \in Ids', v \in Ids', Step(t, a, v),
         Tail(call[t].todo) \in Vacant => call[t].slot \notin alive',
         Tail(call[t].todo) \in Copying =>
           call[t].name \in DOMAIN defined' /\ defined'[call[t].name] = a /\ a < seen'[t],
         Tail(call[t].todo) # <<"drop">> => v = 0,
         \A x \in DOMAIN defined : x \in DOMAIN defined' /\ defined'[x] = defined[x],
         seen' \in [Thread -> 1 .. size'],
         \A u \in Thread : seen[u] <= seen'[u],
         \A s \in Slot : s # call[t].slot => (s \in alive <=> s \in alive')
  PROVE  /\ call' \in [Thread -> [todo : Seq(Do), slot : Slot, arg : Ids',
                                  name : AnyText, temp : Ids']]
         /\ Calls'
         /\ call'[t].temp = v
         /\ \A u \in Thread : u # t => call'[u].temp = call[u].temp
<1> DEFINE tl == Tail(call[t].todo)
<1>1. call \in [Thread -> [todo : Seq(Do), slot : Slot, arg : Ids, name : AnyText, temp : Ids]]
  BY DEF TypeOK, Do
<1>2. call[t].todo \in Todo /\ Owner[call[t].slot] = t
  BY DEF Calls, CallAgrees
<1>3. tl \in Todo /\ tl \notin Giving
  BY <1>2, TodoSteps
<1>4. Ids \subseteq Ids' /\ 0 \in Ids'
  BY DEF Ids, TypeOK
<1>5. /\ \A u \in Thread : u # t => call'[u] = call[u]
      /\ tl = <<>> => call'[t] = Idle
      /\ tl # <<>> => call'[t] = [todo |-> tl, slot |-> call[t].slot,
                                  arg |-> a, name |-> call[t].name, temp |-> v]
  BY AfterStep
<1>6. call' = [call EXCEPT ![t] = call'[t]]
  BY <1>1 DEF Step
<1> HIDE DEF tl
<1> DEFINE Rec == [todo : Seq(Do), slot : Slot, arg : Ids', name : AnyText, temp : Ids']
<1>7. call'[t] \in Rec
  <2>1. CASE tl = <<>>
    <3>1. <<>> \in Seq(Do)
      OBVIOUS
    <3> QED
      <4>1. PICK s \in Slot : Idle = [todo |-> <<>>, slot |-> s, arg |-> 0, name |-> Empty, temp |-> 0]
        BY IdleFacts
      <4>2. Empty \in AnyText
        BY DEF AnyText
      <4>3. Idle \in Rec
        BY <1>4, <3>1, <4>1, <4>2
      <4> QED
        BY <1>5, <2>1, <4>3
  <2>2. CASE tl # <<>>
    <3>1. tl \in Seq(Do)
      BY <1>3, TodoType
    <3> QED
      BY <1>1, <1>5, <2>2, <3>1
  <2> QED
    BY <2>1, <2>2
<1>8. \A u \in Thread : call[u] \in Rec
  BY <1>1, <1>4
<1>9. call' \in [Thread -> Rec]
  BY <1>1, <1>6, <1>7, <1>8
<1>10. call'[t].temp = v
  <2>1. CASE tl = <<>>
    <3>0. <<>> # <<"drop">>
      OBVIOUS
    <3>1. v = 0
      BY <2>1, <3>0 DEF tl
    <3> QED
      BY <1>5, <2>1, <3>1, IdleFacts
  <2>2. CASE tl # <<>>
    BY <1>5, <2>2
  <2> QED
    BY <2>1, <2>2
<1>11. <<>> \notin Giving /\ <<>> \notin Vacant /\ <<>> \notin Copying /\ <<>> \in Todo
  BY DEF Giving, Vacant, Copying, Todo
<1>12. CallAgrees(t, call[t])'
  <2>1. CASE tl = <<>>
    BY <1>5, <1>11, <2>1, IdleFacts DEF CallAgrees
  <2>2. CASE tl # <<>>
    <3>1. call'[t].todo = tl /\ call'[t].slot = call[t].slot /\ call'[t].arg = a
          /\ call'[t].name = call[t].name /\ call'[t].temp = v
      BY <1>5, <2>2
    <3>2. tl \in Copying => Named(call[t].name, call[t].arg)'
      BY <3>1 DEF Named, tl
    <3>3. tl \in Copying => call'[t].arg < seen'[t]
      BY <3>1 DEF tl
    <3>4. tl \in Vacant => call'[t].slot \notin alive'
      BY <3>1 DEF tl
    <3>5. tl # <<"drop">> => call'[t].temp = 0
      BY <3>1 DEF tl
    <3> QED
      BY <1>2, <1>3, <3>1, <3>2, <3>3, <3>4, <3>5 DEF CallAgrees
  <2> QED
    BY <2>1, <2>2
<1>13. Calls'
  <2>1. \A u \in Thread : call[u].slot \in Slot
    BY <1>1
  <2>2. \A r \in Slot : Owner[r] # t => (r \in alive <=> r \in alive')
    BY <1>2
  <2> QED
    BY <1>5, <1>12, <2>2, CallsAfter
<1> QED
  BY <1>5, <1>9, <1>10, <1>13

-----------------------------------------------------------------------------
(* Counting the references to an entry.                                    *)

Holds(s, i) == IF s \in alive /\ ref[s] = i THEN 1 ELSE 0
Keeps(t, i) == IF call[t].temp = i THEN 1 ELSE 0

LEMMA SlotCount ==
  ASSUME alive \subseteq Slot, alive' \subseteq Slot, NEW s \in Slot, NEW i,
         \A r \in Slot : r # s => (r \in alive <=> r \in alive') /\ ref'[r] = ref[r]
  PROVE  /\ Cardinality({r \in alive : ref[r] = i}) \in Nat
         /\ Cardinality({r \in alive : ref[r] = i})'
              = Cardinality({r \in alive : ref[r] = i}) + Holds(s, i)' - Holds(s, i)
<1> DEFINE A == {r \in alive : ref[r] = i}
           B == {r \in alive' : ref'[r] = i}
           C == A \ {s}
<1>1. IsFiniteSet(A) /\ Cardinality(A) \in Nat
  BY SlotAssumption, FS_Subset, FS_CardinalityType
<1>2. IsFiniteSet(C) /\ Cardinality(C) = IF s \in A THEN Cardinality(A) - 1 ELSE Cardinality(A)
  BY <1>1, FS_RemoveElement
<1>3. s \notin C
  OBVIOUS
<1>4. Cardinality(C \cup {s}) = Cardinality(C) + 1
  BY <1>2, <1>3, FS_AddElement
<1>5. B = IF s \in B THEN C \cup {s} ELSE C
  OBVIOUS
<1>6. Holds(s, i) = IF s \in A THEN 1 ELSE 0
  BY DEF Holds
<1>7. Holds(s, i)' = IF s \in B THEN 1 ELSE 0
  BY DEF Holds
<1>8. Cardinality(A)' = Cardinality(B)
  OBVIOUS
<1> HIDE DEF A, B, C
<1>9. Cardinality(B) = Cardinality(A) + Holds(s, i)' - Holds(s, i)
  <2>1. CASE s \in A /\ s \in B
    <3>1. Cardinality(B) = Cardinality(C) + 1
      BY <1>4, <1>5, <2>1
    <3> QED
      BY <1>1, <1>2, <1>6, <1>7, <2>1, <3>1
  <2>2. CASE s \in A /\ s \notin B
    BY <1>1, <1>2, <1>5, <1>6, <1>7, <2>2
  <2>3. CASE s \notin A /\ s \in B
    <3>1. Cardinality(B) = Cardinality(C) + 1
      BY <1>4, <1>5, <2>3
    <3> QED
      BY <1>1, <1>2, <1>6, <1>7, <2>3, <3>1
  <2>4. CASE s \notin A /\ s \notin B
    BY <1>1, <1>2, <1>5, <1>6, <1>7, <2>4
  <2> QED
    BY <2>1, <2>2, <2>3, <2>4
<1> QED
  BY <1>1, <1>8, <1>9 DEF A, B

LEMMA TempCount ==
  ASSUME NEW t \in Thread, NEW i,
         \A u \in Thread : u # t => call'[u].temp = call[u].temp
  PROVE  /\ Cardinality({u \in Thread : call[u].temp = i}) \in Nat
         /\ Cardinality({u \in Thread : call[u].temp = i})'
              = Cardinality({u \in Thread : call[u].temp = i}) + Keeps(t, i)' - Keeps(t, i)
<1> DEFINE A == {u \in Thread : call[u].temp = i}
           B == {u \in Thread : call'[u].temp = i}
           C == A \ {t}
<1>1. IsFiniteSet(A) /\ Cardinality(A) \in Nat
  BY ThreadAssumption, FS_Subset, FS_CardinalityType
<1>2. IsFiniteSet(C) /\ Cardinality(C) = IF t \in A THEN Cardinality(A) - 1 ELSE Cardinality(A)
  BY <1>1, FS_RemoveElement
<1>3. t \notin C
  OBVIOUS
<1>4. Cardinality(C \cup {t}) = Cardinality(C) + 1
  BY <1>2, <1>3, FS_AddElement
<1>5. B = IF t \in B THEN C \cup {t} ELSE C
  OBVIOUS
<1>6. Keeps(t, i) = IF t \in A THEN 1 ELSE 0
  BY DEF Keeps
<1>7. Keeps(t, i)' = IF t \in B THEN 1 ELSE 0
  BY DEF Keeps
<1>8. Cardinality(A)' = Cardinality(B)
  OBVIOUS
<1> HIDE DEF A, B, C
<1>9. Cardinality(B) = Cardinality(A) + Keeps(t, i)' - Keeps(t, i)
  <2>1. CASE t \in A /\ t \in B
    <3>1. Cardinality(B) = Cardinality(C) + 1
      BY <1>4, <1>5, <2>1
    <3> QED
      BY <1>1, <1>2, <1>6, <1>7, <2>1, <3>1
  <2>2. CASE t \in A /\ t \notin B
    BY <1>1, <1>2, <1>5, <1>6, <1>7, <2>2
  <2>3. CASE t \notin A /\ t \in B
    <3>1. Cardinality(B) = Cardinality(C) + 1
      BY <1>4, <1>5, <2>3
    <3> QED
      BY <1>1, <1>2, <1>6, <1>7, <2>3, <3>1
  <2>4. CASE t \notin A /\ t \notin B
    BY <1>1, <1>2, <1>5, <1>6, <1>7, <2>4
  <2> QED
    BY <2>1, <2>2, <2>3, <2>4
<1> QED
  BY <1>1, <1>8, <1>9 DEF A, B

LEMMA HoldersChange ==
  ASSUME alive \subseteq Slot, alive' \subseteq Slot, NEW s \in Slot, NEW t \in Thread, NEW i,
         \A r \in Slot : r # s => (r \in alive <=> r \in alive') /\ ref'[r] = ref[r],
         \A u \in Thread : u # t => call'[u].temp = call[u].temp
  PROVE  /\ Holders(i) \in Nat
         /\ Holders(i)' = Holders(i) + Holds(s, i)' - Holds(s, i) + Keeps(t, i)' - Keeps(t, i)
<1> DEFINE a == Cardinality({r \in alive : ref[r] = i})
           c == Cardinality({u \in Thread : call[u].temp = i})
<1>1. a \in Nat /\ a' = a + Holds(s, i)' - Holds(s, i)
  BY SlotCount
<1>2. c \in Nat /\ c' = c + Keeps(t, i)' - Keeps(t, i)
  BY TempCount
<1>3. Holders(i) = a + c /\ Holders(i)' = a' + c'
  BY DEF Holders
<1>4. /\ Holds(s, i) \in {0, 1} /\ Holds(s, i)' \in {0, 1}
      /\ Keeps(t, i) \in {0, 1} /\ Keeps(t, i)' \in {0, 1}
  BY DEF Holds, Keeps
<1> HIDE DEF a, c
<1> QED
  BY <1>1, <1>2, <1>3, <1>4

-----------------------------------------------------------------------------
(* The steps that begin a call.                                            *)

LEMMA EnterStep ==
  ASSUME IInv, NEW t \in Thread, NEW s \in Slot, NEW td \in Todo, td # <<>>, td # <<"drop">>,
         NEW a, a \in Ids, NEW x \in AnyText, Enter(t, s, td, a, x),
         UNCHANGED <<dbVars, refVars, forgotten>>,
         seen' \in [Thread -> 1 .. size],
         \A u \in Thread : seen[u] <= seen'[u],
         td \in Giving => s \in alive,
         td \in Vacant => s \notin alive,
         td \in Copying => Named(x, a) /\ a < seen'[t]
  PROVE  IInv'
<1>0. TypeOK /\ Layout /\ Defined /\ References /\ Calls /\ InUseDrift
  BY DEF IInv
<1>1. /\ blocks' = blocks /\ defined' = defined /\ size' = size
      /\ ref' = ref /\ alive' = alive /\ text' = text /\ forgotten' = forgotten
  BY DEF dbVars, refVars
<1>2. Layout' /\ (\A i : Get(i)' = Get(i)) /\ Ids' = Ids
  BY <1>0, <1>1 DEF Layout, Counted, Get, Ids
<1>3. call \in [Thread -> [todo : Seq(Do), slot : Slot, arg : Ids, name : AnyText, temp : Ids]]
  BY <1>0 DEF TypeOK, Do
<1>4. call' = [call EXCEPT ![t] = [todo |-> td, slot |-> s, arg |-> a, name |-> x, temp |-> 0]]
      /\ Owner[s] = t /\ call[t].todo = <<>>
  BY DEF Enter
<1>5. td \in Seq(Do) /\ 0 \in Ids
  BY <1>0, TodoType, TypeFacts
<1>6. call' \in [Thread -> [todo : Seq(Do), slot : Slot, arg : Ids', name : AnyText, temp : Ids']]
  BY <1>2, <1>3, <1>4, <1>5
<1>7. TypeOK'
  BY <1>0, <1>1, <1>2, <1>6 DEF TypeOK, Do
<1>8. Defined'
  BY <1>0, <1>1, <1>2 DEF Defined, Named
<1>9. References'
  <2> SUFFICES ASSUME NEW r \in alive PROVE (Named(text[r], ref[r]) /\ ref[r] < seen[Owner[r]])'
    BY <1>1 DEF References
  <2>1. Named(text[r], ref[r]) /\ ref[r] < seen[Owner[r]]
    BY <1>0 DEF References
  <2>2. Owner[r] \in Thread /\ ref[r] \in Nat /\ seen[Owner[r]] \in Nat
    BY <1>0, TypeFacts DEF Ids
  <2>3. seen'[Owner[r]] \in Nat
    BY <2>2
  <2>4. ref[r] < seen'[Owner[r]]
    BY <2>1, <2>2, <2>3
  <2> QED
    BY <1>1, <2>1, <2>4 DEF Named
<1>10. /\ \A u \in Thread : u # t => call'[u] = call[u]
       /\ call'[t] = [todo |-> td, slot |-> s, arg |-> a, name |-> x, temp |-> 0]
  BY <1>3, <1>4
<1>11. CallAgrees(t, call[t])'
  <2>1. call'[t].todo = td /\ call'[t].slot = s /\ call'[t].arg = a
        /\ call'[t].name = x /\ call'[t].temp = 0
    BY <1>10
  <2>2. td \in Copying => Named(call[t].name, call[t].arg)' /\ call'[t].arg < seen'[t]
    BY <1>1, <2>1 DEF Named
  <2> QED
    BY <1>1, <1>4, <2>1, <2>2 DEF CallAgrees
<1>12. size' \in Nat /\ seen' \in [Thread -> 1 .. size']
  BY <1>0, <1>1 DEF TypeOK
<1>13. Calls'
  BY <1>0, <1>1, <1>10, <1>11, <1>12, CallsAfter
<1>14. call[t].temp = 0
  <2>1. <<>> # <<"drop">>
    OBVIOUS
  <2>2. CallAgrees(t, call[t])
    BY <1>0 DEF Calls
  <2> QED
    BY <1>4, <2>1, <2>2 DEF CallAgrees
<1>15. \A u \in Thread : call'[u].temp = call[u].temp
  BY <1>10, <1>14
<1>16. \A i : Holders(i)' = Holders(i)
  BY <1>1, <1>15 DEF Holders
<1>17. InUseDrift'
  BY <1>0, <1>1, <1>2, <1>16 DEF InUseDrift
<1> QED
  BY <1>2, <1>7, <1>8, <1>9, <1>13, <1>17 DEF IInv

(* A reference that is alive tells its reader a size above its id.         *)
LEMMA HandOverSafe ==
  ASSUME IInv, NEW t \in Thread, NEW s \in alive,
         seen' = [seen EXCEPT ![t] = HandOver(t, Owner[s])]
  PROVE  /\ seen' \in [Thread -> 1 .. size]
         /\ \A u \in Thread : seen[u] <= seen'[u]
         /\ ref[s] < seen'[t]
         /\ Named(text[s], ref[s])
         /\ ref[s] \in Ids /\ text[s] \in AnyText
<1>1. Named(text[s], ref[s]) /\ ref[s] < seen[Owner[s]]
  BY DEF IInv, References
<1>2. seen \in [Thread -> 1 .. size] /\ size \in Nat
  BY DEF IInv, TypeOK
<1>3. s \in Slot /\ ref[s] \in Ids /\ ref[s] \in Nat /\ text[s] \in AnyText /\ Owner[s] \in Thread
  BY TypeFacts DEF IInv, Ids
<1>4. HandOver(t, Owner[s]) \in 1 .. size /\ seen[t] <= HandOver(t, Owner[s])
      /\ ref[s] < HandOver(t, Owner[s])
  BY <1>1, <1>2, <1>3 DEF HandOver
<1> QED
  BY <1>1, <1>2, <1>3, <1>4

LEMMA BeginStep == ASSUME IInv, NEW t \in Thread, Begin(t) PROVE IInv'
<1>0. PICK s \in Slot : \/ \E x \in AnyText : Build(t, s, x) \/ AssignString(t, s, x)
                        \/ \E from \in Slot : Copy(t, s, from) \/ Assign(t, s, from)
                        \/ Destroy(t, s)
  BY DEF Begin
<1>a. 0 \in Ids /\ Empty \in AnyText /\ seen \in [Thread -> 1 .. size]
      /\ \A u \in Thread : seen[u] <= seen[u]
  BY TypeFacts DEF IInv, AnyText, TypeOK
<1>1. ASSUME NEW x \in AnyText, Build(t, s, x) PROVE IInv'
  <2>1. BuildSteps \in Todo /\ BuildSteps # <<>> /\ BuildSteps # <<"drop">>
        /\ BuildSteps \notin Giving /\ BuildSteps \in Vacant /\ BuildSteps \notin Copying
    BY DEF BuildSteps, Todo, Giving, Vacant, Copying
  <2>2. UNCHANGED <<dbVars, refVars, forgotten>> /\ seen' = seen /\ s \notin alive
        /\ Enter(t, s, BuildSteps, 0, x)
    BY <1>1 DEF Build
  <2> QED
    BY <1>a, <2>1, <2>2, EnterStep
<1>2. ASSUME NEW x \in AnyText, AssignString(t, s, x) PROVE IInv'
  <2>1. AssignStringSteps \in Todo /\ AssignStringSteps # <<>> /\ AssignStringSteps # <<"drop">>
        /\ AssignStringSteps \in Giving /\ AssignStringSteps \notin Vacant
        /\ AssignStringSteps \notin Copying
    BY DEF AssignStringSteps, Todo, Giving, Vacant, Copying
  <2>2. UNCHANGED <<dbVars, refVars, forgotten>> /\ seen' = seen /\ s \in alive
        /\ Enter(t, s, AssignStringSteps, 0, x)
    BY <1>2 DEF AssignString
  <2> QED
    BY <1>a, <2>1, <2>2, EnterStep
<1>3. ASSUME NEW from \in Slot, Copy(t, s, from) PROVE IInv'
  <2>1. CopySteps \in Todo /\ CopySteps # <<>> /\ CopySteps # <<"drop">>
        /\ CopySteps \notin Giving /\ CopySteps \in Vacant
    BY DEF CopySteps, Todo, Giving, Vacant, Copying
  <2>2. UNCHANGED <<dbVars, refVars, forgotten>> /\ s \notin alive /\ from \in alive
        /\ seen' = [seen EXCEPT ![t] = HandOver(t, Owner[from])]
        /\ Enter(t, s, CopySteps, ref[from], text[from])
    BY <1>3 DEF Copy
  <2> QED
    BY <2>1, <2>2, HandOverSafe, EnterStep
<1>4. ASSUME NEW from \in Slot, Assign(t, s, from) PROVE IInv'
  <2>1. AssignSteps \in Todo /\ AssignSteps # <<>> /\ AssignSteps # <<"drop">>
        /\ AssignSteps \in Giving /\ AssignSteps \notin Vacant
    BY DEF AssignSteps, Todo, Giving, Vacant, Copying
  <2>2. UNCHANGED <<dbVars, refVars, forgotten>> /\ s \in alive /\ from \in alive
        /\ seen' = [seen EXCEPT ![t] = HandOver(t, Owner[from])]
        /\ Enter(t, s, AssignSteps, ref[from], text[from])
    BY <1>4 DEF Assign
  <2> QED
    BY <2>1, <2>2, HandOverSafe, EnterStep
<1>5. ASSUME Destroy(t, s) PROVE IInv'
  <2>1. DestroySteps \in Todo /\ DestroySteps # <<>> /\ DestroySteps # <<"drop">>
        /\ DestroySteps \in Giving /\ DestroySteps \notin Vacant /\ DestroySteps \notin Copying
    BY DEF DestroySteps, Todo, Giving, Vacant, Copying
  <2>2. UNCHANGED <<dbVars, refVars, forgotten>> /\ seen' = seen /\ s \in alive
        /\ Enter(t, s, DestroySteps, 0, Empty)
    BY <1>5 DEF Destroy
  <2> QED
    BY <1>a, <2>1, <2>2, EnterStep
<1> QED
  BY <1>0, <1>1, <1>2, <1>3, <1>4, <1>5

-----------------------------------------------------------------------------
(* The steps that change one counter.                                      *)

(* Thread t, in a call for slot s, adds d to the counter of i and f to what*)
(* is forgotten of its text; its call goes on with the id a and holds v.   *)
Counting(t, s, i, d, a, v, f) ==
  /\ call[t].todo # <<>> /\ call[t].slot = s
  /\ blocks' = Use(blocks, i, d) /\ defined' = defined /\ size' = size
  /\ Step(t, a, v)
  /\ Tail(call[t].todo) \in Vacant => s \notin alive'
  /\ Tail(call[t].todo) \in Copying => Named(call[t].name, a) /\ a < seen'[t]
  /\ Tail(call[t].todo) # <<"drop">> => v = 0
  /\ seen' \in [Thread -> 1 .. size]
  /\ \A u \in Thread : seen[u] <= seen'[u]
  /\ alive' \subseteq Slot /\ ref' \in [Slot -> Ids] /\ text' \in [Slot -> AnyText]
  /\ \A r \in Slot : r # s => /\ r \in alive <=> r \in alive'
                             /\ ref'[r] = ref[r] /\ text'[r] = text[r]
  /\ s \in alive' => Named(text'[s], ref'[s]) /\ ref'[s] < seen'[t]
  /\ forgotten' \in [Text -> Nat]
  /\ \A y \in Text : forgotten'[y] = forgotten[y] + IF Named(y, i) THEN f ELSE 0
  /\ \A j \in Ids \ {0} : (IF j = i THEN d + f ELSE 0)
                              = Holds(s, j)' - Holds(s, j) + Keeps(t, j)' - Keeps(t, j)

LEMMA CountStep ==
  ASSUME IInv, NEW t \in Thread, NEW s \in Slot, NEW i, NEW a, NEW v,
         i \in Ids, a \in Ids, v \in Ids, NEW d \in Int, NEW f \in Nat,
         Counting(t, s, i, d, a, v, f)
  PROVE  IInv'
<1>0. TypeOK /\ Layout /\ Defined /\ References /\ Calls /\ InUseDrift
  BY DEF IInv
<1> USE DEF Counting
<1>1. Ids' = Ids /\ size' \in Nat /\ size <= size'
  BY <1>0 DEF Ids, TypeOK
<1>2. /\ Layout'
      /\ \A j \in Ids : /\ Get(j)'.data = Get(j).data
                        /\ Get(j)'.in_use = Get(j).in_use + IF j = i /\ i # 0 THEN d ELSE 0
  BY <1>0, UseKeepsLayout
<1>3. \A x \in DOMAIN defined : x \in DOMAIN defined' /\ defined'[x] = defined[x]
  OBVIOUS
<1>4. Tail(call[t].todo) \in Copying =>
           call[t].name \in DOMAIN defined' /\ defined'[call[t].name] = a /\ a < seen'[t]
  BY DEF Named
<1>5. /\ call' \in [Thread -> [todo : Seq(Do), slot : Slot, arg : Ids',
                               name : AnyText, temp : Ids']]
      /\ Calls'
      /\ \A u \in Thread : u # t => call'[u].temp = call[u].temp
  BY <1>0, <1>1, <1>3, <1>4, Progress
<1>6. blocks' \in Seq(Block) /\ seen' \in [Thread -> 1 .. size']
  BY <1>2 DEF Layout
<1>7. TypeOK'
  BY <1>0, <1>1, <1>5, <1>6 DEF TypeOK, Do, Block, Entry
<1>8. Named(Empty, 0) /\ \A x \in DOMAIN defined : Get(defined[x]).data = x
  BY <1>0 DEF Defined
<1>9. Defined'
  <2>1. Named(Empty, 0)'
    BY <1>8 DEF Named
  <2>2. \A x \in DOMAIN defined : Get(defined[x])'.data = x
    <3> TAKE x \in DOMAIN defined
    <3>1. defined[x] \in Ids
      BY <1>0, TypeFacts
    <3> QED
      BY <1>2, <1>8, <3>1 DEF Get
  <2>3. \A x \in Text \ DOMAIN defined : forgotten'[x] = 0
    BY <1>0 DEF Defined, Named
  <2> QED
    BY <2>1, <2>2, <2>3 DEF Defined
<1>10. Owner[s] = t
  BY <1>0 DEF Calls, CallAgrees
<1>11. References'
  <2> SUFFICES ASSUME NEW r \in alive'
               PROVE  Named(text'[r], ref'[r]) /\ ref'[r] < seen'[Owner[r]]
    BY DEF References, Named
  <2>1. CASE r = s
    BY <1>10, <2>1
  <2>2. CASE r # s
    <3>1. r \in alive /\ ref'[r] = ref[r] /\ text'[r] = text[r]
      BY <2>2
    <3>2. Named(text[r], ref[r]) /\ ref[r] < seen[Owner[r]]
      BY <1>0, <3>1 DEF References
    <3>3. Owner[r] \in Thread /\ ref[r] \in Nat /\ seen[Owner[r]] \in Nat /\ seen'[Owner[r]] \in Nat
      BY <1>0, TypeFacts DEF Ids
    <3> QED
      BY <3>1, <3>2, <3>3
  <2> QED
    BY <2>1, <2>2
<1>12. InUseDrift'
  <2> SUFFICES ASSUME NEW x \in DOMAIN defined \ {Empty}
               PROVE  Get(defined[x])'.in_use + forgotten'[x] = Holders(defined[x])'
    BY DEF InUseDrift
  <2> DEFINE j == defined[x]
  <2>0. j \in Ids /\ x \in Text /\ j \in Nat
    BY <1>0, TypeFacts DEF AnyText, Ids
  <2>1. j # 0
    BY <1>8 DEF Named
  <2>2. Get(j).in_use + forgotten[x] = Holders(j)
    BY <1>0 DEF InUseDrift
  <2>3. Named(x, i) <=> j = i
    BY DEF Named
  <2>4. PICK k : k = j
    OBVIOUS
  <2>5. Get(j)' = Get(k)' /\ Holders(j)' = Holders(k)'
    BY <2>4
  <2>6. /\ Holders(k) \in Nat
        /\ Holders(k)' = Holders(k) + Holds(s, k)' - Holds(s, k) + Keeps(t, k)' - Keeps(t, k)
    <3>1. alive \subseteq Slot
      BY <1>0 DEF TypeOK
    <3>2. \A r \in Slot : r # s => (r \in alive <=> r \in alive') /\ ref'[r] = ref[r]
      OBVIOUS
    <3>3. alive' \subseteq Slot
      OBVIOUS
    <3> HIDE DEF j, Counting
    <3> QED
      BY <1>5, <3>1, <3>2, <3>3, HoldersChange
  <2>7. Holders(k)' = Holders(k) + IF k = i THEN d + f ELSE 0
    <3>1. Holds(s, k)' \in Int /\ Holds(s, k) \in Int /\ Keeps(t, k)' \in Int /\ Keeps(t, k) \in Int
      BY DEF Holds, Keeps
    <3>2. (IF k = i THEN d + f ELSE 0) = Holds(s, k)' - Holds(s, k) + Keeps(t, k)' - Keeps(t, k)
      BY <2>0, <2>1, <2>4
    <3>3. (IF k = i THEN d + f ELSE 0) \in Int
      OBVIOUS
    <3> QED
      BY <2>6, <3>1, <3>2, <3>3
  <2>8. Get(k).in_use \in Int
    <3>1. BlockOf(k) \in 1 .. Len(blocks) /\ IndexOf(k) \in 1 .. Len(blocks[BlockOf(k)].entries)
      BY <1>0, <2>0, <2>4, Place
    <3>2. Get(k) \in Entry
      BY <1>0, <3>1, BlockAt, ElementOfSeq DEF Get, Layout
    <3> QED
      BY <3>2 DEF Entry
  <2>9. Get(k)'.in_use = Get(k).in_use + IF k = i THEN d ELSE 0
    BY <1>2, <2>0, <2>1, <2>4
  <2>10. forgotten'[x] = forgotten[x] + (IF k = i THEN f ELSE 0) /\ forgotten[x] \in Nat
    BY <1>0, <2>0, <2>3, <2>4 DEF TypeOK
  <2> HIDE DEF j
  <2>11. Get(k)'.in_use + forgotten'[x] = Holders(k)'
    BY <2>2, <2>4, <2>6, <2>7, <2>8, <2>9, <2>10
  <2> QED
    BY <2>4, <2>5, <2>11 DEF j
<1> QED
  BY <1>2, <1>5, <1>7, <1>9, <1>11, <1>12 DEF IInv

LEMMA TempAfter ==
  ASSUME TypeOK, Calls, NEW t \in Thread, call[t].todo # <<>>, NEW a, NEW v, Step(t, a, v),
         Tail(call[t].todo) # <<"drop">> => v = 0
  PROVE  call'[t].temp = v
<1>0. /\ Tail(call[t].todo) = <<>> => call'[t] = Idle
      /\ Tail(call[t].todo) # <<>> =>
              call'[t] = [todo |-> Tail(call[t].todo), slot |-> call[t].slot,
                          arg |-> a, name |-> call[t].name, temp |-> v]
  BY AfterStep
<1>1. CASE Tail(call[t].todo) = <<>>
  <2>1. <<>> # <<"drop">>
    OBVIOUS
  <2> QED
    BY <1>0, <1>1, <2>1, IdleFacts
<1>2. CASE Tail(call[t].todo) # <<>>
  BY <1>0, <1>2
<1> QED
  BY <1>1, <1>2

(* What a thread that took the mutex has seen.                             *)
LEMMA Observed ==
  ASSUME TypeOK, NEW t \in Thread, NEW i, Observe(t, i)
  PROVE  /\ seen' \in [Thread -> 1 .. size]
         /\ \A u \in Thread : seen[u] <= seen'[u]
         /\ i # 0 => seen'[t] = size
<1>1. seen \in [Thread -> 1 .. size] /\ size \in Nat \ {0}
  BY DEF TypeOK
<1> QED
  BY <1>1 DEF Observe

LEMMA ReleaseStep == ASSUME IInv, NEW t \in Thread, Release(t) PROVE IInv'
<1>0. TypeOK /\ Calls /\ References
  BY DEF IInv
<1>1. PICK s \in Slot : s = call[t].slot
  BY <1>0, TypeFacts
<1>i. PICK i \in Ids : i = ref[s]
  BY <1>0, TypeFacts
<1>a. PICK a \in Ids : a = call[t].arg
  BY <1>0, TypeFacts
<1>d. PICK d \in Int, f \in Nat, v \in Ids : d = -1 /\ f = 0 /\ v = 0
  BY <1>0, TypeFacts
<1> DEFINE td == call[t].todo
<1>2. td \in Todo /\ td # <<>> /\ Head(td) = "release" /\ Owner[s] = t /\ CallAgrees(t, call[t])
  BY <1>0, <1>1, AtCall DEF Release
<1>3. td \in Giving /\ td # <<"drop">> /\ Tail(td) # <<"drop">>
      /\ (Tail(td) \in Copying => td \in Copying)
  BY <1>2, TodoSteps DEF Giving
<1>4. s \in alive /\ call[t].temp = 0
  BY <1>1, <1>2, <1>3 DEF CallAgrees
<1>5. /\ blocks' = Use(blocks, i, d) /\ alive' = alive \ {s}
      /\ ref' = [ref EXCEPT ![s] = 0] /\ text' = [text EXCEPT ![s] = Empty]
      /\ Step(t, a, v) /\ Observe(t, i)
      /\ defined' = defined /\ size' = size /\ forgotten' = forgotten
  BY <1>1, <1>i, <1>a, <1>d, <1>4 DEF Release
<1>6. /\ seen' \in [Thread -> 1 .. size] /\ \A u \in Thread : seen[u] <= seen'[u]
  BY <1>0, <1>5, Observed
<1>7. 0 \in Ids /\ Empty \in AnyText
      /\ a \in Nat /\ seen[t] \in Nat /\ seen'[t] \in Nat
  BY <1>0, <1>6, TypeFacts DEF Ids, AnyText
<1>8. /\ Tail(td) \in Vacant => s \notin alive'
      /\ Tail(td) \in Copying => Named(call[t].name, a) /\ a < seen'[t]
      /\ Tail(td) # <<"drop">> => v = 0
  <2>1. seen[t] <= seen'[t]
    BY <1>6
  <2> QED
    BY <1>2, <1>3, <1>5, <1>7, <1>a, <1>d, <2>1 DEF CallAgrees
<1>9. /\ alive' \subseteq Slot /\ ref' \in [Slot -> Ids] /\ text' \in [Slot -> AnyText]
      /\ \A r \in Slot : r # s => /\ r \in alive <=> r \in alive'
                                  /\ ref'[r] = ref[r] /\ text'[r] = text[r]
      /\ s \notin alive'
  BY <1>0, <1>5, <1>7 DEF TypeOK
<1>10. call'[t].temp = 0
  BY <1>0, <1>2, <1>5, <1>8, <1>d, TempAfter
<1>11. ASSUME NEW j \in Ids \ {0}
       PROVE  (IF j = i THEN d + f ELSE 0)
                = Holds(s, j)' - Holds(s, j) + Keeps(t, j)' - Keeps(t, j)
  BY <1>4, <1>9, <1>10, <1>i, <1>d DEF Holds, Keeps
<1>12. forgotten' \in [Text -> Nat]
       /\ \A y \in Text : forgotten'[y] = forgotten[y] + IF Named(y, i) THEN f ELSE 0
  BY <1>0, <1>5, <1>d DEF TypeOK
<1>13. Counting(t, s, i, d, a, v, f)
  BY <1>1, <1>2, <1>5, <1>6, <1>8, <1>9, <1>11, <1>12 DEF Counting
<1> QED
  BY <1>13, CountStep

LEMMA DropStep == ASSUME IInv, NEW t \in Thread, Drop(t) PROVE IInv'
<1>0. TypeOK /\ Calls /\ References
  BY DEF IInv
<1>1. PICK s \in Slot : s = call[t].slot
  BY <1>0, TypeFacts
<1>i. PICK i \in Ids : i = call[t].temp
  BY <1>0, TypeFacts
<1>a. PICK a \in Ids : a = call[t].arg
  BY <1>0, TypeFacts
<1>d. PICK d \in Int, f \in Nat, v \in Ids : d = -1 /\ f = 0 /\ v = 0
  BY <1>0, TypeFacts
<1> DEFINE td == call[t].todo
<1>2. td \in Todo /\ td # <<>> /\ Head(td) = "drop" /\ Owner[s] = t /\ CallAgrees(t, call[t])
  BY <1>0, <1>1, AtCall DEF Drop
<1>3. td = <<"drop">> /\ Tail(td) = <<>>
  BY <1>2, TodoSteps
<1>4. <<>> \notin Vacant /\ <<>> \notin Copying /\ <<>> # <<"drop">>
  BY DEF Vacant, Copying
<1>5. /\ blocks' = Use(blocks, i, d) /\ alive' = alive /\ ref' = ref /\ text' = text
      /\ Step(t, a, v) /\ Observe(t, i)
      /\ defined' = defined /\ size' = size /\ forgotten' = forgotten
  BY <1>i, <1>a, <1>d DEF Drop, refVars
<1>6. /\ seen' \in [Thread -> 1 .. size] /\ \A u \in Thread : seen[u] <= seen'[u]
  BY <1>0, <1>5, Observed
<1>7. /\ Tail(td) \in Vacant => s \notin alive'
      /\ Tail(td) \in Copying => Named(call[t].name, a) /\ a < seen'[t]
      /\ Tail(td) # <<"drop">> => v = 0
  BY <1>3, <1>4, <1>d
<1>8. /\ alive' \subseteq Slot /\ ref' \in [Slot -> Ids] /\ text' \in [Slot -> AnyText]
      /\ \A r \in Slot : r # s => /\ r \in alive <=> r \in alive'
                                  /\ ref'[r] = ref[r] /\ text'[r] = text[r]
  BY <1>0, <1>5 DEF TypeOK
<1>9. s \in alive' => Named(text'[s], ref'[s]) /\ ref'[s] < seen'[t]
  <2>1. ref[s] \in Nat /\ seen[t] \in Nat /\ seen'[t] \in Nat
    BY <1>0, <1>6, TypeFacts DEF Ids
  <2> QED
    BY <1>0, <1>2, <1>5, <1>6, <2>1 DEF References
<1>10. call'[t].temp = 0
  BY <1>0, <1>2, <1>5, <1>7, <1>d, TempAfter
<1>11. ASSUME NEW j \in Ids \ {0}
       PROVE  (IF j = i THEN d + f ELSE 0)
                = Holds(s, j)' - Holds(s, j) + Keeps(t, j)' - Keeps(t, j)
  BY <1>i, <1>d, <1>5, <1>10 DEF Holds, Keeps
<1>12. forgotten' \in [Text -> Nat]
       /\ \A y \in Text : forgotten'[y] = forgotten[y] + IF Named(y, i) THEN f ELSE 0
  BY <1>0, <1>5, <1>d DEF TypeOK
<1>13. Counting(t, s, i, d, a, v, f)
  BY <1>1, <1>2, <1>5, <1>6, <1>7, <1>8, <1>9, <1>11, <1>12 DEF Counting
<1> QED
  BY <1>13, CountStep

LEMMA AcquireStep == ASSUME IInv, NEW t \in Thread, Acquire(t) PROVE IInv'
<1>0. TypeOK /\ Calls /\ References
  BY DEF IInv
<1>1. PICK s \in Slot : s = call[t].slot
  BY <1>0, TypeFacts
<1>i. PICK i \in Ids : i = call[t].arg
  BY <1>0, TypeFacts
<1>d. PICK d \in Int, f \in Nat, v \in Ids : d = 1 /\ f = 0 /\ v = 0
  BY <1>0, TypeFacts
<1> DEFINE td == call[t].todo
<1>2. td \in Todo /\ td # <<>> /\ Head(td) = "acquire" /\ Owner[s] = t /\ CallAgrees(t, call[t])
  BY <1>0, <1>1, AtCall DEF Acquire
<1>3. td \in Copying /\ td \in Vacant /\ Tail(td) \notin Vacant /\ Tail(td) # <<"drop">>
      /\ td # <<"drop">>
  BY <1>2, TodoSteps DEF Vacant
<1>4. s \notin alive /\ call[t].temp = 0 /\ Named(call[t].name, i) /\ i < seen[t]
  BY <1>1, <1>2, <1>3, <1>i DEF CallAgrees
<1>5. /\ blocks' = Use(blocks, i, d) /\ alive' = alive \cup {s}
      /\ ref' = [ref EXCEPT ![s] = i] /\ text' = [text EXCEPT ![s] = call[t].name]
      /\ Step(t, i, v) /\ Observe(t, i)
      /\ defined' = defined /\ size' = size /\ forgotten' = forgotten
  BY <1>1, <1>i, <1>d, <1>4 DEF Acquire, Take
<1>6. /\ seen' \in [Thread -> 1 .. size] /\ \A u \in Thread : seen[u] <= seen'[u]
  BY <1>0, <1>5, Observed
<1>7. call[t].name \in AnyText
      /\ i \in Nat /\ seen[t] \in Nat /\ seen'[t] \in Nat
  BY <1>0, <1>6, TypeFacts DEF Ids
<1>a. i < seen'[t]
  <2>1. seen[t] <= seen'[t]
    BY <1>6
  <2> QED
    BY <1>4, <1>7, <2>1
<1>8. /\ Tail(td) \in Vacant => s \notin alive'
      /\ Tail(td) \in Copying => Named(call[t].name, i) /\ i < seen'[t]
      /\ Tail(td) # <<"drop">> => v = 0
  BY <1>3, <1>4, <1>a, <1>d
<1>9. /\ alive' \subseteq Slot /\ ref' \in [Slot -> Ids] /\ text' \in [Slot -> AnyText]
      /\ \A r \in Slot : r # s => /\ r \in alive <=> r \in alive'
                                  /\ ref'[r] = ref[r] /\ text'[r] = text[r]
      /\ ref'[s] = i /\ text'[s] = call[t].name /\ s \in alive'
  BY <1>0, <1>5, <1>7 DEF TypeOK
<1>10. call'[t].temp = 0
  BY <1>0, <1>2, <1>5, <1>8, <1>d, TempAfter
<1>11. ASSUME NEW j \in Ids \ {0}
       PROVE  (IF j = i THEN d + f ELSE 0)
                = Holds(s, j)' - Holds(s, j) + Keeps(t, j)' - Keeps(t, j)
  BY <1>4, <1>9, <1>10, <1>d DEF Holds, Keeps
<1>12. forgotten' \in [Text -> Nat]
       /\ \A y \in Text : forgotten'[y] = forgotten[y] + IF Named(y, i) THEN f ELSE 0
  BY <1>0, <1>5, <1>d DEF TypeOK
<1>13. s \in alive' => Named(text'[s], ref'[s]) /\ ref'[s] < seen'[t]
  BY <1>4, <1>9, <1>a
<1>14. Counting(t, s, i, d, i, v, f)
  BY <1>1, <1>2, <1>5, <1>6, <1>8, <1>9, <1>11, <1>12, <1>13 DEF Counting
<1> QED
  BY <1>14, CountStep

LEMMA HoldStep == ASSUME IInv, NEW t \in Thread, Hold(t) PROVE IInv'
<1>0. TypeOK /\ Calls /\ References
  BY DEF IInv
<1>1. PICK s \in Slot : s = call[t].slot
  BY <1>0, TypeFacts
<1>i. PICK i \in Ids : i = call[t].arg
  BY <1>0, TypeFacts
<1>d. PICK d \in Int, f \in Nat : d = 1 /\ f = 0
  OBVIOUS
<1> DEFINE td == call[t].todo
<1>2. td \in Todo /\ td # <<>> /\ Head(td) = "hold" /\ Owner[s] = t /\ CallAgrees(t, call[t])
  BY <1>0, <1>1, AtCall DEF Hold
<1>4. <<"drop">> \notin Vacant /\ <<"drop">> \notin Copying /\ <<"drop">> # <<>>
  BY DEF Vacant, Copying
<1>3. Tail(td) = <<"drop">> /\ td # <<"drop">> /\ Tail(td) # <<>>
  BY <1>2, <1>4, TodoSteps
<1>5. /\ blocks' = Use(blocks, i, d) /\ alive' = alive /\ ref' = ref /\ text' = text
      /\ Step(t, i, i) /\ Observe(t, i)
      /\ defined' = defined /\ size' = size /\ forgotten' = forgotten
  BY <1>i, <1>d DEF Hold, refVars
<1>6. /\ seen' \in [Thread -> 1 .. size] /\ \A u \in Thread : seen[u] <= seen'[u]
  BY <1>0, <1>5, Observed
<1>7. /\ Tail(td) \in Vacant => s \notin alive'
      /\ Tail(td) \in Copying => Named(call[t].name, i) /\ i < seen'[t]
      /\ Tail(td) # <<"drop">> => i = 0
  BY <1>3, <1>4
<1>8. /\ alive' \subseteq Slot /\ ref' \in [Slot -> Ids] /\ text' \in [Slot -> AnyText]
      /\ \A r \in Slot : r # s => /\ r \in alive <=> r \in alive'
                                  /\ ref'[r] = ref[r] /\ text'[r] = text[r]
  BY <1>0, <1>5 DEF TypeOK
<1>9. s \in alive' => Named(text'[s], ref'[s]) /\ ref'[s] < seen'[t]
  <2>1. ref[s] \in Nat /\ seen[t] \in Nat /\ seen'[t] \in Nat
    BY <1>0, <1>6, TypeFacts DEF Ids
  <2> QED
    BY <1>0, <1>2, <1>5, <1>6, <2>1 DEF References
<1>10. call'[t].temp = i
  BY <1>0, <1>2, <1>5, <1>7, TempAfter
<1>a. call[t].temp = 0
  BY <1>2, <1>3 DEF CallAgrees
<1>11. ASSUME NEW j \in Ids \ {0}
       PROVE  (IF j = i THEN d + f ELSE 0)
                = Holds(s, j)' - Holds(s, j) + Keeps(t, j)' - Keeps(t, j)
  BY <1>d, <1>5, <1>10, <1>a DEF Holds, Keeps
<1>12. forgotten' \in [Text -> Nat]
       /\ \A y \in Text : forgotten'[y] = forgotten[y] + IF Named(y, i) THEN f ELSE 0
  BY <1>0, <1>5, <1>d DEF TypeOK
<1>13. Counting(t, s, i, d, i, i, f)
  BY <1>1, <1>2, <1>5, <1>6, <1>7, <1>8, <1>9, <1>11, <1>12 DEF Counting
<1> QED
  BY <1>13, CountStep

(* A text that is known: two references more, one counted, one forgotten.  *)
LEMMA LookupKnownStep == ASSUME IInv, NEW t \in Thread, LookupKnown(t) PROVE IInv'
<1>0. TypeOK /\ Calls /\ References /\ Defined
  BY DEF IInv
<1>1. PICK s \in Slot : s = call[t].slot
  BY <1>0, TypeFacts
<1>x. PICK x \in AnyText : x = call[t].name
  BY <1>0, TypeFacts
<1>i. PICK i \in Ids : i = defined[x] /\ x \in DOMAIN defined
  BY <1>0, <1>x, TypeFacts DEF LookupKnown
<1>a. PICK a \in Ids : a = call[t].arg
  BY <1>0, TypeFacts
<1>d. PICK d \in Int, f \in Nat : d = 1 /\ f = IF x = Empty THEN 0 ELSE 1
  OBVIOUS
<1> DEFINE td == call[t].todo
<1>2. td \in Todo /\ td # <<>> /\ Head(td) = "lookup" /\ Owner[s] = t /\ CallAgrees(t, call[t])
  BY <1>0, <1>1, AtCall DEF LookupKnown
<1>3. td \in Vacant /\ Tail(td) = <<"drop">> /\ td # <<"drop">> /\ Tail(td) # <<>>
  BY <1>2, TodoSteps DEF Vacant
<1>4. s \notin alive /\ call[t].temp = 0 /\ <<"drop">> \notin Vacant /\ <<"drop">> \notin Copying
  BY <1>1, <1>2, <1>3 DEF CallAgrees, Vacant, Copying
<1>5. /\ blocks' = Use(blocks, i, d) /\ alive' = alive \cup {s}
      /\ ref' = [ref EXCEPT ![s] = i] /\ text' = [text EXCEPT ![s] = x]
      /\ Step(t, a, i) /\ seen' = [seen EXCEPT ![t] = size]
      /\ defined' = defined /\ size' = size
      /\ forgotten' = IF x = Empty THEN forgotten ELSE [forgotten EXCEPT ![x] = @ + 1]
  BY <1>1, <1>x, <1>i, <1>a, <1>d DEF LookupKnown, Found, Take
<1>6. /\ seen' \in [Thread -> 1 .. size] /\ \A u \in Thread : seen[u] <= seen'[u]
      /\ i < seen'[t]
  BY <1>0, <1>5 DEF TypeOK, Ids
<1>7. /\ Tail(td) \in Vacant => s \notin alive'
      /\ Tail(td) \in Copying => Named(call[t].name, a) /\ a < seen'[t]
      /\ Tail(td) # <<"drop">> => i = 0
  BY <1>3, <1>4
<1>8. /\ alive' \subseteq Slot /\ ref' \in [Slot -> Ids] /\ text' \in [Slot -> AnyText]
      /\ \A r \in Slot : r # s => /\ r \in alive <=> r \in alive'
                                  /\ ref'[r] = ref[r] /\ text'[r] = text[r]
      /\ ref'[s] = i /\ text'[s] = x /\ s \in alive'
  BY <1>0, <1>5 DEF TypeOK
<1>9. s \in alive' => Named(text'[s], ref'[s]) /\ ref'[s] < seen'[t]
  BY <1>i, <1>6, <1>8 DEF Named
<1>10. call'[t].temp = i
  BY <1>0, <1>2, <1>5, <1>7, TempAfter
<1>11. ASSUME NEW j \in Ids \ {0}
       PROVE  (IF j = i THEN d + f ELSE 0)
                = Holds(s, j)' - Holds(s, j) + Keeps(t, j)' - Keeps(t, j)
  <2>1. CASE j = i
    <3>1. x # Empty
      BY <1>0, <1>i, <2>1 DEF Defined, Named
    <3> QED
      BY <1>d, <1>4, <1>8, <1>10, <2>1, <3>1 DEF Holds, Keeps
  <2>2. CASE j # i
    BY <1>4, <1>8, <1>10, <2>2 DEF Holds, Keeps
  <2> QED
    BY <2>1, <2>2
<1>12. ASSUME NEW y \in Text
       PROVE  Named(y, i) <=> y = x
  BY <1>0, <1>i DEF Defined, Named
<1>13. forgotten' \in [Text -> Nat]
       /\ \A y \in Text : forgotten'[y] = forgotten[y] + IF Named(y, i) THEN f ELSE 0
  <2>1. forgotten \in [Text -> Nat]
    BY <1>0 DEF TypeOK
  <2>2. CASE x = Empty
    BY <1>5, <1>d, <1>12, <2>1, <2>2, EmptyAssumption
  <2>3. CASE x # Empty
    <3>1. forgotten' = [forgotten EXCEPT ![x] = @ + 1] /\ f = 1 /\ x \in Text
      BY <1>5, <1>d, <2>3 DEF AnyText
    <3>2. \A y \in Text : forgotten'[y] = IF y = x THEN forgotten[y] + 1 ELSE forgotten[y]
      BY <2>1, <3>1
    <3>3. \A y \in Text : forgotten[y] \in Nat
      BY <2>1
    <3>4. forgotten' \in [Text -> Nat]
      BY <2>1, <3>1, <3>3
    <3> QED
      BY <1>12, <3>1, <3>2, <3>3, <3>4
  <2> QED
    BY <2>2, <2>3
<1>14. Counting(t, s, i, d, a, i, f)
  BY <1>1, <1>2, <1>5, <1>6, <1>7, <1>8, <1>9, <1>11, <1>13 DEF Counting
<1> QED
  BY <1>14, CountStep

-----------------------------------------------------------------------------
(* The unlocked test: every size it can read is above the id, so that the  *)
(* id passes unchanged.                                                    *)
LEMMA TestStep == ASSUME IInv, NEW t \in Thread, Test(t) PROVE IInv'
<1>0. TypeOK /\ Calls /\ References /\ Layout /\ Defined /\ InUseDrift
  BY DEF IInv
<1>1. PICK s \in Slot : s = call[t].slot
  BY <1>0, TypeFacts
<1>a. PICK a \in Ids : a = call[t].arg
  BY <1>0, TypeFacts
<1>v. PICK v \in Ids : v = 0
  BY <1>0, TypeFacts
<1> DEFINE td == call[t].todo
<1>2. td \in Todo /\ td # <<>> /\ Head(td) = "test" /\ Owner[s] = t /\ CallAgrees(t, call[t])
  BY <1>0, <1>1, AtCall DEF Test
<1>3. td \in Copying /\ (td \in Vacant <=> Tail(td) \in Vacant) /\ Tail(td) # <<"drop">>
      /\ td # <<"drop">>
  <2>1. <<"drop">> \notin Copying
    BY DEF Copying
  <2> QED
    BY <1>2, <2>1, TodoSteps
<1>4. Named(call[t].name, a) /\ a < seen[t] /\ call[t].temp = 0
      /\ (td \in Vacant => s \notin alive)
  BY <1>1, <1>2, <1>3, <1>a DEF CallAgrees
<1>5. /\ blocks' = blocks /\ defined' = defined /\ size' = size /\ ref' = ref /\ alive' = alive
      /\ text' = text /\ seen' = seen /\ forgotten' = forgotten
  BY DEF Test, dbVars, refVars
<1>6. PICK n \in seen[t] .. size : Step(t, IF call[t].arg >= n THEN 0 ELSE call[t].arg, call[t].temp)
  BY DEF Test
<1>7. a \in Nat /\ seen[t] \in Nat /\ size \in Nat
  BY <1>0, TypeFacts DEF Ids
<1>8. Step(t, a, v)
  BY <1>4, <1>6, <1>7, <1>a, <1>v
<1>9. Ids' = Ids /\ size' \in Nat /\ size <= size' /\ seen' \in [Thread -> 1 .. size']
      /\ \A u \in Thread : seen[u] <= seen'[u]
  BY <1>0, <1>5 DEF Ids, TypeOK
<1>10. /\ Tail(td) \in Vacant => call[t].slot \notin alive'
       /\ Tail(td) \in Copying =>
           call[t].name \in DOMAIN defined' /\ defined'[call[t].name] = a /\ a < seen'[t]
       /\ Tail(td) # <<"drop">> => v = 0
       /\ \A x \in DOMAIN defined : x \in DOMAIN defined' /\ defined'[x] = defined[x]
       /\ \A r \in Slot : r # call[t].slot => (r \in alive <=> r \in alive')
  BY <1>1, <1>3, <1>4, <1>5, <1>v DEF Named
<1>11. a \in Ids' /\ v \in Ids'
  BY <1>9
<1>12. /\ call' \in [Thread -> [todo : Seq(Do), slot : Slot, arg : Ids',
                                name : AnyText, temp : Ids']]
       /\ Calls'
       /\ call'[t].temp = v
       /\ \A u \in Thread : u # t => call'[u].temp = call[u].temp
  BY <1>0, <1>2, <1>8, <1>9, <1>10, <1>11, Progress
<1>13. TypeOK'
  BY <1>0, <1>5, <1>9, <1>12 DEF TypeOK, Do
<1>14. \A i : Get(i)' = Get(i) /\ Holders(i)' = Holders(i)
  <2>1. \A u \in Thread : call'[u].temp = call[u].temp
    BY <1>4, <1>12, <1>v
  <2> QED
    BY <1>5, <2>1 DEF Get, Holders
<1>15. Layout' /\ Defined' /\ References' /\ InUseDrift'
  BY <1>0, <1>5, <1>14 DEF Layout, Counted, Defined, References, Named, InUseDrift
<1> QED
  BY <1>12, <1>13, <1>15 DEF IInv

(* A text that is new: an entry with two references, those of the slot and *)
(* of the temporary; nobody could refer to it before.                      *)
LEMMA LookupNewStep == ASSUME IInv, NEW t \in Thread, LookupNew(t) PROVE IInv'
<1>0. TypeOK /\ Calls /\ References /\ Layout /\ Defined /\ InUseDrift
  BY DEF IInv
<1>1. PICK s \in Slot : s = call[t].slot
  BY <1>0, TypeFacts
<1>x. PICK x \in AnyText : x = call[t].name
  BY <1>0, TypeFacts
<1>a. PICK a \in Ids : a = call[t].arg
  BY <1>0, TypeFacts
<1>i. PICK i : i = size
  OBVIOUS
<1>n. size \in Nat \ {0} /\ i \in Nat \ {0}
  BY <1>0, <1>i, TypeFacts
<1> DEFINE td == call[t].todo
<1>2. td \in Todo /\ td # <<>> /\ Head(td) = "lookup" /\ Owner[s] = t /\ CallAgrees(t, call[t])
  BY <1>0, <1>1, AtCall DEF LookupNew
<1>3. td \in Vacant /\ Tail(td) = <<"drop">> /\ td # <<"drop">> /\ Tail(td) # <<>>
  <2>1. <<"drop">> \notin Vacant /\ <<"drop">> # <<>>
    BY DEF Vacant
  <2> QED
    BY <1>2, <2>1, TodoSteps
<1>4. s \notin alive /\ call[t].temp = 0 /\ <<"drop">> \notin Vacant /\ <<"drop">> \notin Copying
  BY <1>1, <1>2, <1>3 DEF CallAgrees, Vacant, Copying
<1>5. /\ blocks' = Inserted(x) /\ size' = SizeAfter(size) /\ x \notin DOMAIN defined
      /\ alive' = alive \cup {s}
      /\ ref' = [ref EXCEPT ![s] = i] /\ text' = [text EXCEPT ![s] = x]
      /\ Step(t, a, i) /\ seen' = [seen EXCEPT ![t] = size']
      /\ defined' = [y \in DOMAIN defined \union {x} |-> IF y = x THEN i ELSE defined[y]]
      /\ forgotten' = forgotten
  BY <1>1, <1>x, <1>i, <1>a DEF LookupNew, Found, Take
<1>6. size' = size + 1 /\ size' \in Nat /\ size <= size' /\ Ids' = 0 .. size /\ Ids \subseteq Ids'
      /\ i \in Ids' /\ i \notin Ids /\ a \in Ids'
  BY <1>5, <1>n, <1>i DEF SizeAfter, Ids
<1>7. /\ seen' \in [Thread -> 1 .. size'] /\ \A u \in Thread : seen[u] <= seen'[u]
      /\ i < seen'[t]
  BY <1>0, <1>5, <1>6, <1>n, <1>i DEF TypeOK
<1>8. /\ alive' \subseteq Slot /\ ref' \in [Slot -> Ids'] /\ text' \in [Slot -> AnyText]
      /\ \A r \in Slot : r # s => /\ r \in alive <=> r \in alive'
                                  /\ ref'[r] = ref[r] /\ text'[r] = text[r]
      /\ ref'[s] = i /\ text'[s] = x /\ s \in alive'
  BY <1>0, <1>5, <1>6 DEF TypeOK
<1>9. \A y \in DOMAIN defined : /\ y \in DOMAIN defined' /\ defined'[y] = defined[y]
                                /\ defined[y] \in Ids /\ y # x
  BY <1>0, <1>5, TypeFacts
<1>10. x \in DOMAIN defined' /\ defined'[x] = i /\ DOMAIN defined' = DOMAIN defined \union {x}
  BY <1>5
<1>11. /\ call' \in [Thread -> [todo : Seq(Do), slot : Slot, arg : Ids',
                                name : AnyText, temp : Ids']]
       /\ Calls'
       /\ call'[t].temp = i
       /\ \A u \in Thread : u # t => call'[u].temp = call[u].temp
  <2>1. /\ Tail(td) \in Vacant => call[t].slot \notin alive'
        /\ Tail(td) \in Copying =>
             call[t].name \in DOMAIN defined' /\ defined'[call[t].name] = a /\ a < seen'[t]
        /\ Tail(td) # <<"drop">> => i = 0
    BY <1>3, <1>4
  <2>2. \A r \in Slot : r # call[t].slot => (r \in alive <=> r \in alive')
    BY <1>1, <1>8
  <2>3. \A y \in DOMAIN defined : y \in DOMAIN defined' /\ defined'[y] = defined[y]
    BY <1>9
  <2> QED
    BY <1>0, <1>2, <1>5, <1>6, <1>7, <2>1, <2>2, <2>3, Progress
<1>12. /\ Layout'
       /\ \A j \in Ids : Get(j)' = Get(j)
       /\ Get(i)' = [data |-> x, in_use |-> 2]
  BY <1>0, <1>5, <1>i, InsertKeepsLayout
<1>13. TypeOK'
  <2>1. defined' \in [DOMAIN defined' -> Ids'] /\ DOMAIN defined' \subseteq AnyText
    BY <1>0, <1>5, <1>6, <1>9, <1>10 DEF TypeOK
  <2>2. blocks' \in Seq(Block) /\ size' \in Nat \ {0} /\ forgotten' \in [Text -> Nat]
    BY <1>0, <1>5, <1>6, <1>12, <1>n DEF TypeOK, Layout
  <2> QED
    BY <1>7, <1>8, <1>11, <2>1, <2>2 DEF TypeOK, Do, Block, Entry
<1>14. Named(Empty, 0) /\ \A y \in DOMAIN defined : Get(defined[y]).data = y
  BY <1>0 DEF Defined
<1>15. Defined'
  <2>1. Named(Empty, 0)'
    BY <1>9, <1>14 DEF Named
  <2>2. \A y \in DOMAIN defined' : Get(defined[y])'.data = y
    <3> TAKE y \in DOMAIN defined'
    <3>1. CASE y = x
      <4>1. Get(defined[y])' = Get(i)'
        BY <1>10, <3>1
      <4> QED
        BY <1>12, <3>1, <4>1
    <3>2. CASE y # x
      <4>1. y \in DOMAIN defined /\ defined'[y] = defined[y] /\ defined[y] \in Ids
        BY <1>9, <1>10, <3>2
      <4>2. PICK k \in Ids : k = defined[y]
        BY <4>1
      <4>3. Get(defined[y])' = Get(k)' /\ Get(k)' = Get(k) /\ Get(k) = Get(defined[y])
        BY <1>12, <4>1, <4>2
      <4> QED
        BY <1>14, <4>1, <4>3
    <3> QED
      BY <3>1, <3>2
  <2>3. \A y \in Text \ DOMAIN defined' : forgotten'[y] = 0
    BY <1>0, <1>5, <1>10 DEF Defined
  <2> QED
    BY <2>1, <2>2, <2>3 DEF Defined
<1>16. References'
  <2> SUFFICES ASSUME NEW r \in alive'
               PROVE  Named(text[r], ref[r])' /\ ref'[r] < seen'[Owner[r]]
    BY DEF References
  <2>1. CASE r = s
    BY <1>2, <1>7, <1>8, <1>10, <2>1 DEF Named
  <2>2. CASE r # s
    <3>1. r \in alive /\ ref'[r] = ref[r] /\ text'[r] = text[r]
      BY <1>8, <2>2
    <3>2. Named(text[r], ref[r]) /\ ref[r] < seen[Owner[r]]
      BY <1>0, <3>1 DEF References
    <3>3. Owner[r] \in Thread /\ ref[r] \in Nat /\ seen[Owner[r]] \in Nat
      BY <1>0, <3>1, TypeFacts DEF Ids
    <3>4. seen'[Owner[r]] \in Nat /\ seen[Owner[r]] <= seen'[Owner[r]]
      BY <1>7, <3>3
    <3>5. Named(text[r], ref[r])'
      BY <1>9, <3>1, <3>2 DEF Named
    <3> QED
      BY <3>1, <3>2, <3>3, <3>4, <3>5
  <2> QED
    BY <2>1, <2>2
<1>17. InUseDrift'
  <2> SUFFICES ASSUME NEW y \in DOMAIN defined' \ {Empty}
               PROVE  Get(defined[y])'.in_use + forgotten'[y] = Holders(defined[y])'
    BY DEF InUseDrift
  <2>1. alive \subseteq Slot /\ \A r \in Slot : r # s => (r \in alive <=> r \in alive') /\ ref'[r] = ref[r]
    BY <1>0, <1>8 DEF TypeOK
  <2>2. \A k : /\ Holders(k) \in Nat
               /\ Holders(k)' = Holders(k) + Holds(s, k)' - Holds(s, k) + Keeps(t, k)' - Keeps(t, k)
    <3> TAKE k
    <3> QED
      BY <1>8, <1>11, <2>1, HoldersChange
  <2>3. CASE y = x
    <3>1. Holders(i) = 0
      <4>1. \A r \in alive : ref[r] # i
        BY <1>0, <1>6, TypeFacts
      <4>2. \A u \in Thread : call[u].temp # i
        BY <1>0, <1>6, TypeFacts
      <4>3. {r \in alive : ref[r] = i} = {} /\ {u \in Thread : call[u].temp = i} = {}
        BY <4>1, <4>2
      <4>4. Cardinality({r \in alive : ref[r] = i}) = 0 /\ Cardinality({u \in Thread : call[u].temp = i}) = 0
        BY <4>3, FS_EmptySet
      <4> QED
        BY <4>4 DEF Holders
    <3>2. /\ Holds(s, i) = 0 /\ Holds(s, i)' = 1 /\ Keeps(t, i) = 0 /\ Keeps(t, i)' = 1
      BY <1>4, <1>8, <1>11, <1>n DEF Holds, Keeps
    <3>3. Holders(i)' = 2
      BY <2>2, <3>1, <3>2
    <3>4. defined'[y] = i
      BY <1>10, <2>3
    <3>5. Get(defined[y])' = Get(i)' /\ Holders(defined[y])' = Holders(i)'
      BY <3>4
    <3>6. forgotten'[y] = 0
      BY <1>0, <1>5, <2>3 DEF Defined, AnyText
    <3> QED
      BY <1>12, <3>3, <3>5, <3>6
  <2>4. CASE y # x
    <3>1. y \in DOMAIN defined /\ defined'[y] = defined[y] /\ defined[y] \in Ids
      BY <1>9, <1>10, <2>4
    <3>2. PICK k \in Ids : k = defined[y]
      BY <3>1
    <3>3. k # i /\ k # 0
      BY <1>6, <1>14, <3>1, <3>2 DEF Named
    <3>4. /\ Holds(s, k) = 0 /\ Holds(s, k)' = 0 /\ Keeps(t, k) = 0 /\ Keeps(t, k)' = 0
      BY <1>4, <1>8, <1>11, <3>3 DEF Holds, Keeps
    <3>5. Holders(k)' = Holders(k)
      BY <2>2, <3>4
    <3>6. Get(k).in_use + forgotten[y] = Holders(k)
      BY <1>0, <3>1, <3>2 DEF InUseDrift
    <3>7. Get(defined[y])' = Get(k)' /\ Holders(defined[y])' = Holders(k)'
      BY <3>1, <3>2
    <3> QED
      BY <1>5, <1>12, <3>2, <3>5, <3>6, <3>7
  <2> QED
    BY <2>3, <2>4
<1> QED
  BY <1>11, <1>12, <1>13, <1>15, <1>16, <1>17 DEF IInv

-----------------------------------------------------------------------------
(* The invariant holds initially and every step keeps it.                  *)

LEMMA IInvInit == Init => IInv
<1> SUFFICES ASSUME Init PROVE IInv
  OBVIOUS
<1> DEFINE entry == [data |-> Empty, in_use |-> 0]
           block == [entries |-> <<entry>>, capacity |-> BlockSize]
<1>1. /\ blocks = <<block>> /\ defined = [x \in {Empty} |-> 0] /\ size = 1
      /\ ref = [s \in Slot |-> 0] /\ alive = {} /\ text = [s \in Slot |-> Empty]
      /\ call = [t \in Thread |-> Idle] /\ seen = [t \in Thread |-> 1]
      /\ forgotten = [x \in Text |-> 0]
  BY DEF Init
<1>2. entry \in Entry /\ entry.data = Empty
  BY DEF Entry, AnyText
<1> HIDE DEF entry
<1>3. block \in Block /\ block.entries = <<entry>> /\ block.capacity = BlockSize
      /\ Len(block.entries) = 1 /\ block.entries[1] = entry
  BY <1>2, BlockSizeAssumption DEF Block
<1> HIDE DEF block
<1>4. blocks \in Seq(Block) /\ Len(blocks) = 1 /\ blocks[1] = block
  BY <1>1, <1>3
<1>5. Layout
  <2>1. blocks[Len(blocks)] = block
    BY <1>4
  <2>2. Len(blocks[Len(blocks)].entries) = 1
    BY <1>3, <2>1
  <2>3. BlockSize * (Len(blocks) - 1) = 0
    BY <1>4, BlockSizeAssumption
  <2>4. Counted
    <3>1. size = 0 + 1
      BY <1>1
    <3> QED
      BY <2>2, <2>3, <3>1 DEF Counted
  <2>5. \A k \in 1 .. Len(blocks) :
           /\ blocks[k].capacity = BlockSize
           /\ Len(blocks[k].entries) \in 1 .. BlockSize
           /\ k < Len(blocks) => Len(blocks[k].entries) = BlockSize
    <3>1. TAKE k \in 1 .. Len(blocks)
    <3>2. k = 1 /\ ~(k < Len(blocks)) /\ blocks[k] = block
      BY <1>4
    <3>3. 1 \in 1 .. BlockSize
      BY BlockSizeAssumption
    <3>4. blocks[k].capacity = BlockSize /\ Len(blocks[k].entries) = 1
      BY <1>3, <3>2
    <3> QED
      BY <3>2, <3>3, <3>4
  <2> QED
    BY <1>4, <2>4, <2>5 DEF Layout
<1>6. Ids = {0}
  BY <1>1 DEF Ids
<1>7. Idle \in [todo : Seq(Do), slot : Slot, arg : Ids, name : AnyText, temp : Ids]
  <2>1. PICK s \in Slot : Idle = [todo |-> <<>>, slot |-> s, arg |-> 0, name |-> Empty, temp |-> 0]
    BY IdleFacts
  <2>2. <<>> \in Seq(Do) /\ Empty \in AnyText
    BY DEF AnyText
  <2> QED
    BY <1>6, <2>1, <2>2
<1>8. TypeOK
  <2>1. call \in [Thread -> [todo : Seq(Do), slot : Slot, arg : Ids, name : AnyText, temp : Ids]]
    BY <1>1, <1>7
  <2>2. /\ defined \in [DOMAIN defined -> Ids] /\ DOMAIN defined \subseteq AnyText
        /\ ref \in [Slot -> Ids] /\ alive \subseteq Slot /\ text \in [Slot -> AnyText]
        /\ seen \in [Thread -> 1 .. size] /\ forgotten \in [Text -> Nat] /\ size \in Nat \ {0}
    BY <1>1, <1>6 DEF AnyText
  <2> QED
    BY <1>4, <2>1, <2>2 DEF TypeOK, Do, Block, Entry
<1>9. Defined
  <2>1. Get(0).data = Empty
    <3>1. BlockOf(0) = 1 /\ IndexOf(0) = 1
      <4>1. 0 = BlockSize * 0 + 0 /\ 0 \in 0 .. BlockSize - 1
        BY BlockSizeAssumption
      <4> QED
        BY <4>1, DivisionUnique DEF BlockOf, IndexOf
    <3> QED
      BY <1>2, <1>3, <1>4, <3>1 DEF Get
  <2> QED
    BY <1>1, <2>1 DEF Defined, Named
<1>10. References /\ InUseDrift
  BY <1>1 DEF References, InUseDrift
<1>11. Calls
  <2>1. <<>> \in Todo /\ <<>> \notin Giving /\ <<>> \notin Vacant /\ <<>> \notin Copying
    BY DEF Todo, Giving, Vacant, Copying
  <2> QED
    BY <1>1, <2>1, IdleFacts DEF Calls, CallAgrees
<1> QED
  BY <1>5, <1>8, <1>9, <1>10, <1>11 DEF IInv

LEMMA IInvStep == IInv /\ [Next]_vars => IInv'
<1> SUFFICES ASSUME IInv, [Next]_vars PROVE IInv'
  OBVIOUS
<1>1. ASSUME NEW t \in Thread, Continue(t) PROVE IInv'
  BY <1>1, ReleaseStep, LookupKnownStep, LookupNewStep, DropStep, TestStep, AcquireStep, HoldStep
     DEF Continue
<1>2. CASE Next
  BY <1>1, <1>2, BeginStep DEF Next
<1>3. CASE UNCHANGED vars
  <2>1. /\ blocks' = blocks /\ defined' = defined /\ size' = size /\ ref' = ref /\ alive' = alive
        /\ text' = text /\ call' = call /\ seen' = seen /\ forgotten' = forgotten
    BY <1>3 DEF vars, dbVars, refVars
  <2>2. Ids' = Ids /\ \A i : Get(i)' = Get(i) /\ Holders(i)' = Holders(i)
    BY <2>1 DEF Ids, Get, Holders
  <2>3. TypeOK'
    BY <2>1, <2>2 DEF IInv, TypeOK
  <2>4. Layout'
    BY <2>1 DEF IInv, Layout, Counted
  <2>5. Calls' /\ References'
    BY <2>1 DEF IInv, Calls, CallAgrees, References, Named
  <2>6. Defined' /\ InUseDrift'
    BY <2>1, <2>2 DEF IInv, Defined, Named, InUseDrift
  <2> QED
    BY <2>3, <2>4, <2>5, <2>6 DEF IInv
<1> QED
  BY <1>2, <1>3

LEMMA Inductive == Spec => []IInv
BY IInvInit, IInvStep, PTL DEF Spec

-----------------------------------------------------------------------------
(* Every variable keeps its type: an id never leaves the table, whatever   *)
(* sizes the unlocked tests read (the lyasserts of StringRef).             *)
THEOREM TypeCorrect == Spec => []TypeOK
<1>1. IInv => TypeOK
  BY DEF IInv
<1> QED
  BY <1>1, Inductive, PTL

(* Two references are equal exactly when the texts they were built from    *)
(* are, and each still reads as its text (operator==, names.h:148).        *)
THEOREM ReferencesCompare == Spec => []EqualNames
<1>1. IInv => EqualNames
  <2> SUFFICES ASSUME IInv, NEW s \in alive
               PROVE  /\ Get(ref[s]).data = text[s]
                      /\ \A r \in alive : (ref[s] = ref[r]) <=> (text[s] = text[r])
    BY DEF EqualNames
  <2>1. \A r \in alive : Named(text[r], ref[r])
    BY DEF IInv, References
  <2>2. \A x \in DOMAIN defined : Get(defined[x]).data = x
    BY DEF IInv, Defined
  <2>3. \A r \in alive : text[r] \in DOMAIN defined /\ defined[text[r]] = ref[r]
                         /\ Get(ref[r]).data = text[r]
    BY <2>1, <2>2 DEF Named
  <2> QED
    BY <2>3
<1> QED
  BY <1>1, Inductive, PTL

(* in_use is short of the references by the repeated internings, never by  *)
(* more and never by less, for any number of threads (names.cpp:84-123).   *)
THEOREM CountsDriftExactly == Spec => []InUseDrift
<1>1. IInv => InUseDrift
  BY DEF IInv
<1> QED
  BY <1>1, Inductive, PTL

Kept ==
  \A k \in 1 .. Len(blocks) :
    /\ k <= Len(blocks')
    /\ blocks'[k].capacity = blocks[k].capacity
    /\ \A i \in 1 .. Len(blocks[k].entries) :
          /\ i <= Len(blocks'[k].entries)
          /\ blocks'[k].entries[i].data = blocks[k].entries[i].data

LEMMA StepKeeps == IInv /\ [Next]_vars => Kept
<1> SUFFICES ASSUME IInv, [Next]_vars PROVE Kept
  OBVIOUS
<1>0. TypeOK /\ Layout /\ Calls
  BY DEF IInv
<1>1. blocks \in Seq(Block) /\ \A k \in 1 .. Len(blocks) : blocks[k].entries \in Seq(Entry)
  BY <1>0, BlockAt DEF Layout
<1>2. ASSUME blocks' = blocks PROVE Kept
  BY <1>1, <1>2 DEF Kept
<1>3. ASSUME NEW i \in Ids, NEW d \in Int, blocks' = Use(blocks, i, d), size' = size PROVE Kept
  <2>1. /\ Len(blocks') = Len(blocks)
        /\ \A k \in 1 .. Len(blocks) :
              /\ blocks'[k].capacity = blocks[k].capacity
              /\ Len(blocks'[k].entries) = Len(blocks[k].entries)
              /\ \A e \in 1 .. Len(blocks[k].entries) :
                     blocks'[k].entries[e].data = blocks[k].entries[e].data
    BY <1>0, <1>3, UseKeepsLayout
  <2> QED
    BY <1>1, <2>1 DEF Kept
<1>4. ASSUME NEW x \in AnyText, blocks' = Inserted(x), size' = SizeAfter(size) PROVE Kept
  <2>1. /\ Layout' /\ Len(blocks) <= Len(blocks')
        /\ \A k \in 1 .. Len(blocks) :
              /\ blocks'[k].capacity = blocks[k].capacity
              /\ Len(blocks[k].entries) <= Len(blocks'[k].entries)
              /\ \A e \in 1 .. Len(blocks[k].entries) :
                     blocks'[k].entries[e] = blocks[k].entries[e]
    BY <1>0, <1>4, InsertKeepsLayout
  <2>2. Len(blocks') \in Nat /\ \A k \in 1 .. Len(blocks) : Len(blocks'[k].entries) \in Nat
    BY <1>1, <2>1 DEF Layout
  <2> QED
    BY <1>1, <2>1, <2>2 DEF Kept
<1>5. ASSUME NEW t \in Thread, Begin(t) PROVE blocks' = blocks
  BY <1>5 DEF Begin, Build, AssignString, Copy, Assign, Destroy, dbVars
<1>6. ASSUME NEW t \in Thread, Continue(t) PROVE Kept
  <2>0. /\ \A s \in Slot : ref[s] \in Ids
        /\ call[t].slot \in Slot /\ call[t].arg \in Ids /\ call[t].temp \in Ids
        /\ call[t].name \in AnyText /\ \A x \in DOMAIN defined : defined[x] \in Ids
    BY <1>0, TypeFacts
  <2>1. CASE Release(t)
    BY <1>3, <2>0, <2>1 DEF Release
  <2>2. CASE LookupKnown(t)
    BY <1>3, <2>0, <2>2 DEF LookupKnown
  <2>3. CASE LookupNew(t)
    BY <1>4, <2>0, <2>3 DEF LookupNew
  <2>4. CASE Drop(t)
    BY <1>3, <2>0, <2>4 DEF Drop
  <2>5. CASE Test(t)
    BY <1>2, <2>5 DEF Test, dbVars
  <2>6. CASE Acquire(t)
    BY <1>3, <2>0, <2>6 DEF Acquire
  <2>7. CASE Hold(t)
    BY <1>3, <2>0, <2>7 DEF Hold
  <2> QED
    BY <1>6, <2>1, <2>2, <2>3, <2>4, <2>5, <2>6, <2>7 DEF Continue
<1>7. CASE UNCHANGED vars
  BY <1>2, <1>7 DEF vars, dbVars
<1> QED
  BY <1>2, <1>5, <1>6, <1>7 DEF Next

(* Blocks never move and the text of an entry never changes, so that views *)
(* and the keys of `defined` stay good (names.h:105), whatever BlockSize.  *)
THEOREM EntriesStay == Spec => ViewsStay
<1>1. IInv /\ [Next]_vars => [Kept]_vars
  BY StepKeeps
<1> QED
  BY <1>1, Inductive, PTL DEF Spec, ViewsStay, Kept
=============================================================================
