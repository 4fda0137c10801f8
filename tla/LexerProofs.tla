---------------------------- MODULE LexerProofs ----------------------------
(* Theorems about Lexer, for every set of words, every file and every      *)
(* width of an indentation.                                                *)
EXTENDS Lexer, SequenceTheorems, WellFoundedInduction, TLAPS

-----------------------------------------------------------------------------
(* The inductive invariant                                                 *)

\* What is left of a line: words, then its end; a comment only before the end.
Ends(w) ==
  /\ w \in Seq(Kind) /\ w # <<>>
  /\ w[Len(w)] \in {"newline", "eof"}
  /\ \A i \in 1 .. Len(w) - 1 : w[i] \in Word /\ (w[i] = "comment" => i = Len(w) - 1)

LineInv ==
  /\ Ends(line.words)
  /\ line.words[Len(line.words)] = "newline" => line.row < MaxLines
  \* after a comment only the end of the line is left; blanks that hid a newline
  \* leave indentation to the next line
  /\ \/ /\ Reached >= LYTHON_INDENT * line.level
        /\ clean => Reached = LYTHON_INDENT * line.level
     \/ Len(line.words) = 1

\* An INDENT or a DESINDENT read ahead waits alone.
LayoutAlone == \A i \in DOMAIN buffer : buffer[i].kind \in {"indent", "desindent"} => Len(buffer) = 1

\* depth, once the tokens read ahead are delivered
DepthRead ==
  IF buffer = <<>> THEN depth
  ELSE CASE buffer[1].kind = "indent" -> depth + 1
         [] buffer[1].kind = "desindent" -> depth - 1
         [] OTHER -> depth

\* The INDENTs and DESINDENTs read so far lead to the deepest indentation.
BlocksOpen ==
  /\ depth \in Nat
  /\ DepthRead \in Nat
  /\ LYTHON_INDENT * DepthRead >= Deepest
  /\ clean => LYTHON_INDENT * DepthRead = Deepest

\* A token of code, read or delivered, is in the block of its line.
Placed(t) ==
  (t # NoToken /\ IsCode(t.kind) /\ t.kind \notin {"indent", "desindent"})
     => depth >= t.level /\ (clean => depth = t.level)

IInv ==
  /\ TypeOK
  /\ LineInv
  /\ LayoutAlone
  /\ BlocksOpen
  /\ Placed(token) /\ \A i \in DOMAIN buffer : Placed(buffer[i])
  /\ TokensInOrder

\* Once a word of its line is read no INDENT and no DESINDENT comes before the next line.
MidLine == line.spaces = 0 /\ (IsCode(Head(line.words)) => Reached >= oindent)

AtEnd == line.spaces = 0 /\ line.words = <<"eof">>

\* What the tokens read so far say of the reader, and where they come from.
ReadInv ==
  /\ \A i \in DOMAIN buffer :
       /\ buffer[i].kind \in {"newline", "eof"} => i = 1
       /\ buffer[i].row \in 1 .. MaxLines
  /\ buffer # <<>> => /\ buffer[1].kind = "eof" => AtEnd
                      /\ buffer[1].kind \notin Layout => MidLine
  /\ token = NoToken \/ token.row \in 1 .. MaxLines
  /\ token.kind = "eof" => AtEnd /\ \A i \in DOMAIN buffer : buffer[i].kind = "eof"
  /\ token # NoToken /\ token.kind \notin Layout =>
       IF buffer = <<>> THEN MidLine ELSE buffer[Len(buffer)].kind \notin {"indent", "desindent"}

FullInv == IInv /\ ReadInv

-----------------------------------------------------------------------------
(* Recursive functions                                                     *)

LEMMA Least ==
  ASSUME NEW S \in SUBSET Nat, S # {}
  PROVE  \E m \in S : \A p \in S : m <= p
<1>1. PICK m \in S : \A p \in S : ~ (<<p, m>> \in OpToRel(<, Nat))
  BY NatLessThanWellFounded, WFMin
<1>2. \A p \in S : ~ (p < m)
  BY <1>1 DEF OpToRel
<1> QED
  BY <1>2

\* An element of D that lies in T can be taken with the least rank.
LEMMA LeastRank ==
  ASSUME NEW D, NEW rank \in [D -> Nat], NEW T \in SUBSET D, T # {}
  PROVE  \E x \in T : \A y \in T : rank[x] <= rank[y]
<1> DEFINE S == {rank[y] : y \in T}
<1>1. S \in SUBSET Nat /\ S # {}
  OBVIOUS
<1>2. PICK m \in S : \A p \in S : m <= p
  BY <1>1, Least
<1>3. PICK x \in T : rank[x] = m
  BY <1>2
<1> QED
  BY <1>2, <1>3

\* f follows the recursion on the elements whose rank is below n.
Follows(f, n, D, rank, stop, first, before, step) ==
  \A x \in D : rank[x] < n =>
    f[x] = IF x \in stop THEN first[x] ELSE step[x][f[before[x]]]

LEMMA FollowersAgree ==
  ASSUME NEW D, NEW rank \in [D -> Nat], NEW stop, NEW first, NEW before \in [D -> D], NEW step,
         \A x \in D : x \notin stop => rank[before[x]] < rank[x],
         NEW f, NEW g, NEW n \in Nat, NEW m \in Nat,
         Follows(f, n, D, rank, stop, first, before, step),
         Follows(g, m, D, rank, stop, first, before, step),
         NEW x \in D, rank[x] < n, rank[x] < m
  PROVE  f[x] = g[x]
<1> DEFINE T == {y \in D : rank[y] < n /\ rank[y] < m /\ f[y] # g[y]}
<1> SUFFICES T = {}
  OBVIOUS
<1> SUFFICES ASSUME T # {} PROVE FALSE
  OBVIOUS
<1>1. PICK y \in T : \A z \in T : rank[y] <= rank[z]
  BY LeastRank
<1>2. y \notin stop
  BY <1>1 DEF Follows
<1>3. before[y] \in D /\ rank[before[y]] \in Nat /\ rank[y] \in Nat /\ rank[before[y]] < rank[y]
  BY <1>1, <1>2
<1>4. before[y] \notin T
  BY <1>1, <1>3
<1>5. f[before[y]] = g[before[y]]
  BY <1>1, <1>3, <1>4
<1> QED
  BY <1>1, <1>2, <1>5 DEF Follows

\* A recursion with values in V that goes down in rank.
GoesDown(D, V, rank, stop, first, before, step) ==
  /\ rank \in [D -> Nat] /\ first \in [D -> V]
  /\ before \in [D -> D] /\ step \in [D -> [V -> V]]
  /\ \A x \in D : x \notin stop => rank[before[x]] < rank[x]

Solves(f, D, V, stop, first, before, step) ==
  /\ f \in [D -> V]
  /\ \A x \in D : f[x] = IF x \in stop THEN first[x] ELSE step[x][f[before[x]]]

\* Such a recursion is met by a function.
LEMMA RecursionExists ==
  ASSUME NEW D, NEW V, NEW rank, NEW stop, NEW first, NEW before, NEW step,
         GoesDown(D, V, rank, stop, first, before, step)
  PROVE  \E f : Solves(f, D, V, stop, first, before, step)
<1> USE DEF GoesDown
<1> DEFINE Good(f, n) == Follows(f, n, D, rank, stop, first, before, step)
           T == {n \in Nat : ~ \E f \in [D -> V] : Good(f, n)}
<1>1. T = {}
  <2> SUFFICES ASSUME T # {} PROVE FALSE
    OBVIOUS
  <2>1. PICK n \in T : \A m \in T : n <= m
    BY Least
  <2>2. CASE n = 0
    <3>1. first \in [D -> V] /\ Good(first, 0)
      BY DEF Follows
    <3> QED
      BY <2>1, <2>2, <3>1
  <2>3. CASE n # 0
    <3>1. n - 1 \in Nat /\ n - 1 \notin T
      BY <2>1, <2>3
    <3>2. PICK f \in [D -> V] : Good(f, n - 1)
      BY <3>1
    <3> DEFINE g == [x \in D |-> IF x \in stop THEN first[x] ELSE step[x][f[before[x]]]]
    <3>3. g \in [D -> V]
      OBVIOUS
    <3>4. ASSUME NEW x \in D, rank[x] < n, x \notin stop
          PROVE  g[before[x]] = f[before[x]]
      <4>1. before[x] \in D /\ rank[before[x]] < n - 1
        BY <3>1, <3>4
      <4> QED
        BY <3>2, <4>1 DEF Follows
    <3>5. Good(g, n)
      BY <3>4 DEF Follows
    <3> QED
      BY <2>1, <3>3, <3>5
  <2> QED
    BY <2>2, <2>3
<1>2. \A n \in Nat : \E f \in [D -> V] : Good(f, n)
  BY <1>1
<1> DEFINE F(n) == CHOOSE f \in [D -> V] : Good(f, n)
           h == [x \in D |-> F(rank[x] + 1)[x]]
<1>3. \A n \in Nat : F(n) \in [D -> V] /\ Good(F(n), n)
  BY <1>2
<1> HIDE DEF F
<1>4. h \in [D -> V]
  BY <1>3
<1>5. ASSUME NEW x \in D, x \notin stop
      PROVE  F(rank[x] + 1)[before[x]] = h[before[x]]
  <2> DEFINE y == before[x]
  <2>1. y \in D /\ rank[y] \in Nat /\ rank[x] \in Nat /\ rank[y] < rank[x] + 1
    BY <1>5
  <2>2. Good(F(rank[x] + 1), rank[x] + 1) /\ Good(F(rank[y] + 1), rank[y] + 1)
    BY <1>3, <2>1
  <2>3. rank[y] < rank[y] + 1 /\ rank[x] + 1 \in Nat /\ rank[y] + 1 \in Nat
    BY <2>1
  <2>4. F(rank[x] + 1)[y] = F(rank[y] + 1)[y]
    BY <2>1, <2>2, <2>3, FollowersAgree
  <2> QED
    BY <2>1, <2>4
<1>6. ASSUME NEW x \in D
      PROVE  h[x] = IF x \in stop THEN first[x] ELSE step[x][h[before[x]]]
  <2>1. rank[x] + 1 \in Nat /\ rank[x] < rank[x] + 1
    OBVIOUS
  <2>2. Good(F(rank[x] + 1), rank[x] + 1)
    BY <1>3, <2>1
  <2>3. h[x] = IF x \in stop THEN first[x] ELSE step[x][F(rank[x] + 1)[before[x]]]
    BY <2>1, <2>2 DEF Follows
  <2> QED
    BY <1>5, <2>3
<1> QED
  BY <1>4, <1>6 DEF Solves

-----------------------------------------------------------------------------
(* What the lookahead returns                                              *)

Answer == [kind : Kind, pushed : Seq(Kind), left : Seq(Kind)]

LEMMA KindFacts ==
  /\ {"is", "not", "in", "comment"} \subseteq Word /\ Word \subseteq Kind
  /\ {"is not", "not in", "newline", "eof", "indent", "desindent"} \subseteq Kind
  /\ {"is not", "not in", "newline", "eof", "indent", "desindent"} \cap Word = {}
BY WordAssumption DEF Kind, Layout, Combined

LEMMA TailOfPhrase ==
  ASSUME NEW w \in Phrase
  PROVE  /\ Head(w) \in Kind /\ w[1] = Head(w) /\ Tail(w) \in Seq(Kind)
         /\ Len(w) \in Nat \ {0} /\ Len(Tail(w)) = Len(w) - 1
         /\ Head(w) \in {"is", "not"} => Tail(w) \in Phrase
<1>1. w \in Seq(Kind) /\ w # <<>> /\ w[Len(w)] \notin {"is", "not"}
  BY DEF Phrase, Last
<1>2. Head(w) \in Kind /\ w[1] = Head(w) /\ Tail(w) \in Seq(Kind) /\ Len(w) \in Nat \ {0}
      /\ Len(Tail(w)) = Len(w) - 1
  BY <1>1
<1>3. ASSUME Head(w) \in {"is", "not"} PROVE Tail(w) \in Phrase
  <2>1. Len(w) # 1
    BY <1>1, <1>2, <1>3
  <2>2. Tail(w) # <<>> /\ Len(Tail(w)) \in 1 .. Len(Tail(w))
    BY <1>2, <2>1
  <2>3. Tail(w)[Len(Tail(w))] = w[Len(w)]
    BY <1>1, <1>2, <2>2
  <2> QED
    BY <1>1, <1>2, <2>2, <2>3 DEF Phrase, Last
<1> QED
  BY <1>2, <1>3

LEMMA CombineType ==
  ASSUME NEW word \in Kind, NEW next \in Answer
  PROVE  Combine(word, next) \in Answer
<1>1. /\ next = [kind |-> next.kind, pushed |-> next.pushed, left |-> next.left]
      /\ next.kind \in Kind /\ next.pushed \in Seq(Kind) /\ next.left \in Seq(Kind)
  BY DEF Answer
<1>2. Append(next.pushed, next.kind) \in Seq(Kind)
  BY <1>1
<1>3. \/ Combine(word, next) = [next EXCEPT !.kind = "is not"]
      \/ Combine(word, next) = [next EXCEPT !.kind = "not in"]
      \/ Combine(word, next) = [next EXCEPT !.kind = word, !.pushed = Append(next.pushed, next.kind)]
  BY DEF Combine, PushBack
<1> QED
  BY <1>1, <1>2, <1>3, KindFacts DEF Answer

LEMMA AloneType ==
  ASSUME NEW w \in Phrase
  PROVE  Alone(w) \in Answer
BY TailOfPhrase DEF Alone, Answer, Phrase

LEMMA LookaheadUnfolds ==
  /\ Lookahead \in [Phrase -> Answer]
  /\ \A w \in Phrase :
       Lookahead[w] = IF Head(w) \in {"is", "not"} THEN Combine(Head(w), Lookahead[Tail(w)])
                      ELSE Alone(w)
<1> DEFINE Ops == {"is", "not"}
           rank == [w \in Phrase |-> Len(w)]
           stop == {w \in Phrase : Head(w) \notin Ops}
           first == [w \in Phrase |-> Alone(w)]
           before == [w \in Phrase |-> IF Head(w) \in Ops THEN Tail(w) ELSE w]
           step == [w \in Phrase |-> [a \in Answer |-> Combine(Head(w), a)]]
           Meets(f) == f = [w \in Phrase |->
             IF Head(w) \in Ops THEN Combine(Head(w), f[Tail(w)]) ELSE Alone(w)]
<1>1. rank \in [Phrase -> Nat] /\ before \in [Phrase -> Phrase]
  BY TailOfPhrase
<1>2. first \in [Phrase -> Answer]
  BY AloneType
<1>3. step \in [Phrase -> [Answer -> Answer]]
  BY TailOfPhrase, CombineType
<1>4. \A w \in Phrase : w \notin stop => rank[before[w]] < rank[w]
  BY TailOfPhrase
<1> HIDE DEF rank, first, before, step, stop
<1>5. PICK f \in [Phrase -> Answer] :
        \A w \in Phrase : f[w] = IF w \in stop THEN first[w] ELSE step[w][f[before[w]]]
  <2>1. GoesDown(Phrase, Answer, rank, stop, first, before, step)
    BY <1>1, <1>2, <1>3, <1>4 DEF GoesDown
  <2>2. PICK f : Solves(f, Phrase, Answer, stop, first, before, step)
    BY <2>1, RecursionExists
  <2> QED
    BY <2>2 DEF Solves
<1>6. ASSUME NEW w \in Phrase
      PROVE  f[w] = IF Head(w) \in Ops THEN Combine(Head(w), f[Tail(w)]) ELSE Alone(w)
  <2>1. CASE Head(w) \in Ops
    <3>1. w \notin stop /\ before[w] = Tail(w) /\ f[Tail(w)] \in Answer
      BY <1>5, <2>1, TailOfPhrase DEF stop, before
    <3>2. step[w][f[Tail(w)]] = Combine(Head(w), f[Tail(w)])
      BY <3>1 DEF step
    <3> QED
      BY <1>5, <2>1, <3>1, <3>2
  <2>2. CASE Head(w) \notin Ops
    BY <1>5, <2>2 DEF stop, first
  <2> QED
    BY <2>1, <2>2
<1>7. Meets(f)
  BY <1>6
<1>8. Lookahead = CHOOSE g : Meets(g)
  BY DEF Lookahead
<1>9. Meets(Lookahead)
  BY <1>7, <1>8
<1>10. ASSUME NEW g, Meets(g)
       PROVE  /\ g \in [Phrase -> Answer]
              /\ \A w \in Phrase :
                   g[w] = IF Head(w) \in Ops THEN Combine(Head(w), g[Tail(w)]) ELSE Alone(w)
  <2>1. \A w \in Phrase :
                   g[w] = IF Head(w) \in Ops THEN Combine(Head(w), g[Tail(w)]) ELSE Alone(w)
    BY <1>10
  <2>2. \A w \in Phrase : Head(w) \in Ops => Tail(w) \in Phrase /\ Len(Tail(w)) < Len(w)
    BY TailOfPhrase
  <2> DEFINE T == {w \in Phrase : g[w] \notin Answer}
  <2>3. T = {}
    <3> SUFFICES ASSUME T # {} PROVE FALSE
      OBVIOUS
    <3>1. PICK w \in T : \A v \in T : rank[w] <= rank[v]
      BY <1>1, LeastRank
    <3>2. CASE Head(w) \in Ops
      <4>1. Tail(w) \in Phrase /\ ~ (rank[w] <= rank[Tail(w)])
        BY <2>2, <3>2, TailOfPhrase DEF rank
      <4>2. g[Tail(w)] \in Answer
        BY <3>1, <4>1
      <4> QED
        BY <2>1, <3>2, <4>2, CombineType, TailOfPhrase
    <3>3. CASE Head(w) \notin Ops
      BY <2>1, <3>3, AloneType
    <3> QED
      BY <3>2, <3>3
  <2>4. g = [w \in Phrase |-> g[w]]
    BY <1>10
  <2> HIDE DEF Meets
  <2> QED
    BY <2>1, <2>3, <2>4
<1> QED
  BY <1>9, <1>10

-----------------------------------------------------------------------------
(* The words of tokens                                                     *)

LEMMA SpellingType == ASSUME NEW k \in Kind PROVE Spelling(k) \in Seq(Kind)
<1>1. \/ Spelling(k) = <<"is", "not">> \/ Spelling(k) = <<"not", "in">>
      \/ Spelling(k) = <<>> \/ Spelling(k) = <<k>>
  BY DEF Spelling
<1>2. {"is", "not", "in"} \subseteq Kind
  BY KindFacts
<1>3. <<"is", "not">> \in Seq(Kind)
  BY <1>2
<1>4. <<"not", "in">> \in Seq(Kind)
  BY <1>2
<1>5. <<>> \in Seq(Kind)
  OBVIOUS
<1>6. <<k>> \in Seq(Kind)
  OBVIOUS
<1> QED
  BY <1>1, <1>3, <1>4, <1>5, <1>6, Zenon

LEMMA FrontOfKinds ==
  ASSUME NEW ks \in Seq(Kind), ks # <<>>
  PROVE  /\ Front(ks) \in Seq(Kind) /\ Last(ks) \in Kind
         /\ Len(Front(ks)) = Len(ks) - 1 /\ Len(ks) \in Nat \ {0}
<1>1. Len(ks) \in Nat \ {0}
  BY EmptySeq
<1>2. \A i \in 1 .. Len(ks) - 1 : ks[i] \in Kind
  BY <1>1
<1>3. Front(ks) \in Seq(Kind) /\ Len(Front(ks)) = Len(ks) - 1
  <2> DEFINE n == Len(ks) - 1
  <2>1. n \in Nat /\ 1 \in Int /\ n \in Int
    BY <1>1
  <2>2. \A i \in 1 .. n : ks[i] \in Kind
    BY <1>2
  <2> HIDE DEF n
  <2>3. SubSeq(ks, 1, n) \in Seq(Kind) /\ Len(SubSeq(ks, 1, n)) = IF 1 <= n THEN n - 1 + 1 ELSE 0
    BY <2>1, <2>2, SubSeqProperties
  <2> QED
    <3>1. (1 <= n => n - 1 + 1 = n) /\ (~ (1 <= n) => n = 0)
      BY <2>1
    <3>2. Front(ks) = SubSeq(ks, 1, n)
      BY DEF Front, n
    <3>3. Len(Front(ks)) = n /\ Front(ks) \in Seq(Kind)
      BY <2>3, <3>1, <3>2
    <3> QED
      BY <3>3 DEF n
<1>4. Last(ks) \in Kind
  BY <1>1 DEF Last
<1> QED
  BY <1>1, <1>3, <1>4

LEMMA SpelledUnfolds ==
  /\ Spelled \in [Seq(Kind) -> Seq(Kind)]
  /\ \A ks \in Seq(Kind) :
       Spelled[ks] = IF ks = <<>> THEN <<>> ELSE Spelling(Last(ks)) \o Spelled[Front(ks)]
<1> DEFINE D == Seq(Kind)
           rank == [ks \in D |-> Len(ks)]
           stop == {<<>>}
           first == [ks \in D |-> <<>>]
           before == [ks \in D |-> IF ks = <<>> THEN ks ELSE Front(ks)]
           step == [ks \in D |-> IF ks = <<>> THEN [s \in D |-> <<>>]
                                 ELSE [s \in D |-> Spelling(Last(ks)) \o s]]
           Value(g, ks) == IF ks = <<>> THEN <<>> ELSE Spelling(Last(ks)) \o g[Front(ks)]
           Meets(g) == g = [ks \in D |-> Value(g, ks)]
<1>1. rank \in [D -> Nat] /\ before \in [D -> D] /\ first \in [D -> D]
  BY FrontOfKinds
<1>2. step \in [D -> [D -> D]]
  BY FrontOfKinds, SpellingType
<1>3. \A ks \in D : ks \notin stop => rank[before[ks]] < rank[ks]
  BY FrontOfKinds
<1>4. \A ks \in D : ks \notin stop => before[ks] = Front(ks) /\ \A s \in D : step[ks][s] = Spelling(Last(ks)) \o s
  OBVIOUS
<1>5. \A ks \in D : ks \in stop => first[ks] = <<>>
  OBVIOUS
<1> HIDE DEF rank, first, before, step
<1>6. PICK f : Solves(f, D, D, stop, first, before, step)
  <2>1. GoesDown(D, D, rank, stop, first, before, step)
    BY <1>1, <1>2, <1>3 DEF GoesDown
  <2> HIDE DEF D, stop
  <2> QED
    BY <2>1, RecursionExists
<1>7. f \in [D -> D] /\ \A ks \in D : f[ks] = Value(f, ks)
  <2>1. \A ks \in D : ks # <<>> => Front(ks) \in D
    BY FrontOfKinds
  <2>2. f \in [D -> D]
        /\ \A ks \in D : f[ks] = IF ks \in stop THEN first[ks] ELSE step[ks][f[before[ks]]]
    BY <1>6 DEF Solves
  <2> HIDE DEF D
  <2>3. ASSUME NEW ks \in D, ks = <<>> PROVE f[ks] = Value(f, ks)
    BY <1>5, <2>2, <2>3
  <2>4. ASSUME NEW ks \in D, ks # <<>> PROVE f[ks] = Value(f, ks)
    <3>1. ks \notin stop /\ before[ks] = Front(ks) /\ f[Front(ks)] \in D
      BY <1>4, <2>1, <2>2, <2>4
    <3> QED
      BY <1>4, <2>2, <2>4, <3>1
  <2> QED
    BY <2>2, <2>3, <2>4
<1>8. Meets(f)
  BY <1>7
<1>9. Spelled = CHOOSE g : Meets(g)
  BY DEF Spelled
<1>10. Meets(Spelled)
  BY <1>8, <1>9
<1>11. \A ks \in D : Spelled[ks] = Value(Spelled, ks)
  BY <1>10
<1> DEFINE T == {ks \in D : Spelled[ks] \notin D}
<1>12. T = {}
  <2> SUFFICES ASSUME T # {} PROVE FALSE
    OBVIOUS
  <2>1. PICK ks \in T : \A l \in T : rank[ks] <= rank[l]
    BY <1>1, LeastRank
  <2>2. ks # <<>>
    BY <1>11, <2>1
  <2>3. Front(ks) \in D /\ Last(ks) \in Kind /\ rank[Front(ks)] < rank[ks]
        /\ rank[ks] \in Nat /\ rank[Front(ks)] \in Nat
    BY <1>1, <2>1, <2>2, FrontOfKinds DEF rank
  <2>4. Spelled[Front(ks)] \in D
    BY <2>1, <2>3
  <2>5. Spelling(Last(ks)) \in D
    BY <2>3, SpellingType
  <2>6. Spelling(Last(ks)) \o Spelled[Front(ks)] \in D
    BY <2>4, <2>5, ConcatProperties
  <2>7. Spelled[ks] = Spelling(Last(ks)) \o Spelled[Front(ks)]
    BY <1>11, <2>1, <2>2
  <2> QED
    BY <2>1, <2>6, <2>7
<1>13. DOMAIN Spelled = D /\ Spelled = [ks \in D |-> Spelled[ks]]
  BY <1>10
<1> HIDE DEF Meets
<1>14. Spelled \in [D -> D]
  BY <1>12, <1>13
<1> QED
  BY <1>11, <1>14

LEMMA SpelledAppend ==
  /\ Spelled[<<>>] = <<>>
  /\ \A ks \in Seq(Kind), k \in Kind : Spelled[Append(ks, k)] = Spelling(k) \o Spelled[ks]
<1>1. Spelled[<<>>] = <<>>
  BY SpelledUnfolds, EmptySeq
<1>2. ASSUME NEW ks \in Seq(Kind), NEW k \in Kind
      PROVE  Spelled[Append(ks, k)] = Spelling(k) \o Spelled[ks]
  <2>1. Append(ks, k) \in Seq(Kind) /\ Append(ks, k) # <<>>
    BY AppendProperties
  <2>2. Last(Append(ks, k)) = k /\ Front(Append(ks, k)) = ks
    BY DEF Last, Front
  <2> QED
    BY <2>1, <2>2, SpelledUnfolds
<1> QED
  BY <1>1, <1>2

-----------------------------------------------------------------------------
(* What the lookahead takes from a line                                    *)

WordKind == Kind \ {"indent", "desindent"}

\* a answers for w: it takes the first n words, which its tokens spell.
Answered(w, a) ==
  /\ a \in Answer /\ a.kind \in WordKind /\ a.pushed \in Seq(WordKind)
  /\ \E n \in 0 .. Len(w) :
       /\ a.left = SubSeq(w, n + 1, Len(w))
       /\ SubSeq(w, 1, n) = Spelling(a.kind) \o Spelled[a.pushed]
       /\ n = Len(w) => w[n] = "newline"
  /\ ~ IsCode(Head(w)) => a.kind = Head(w) /\ a.pushed = <<>>

LEMMA EndsIsPhrase ==
  ASSUME NEW w, Ends(w)
  PROVE  /\ w \in Phrase /\ Head(w) = w[1] /\ Head(w) \in Word \union {"newline", "eof"}
         /\ Len(w) \in Nat \ {0}
         /\ Head(w) \in {"is", "not"} => Ends(Tail(w))
<1>1. w \in Seq(Kind) /\ Len(w) \in Nat \ {0} /\ Head(w) = w[1]
  BY DEF Ends
<1>2. w \in Phrase
  BY <1>1, KindFacts DEF Ends, Phrase, Last
<1>3. Head(w) \in Word \union {"newline", "eof"}
  <2>1. CASE Len(w) = 1
    BY <1>1, <2>1 DEF Ends
  <2>2. CASE Len(w) # 1
    <3>1. \A n \in Nat \ {0} : n # 1 => 1 \in 1 .. n - 1
      OBVIOUS
    <3>2. 1 \in 1 .. Len(w) - 1
      BY <1>1, <2>2, <3>1
    <3> QED
      BY <1>1, <3>2 DEF Ends
  <2> QED
    BY <2>1, <2>2
<1>4. ASSUME Head(w) \in {"is", "not"} PROVE Ends(Tail(w))
  <2>1. Tail(w) \in Seq(Kind) /\ Len(Tail(w)) = Len(w) - 1 /\ Tail(w) # <<>>
    BY <1>2, <1>4, TailOfPhrase DEF Phrase
  <2>2. \A i \in 1 .. Len(w) - 1 : Tail(w)[i] = w[i + 1]
    BY <1>1
  <2>3. Len(Tail(w)) \in 1 .. Len(w) - 1
    BY <1>1, <2>1, EmptySeq
  <2>4. Tail(w)[Len(Tail(w))] = w[Len(w)]
    BY <1>1, <2>1, <2>2, <2>3
  <2>5. ASSUME NEW i \in 1 .. Len(Tail(w)) - 1
        PROVE  Tail(w)[i] \in Word /\ (Tail(w)[i] = "comment" => i = Len(Tail(w)) - 1)
    <3>1. i \in 1 .. Len(w) - 1 /\ i + 1 \in 1 .. Len(w) - 1 /\ Len(Tail(w)) - 1 = Len(w) - 2
      BY <1>1, <2>1
    <3>2. Tail(w)[i] = w[i + 1]
      BY <2>2, <3>1
    <3>3. w[i + 1] \in Word /\ (w[i + 1] = "comment" => i + 1 = Len(w) - 1)
      BY <3>1 DEF Ends
    <3>4. i + 1 = Len(w) - 1 => i = Len(w) - 2
      <4>1. \A j \in Int, n \in Int : j + 1 = n - 1 => j = n - 2
        OBVIOUS
      <4>2. i \in Int /\ Len(w) \in Int
        BY <1>1
      <4> QED
        BY <4>1, <4>2
    <3> QED
      BY <3>1, <3>2, <3>3, <3>4
  <2> QED
    BY <2>1, <2>4, <2>5 DEF Ends
<1> QED
  BY <1>1, <1>2, <1>3, <1>4

\* One more word in front: the words taken are that word and those taken before.
LEMMA TakenOneMore ==
  ASSUME NEW w \in Seq(Kind), w # <<>>, NEW n \in 0 .. Len(Tail(w))
  PROVE  /\ n + 1 \in 0 .. Len(w)
         /\ SubSeq(Tail(w), n + 1, Len(Tail(w))) = SubSeq(w, n + 2, Len(w))
         /\ SubSeq(w, 1, n + 1) = <<Head(w)>> \o SubSeq(Tail(w), 1, n)
         /\ n = Len(Tail(w)) => n + 1 = Len(w)
         /\ n > 0 => Tail(w)[n] = w[n + 1]
<1>1. /\ Len(w) \in Nat \ {0} /\ Len(Tail(w)) = Len(w) - 1 /\ Head(w) = w[1]
      /\ Tail(w) \in Seq(Kind) /\ \A i \in 1 .. Len(w) - 1 : Tail(w)[i] = w[i + 1]
  OBVIOUS
<1>2. SubSeq(Tail(w), n + 1, Len(Tail(w))) = SubSeq(w, n + 2, Len(w))
  <2> DEFINE s == SubSeq(Tail(w), n + 1, Len(Tail(w)))
             t == SubSeq(w, n + 2, Len(w))
  <2>1. s \in Seq(Kind) /\ t \in Seq(Kind)
    BY <1>1
  <2>2. Len(s) = Len(w) - 1 - n /\ Len(t) = Len(w) - 1 - n
    <3> DEFINE m == Len(w)
    <3>1. m \in Nat \ {0} /\ Len(Tail(w)) = m - 1 /\ n \in 0 .. m - 1
      BY <1>1
    <3>2. \A i \in n + 1 .. m - 1 : Tail(w)[i] \in Kind
      BY <1>1, <3>1
    <3>3. \A i \in n + 2 .. m : w[i] \in Kind
      BY <1>1, <3>1
    <3> HIDE DEF m
    <3>4. Len(SubSeq(Tail(w), n + 1, m - 1)) = IF n + 1 <= m - 1 THEN (m - 1) - (n + 1) + 1 ELSE 0
      <4>1. n + 1 \in Int /\ m - 1 \in Int
        BY <3>1
      <4> QED
        BY <4>1, <3>2, SubSeqProperties
    <3>5. Len(SubSeq(w, n + 2, m)) = IF n + 2 <= m THEN m - (n + 2) + 1 ELSE 0
      <4>1. n + 2 \in Int /\ m \in Int
        BY <3>1
      <4> QED
        BY <4>1, <3>3, SubSeqProperties
    <3>6. Len(SubSeq(Tail(w), n + 1, m - 1)) = m - 1 - n /\ Len(SubSeq(w, n + 2, m)) = m - 1 - n
      BY <3>1, <3>4, <3>5
    <3> QED
      BY <3>1, <3>6 DEF m
  <2>3. \A i \in 1 .. Len(w) - 1 - n : s[i] = t[i]
    BY <1>1
  <2> QED
    BY <2>1, <2>2, <2>3, SeqEqual
<1>3. SubSeq(w, 1, n + 1) = <<Head(w)>> \o SubSeq(Tail(w), 1, n)
  <2> DEFINE s == SubSeq(w, 1, n + 1)
             t == SubSeq(Tail(w), 1, n)
  <2>1. s \in Seq(Kind) /\ t \in Seq(Kind) /\ <<Head(w)>> \in Seq(Kind)
    BY <1>1
  <2>2. Len(s) = n + 1 /\ Len(t) = n /\ Len(<<Head(w)>>) = 1
    BY <1>1
  <2>3. <<Head(w)>> \o t \in Seq(Kind) /\ Len(<<Head(w)>> \o t) = n + 1
    BY <2>1, <2>2, ConcatProperties
  <2>4. \A i \in 1 .. n : t[i] = w[i + 1]
    BY <1>1
  <2>5. ASSUME NEW i \in 1 .. n + 1
        PROVE  s[i] = (<<Head(w)>> \o t)[i]
    <3>1. s[i] = w[i]
      BY <1>1
    <3>2. (<<Head(w)>> \o t)[i] = IF i <= 1 THEN <<Head(w)>>[i] ELSE t[i - 1]
      BY <2>1, <2>2, ConcatProperties
    <3>3. CASE i = 1
      BY <1>1, <3>1, <3>2, <3>3
    <3>4. CASE i # 1
      <4>1. i - 1 \in 1 .. n /\ (i - 1) + 1 = i /\ ~ (i <= 1)
        BY <3>4
      <4> QED
        BY <2>4, <3>1, <3>2, <4>1
    <3> QED
      BY <3>3, <3>4
  <2> QED
    BY <2>1, <2>2, <2>3, <2>5, SeqEqual
<1>4. n + 1 \in 0 .. Len(w) /\ (n = Len(Tail(w)) => n + 1 = Len(w))
  <2>1. \A m \in Nat \ {0} : \A j \in 0 .. m - 1 : j + 1 \in 0 .. m /\ (j = m - 1 => j + 1 = m)
    OBVIOUS
  <2>2. n \in 0 .. Len(w) - 1
    BY <1>1
  <2> QED
    BY <1>1, <2>1, <2>2, Zenon
<1>5. n > 0 => n \in 1 .. Len(w) - 1
  BY <1>1
<1>6. n > 0 => Tail(w)[n] = w[n + 1]
  BY <1>1, <1>5
<1> QED
  BY <1>2, <1>3, <1>4, <1>6

LEMMA AloneAnswers ==
  ASSUME NEW w, Ends(w), Head(w) \notin {"is", "not"}
  PROVE  Answered(w, Alone(w))
<1> DEFINE a == Alone(w)
<1>1. w \in Seq(Kind) /\ w \in Phrase /\ Head(w) = w[1] /\ Len(w) \in Nat \ {0}
  BY EndsIsPhrase DEF Ends
<1>2. a \in Answer /\ a.kind = Head(w) /\ a.pushed = <<>>
  BY <1>1, AloneType DEF Alone
<1>3. a.kind \in WordKind /\ a.pushed \in Seq(WordKind)
  <2>1. Head(w) \in Word \union {"newline", "eof"}
    BY EndsIsPhrase
  <2>2. Word \union {"newline", "eof"} \subseteq WordKind
    BY KindFacts, Zenon DEF WordKind
  <2>3. <<>> \in Seq(WordKind)
    OBVIOUS
  <2> QED
    BY <1>2, <2>1, <2>2, <2>3
<1>4. CASE Head(w) = "eof"
  <2>1. a.left = w /\ Spelling(a.kind) = <<>> /\ Spelled[a.pushed] = <<>>
    BY <1>2, <1>4, SpelledAppend DEF Alone, Spelling
  <2>2. SubSeq(w, 1, Len(w)) = w /\ SubSeq(w, 1, 0) = <<>>
    BY <1>1
  <2>3. 0 \in 0 .. Len(w) /\ 0 # Len(w) /\ 0 + 1 = 1 /\ <<>> \o <<>> = <<>>
    BY <1>1
  <2> QED
    BY <1>2, <1>3, <2>1, <2>2, <2>3 DEF Answered
<1>5. CASE Head(w) # "eof"
  <2>1. a.left = Tail(w) /\ Spelled[a.pushed] = <<>>
    BY <1>2, <1>5, SpelledAppend DEF Alone
  <2>2. Spelling(a.kind) = <<Head(w)>>
    BY <1>2, <1>5, EndsIsPhrase, KindFacts DEF Spelling
  <2>3. SubSeq(w, 2, Len(w)) = Tail(w) /\ SubSeq(w, 1, 1) = <<w[1]>>
    <3>1. w # <<>> /\ 0 \in 0 .. Len(Tail(w)) /\ Tail(w) \in Seq(Kind)
      BY <1>1, TailOfPhrase
    <3>2. SubSeq(Tail(w), 1, Len(Tail(w))) = SubSeq(w, 2, Len(w))
      BY <1>1, <3>1, TakenOneMore
    <3>3. SubSeq(w, 1, 1) = <<Head(w)>> \o SubSeq(Tail(w), 1, 0)
      BY <1>1, <3>1, TakenOneMore
    <3>4. SubSeq(Tail(w), 1, Len(Tail(w))) = Tail(w) /\ SubSeq(Tail(w), 1, 0) = <<>>
      BY <3>1
    <3>5. SubSeq(w, 2, Len(w)) = Tail(w)
      BY <3>2, <3>4
    <3>6. <<Head(w)>> \o <<>> = <<Head(w)>>
      OBVIOUS
    <3>7. SubSeq(w, 1, 1) = <<w[1]>>
      BY <1>1, <3>3, <3>4, <3>6
    <3> QED
      BY <3>5, <3>7
  <2>4. <<Head(w)>> \o <<>> = <<Head(w)>>
    OBVIOUS
  <2>5. 1 \in 0 .. Len(w) /\ 1 + 1 = 2
    BY <1>1
  <2>6. 1 = Len(w) => w[1] = "newline"
    BY <1>1, <1>5 DEF Ends
  <2> QED
    BY <1>1, <1>2, <1>3, <2>1, <2>2, <2>3, <2>4, <2>5, <2>6 DEF Answered
<1> QED
  BY <1>4, <1>5

LEMMA TwoWords ==
  ASSUME NEW k \in Kind, NEW l \in Kind
  PROVE  <<k>> \o <<l>> = <<k, l>>
<1> DEFINE s == <<k>> \o <<l>>
<1>1. <<k>> \in Seq(Kind) /\ <<l>> \in Seq(Kind) /\ <<k, l>> \in Seq(Kind)
  OBVIOUS
<1>2. Len(<<k>>) = 1 /\ Len(<<l>>) = 1 /\ Len(<<k, l>>) = 2
  OBVIOUS
<1>3. s \in Seq(Kind) /\ Len(s) = 2 /\ s[1] = k /\ s[2] = l
  BY <1>1, <1>2, ConcatProperties
<1> HIDE DEF s
<1>4. \A i \in 1 .. 2 : s[i] = <<k, l>>[i]
  BY <1>3
<1>5. s = <<k, l>>
  BY <1>1, <1>2, <1>3, <1>4, SeqEqual
<1> QED
  BY <1>5 DEF s

LEMMA CombineAnswers ==
  ASSUME NEW w, Ends(w), Head(w) \in {"is", "not"},
         NEW b, Answered(Tail(w), b), NEW a, a = Combine(Head(w), b)
  PROVE  Answered(w, a)
<1> DEFINE v == Tail(w)
<1>1. w \in Seq(Kind) /\ w # <<>> /\ Head(w) \in Kind /\ Ends(v) /\ v \in Seq(Kind) /\ Len(v) \in Nat \ {0}
  BY EndsIsPhrase, KindFacts DEF Ends
<1>2. b \in Answer /\ b.kind \in WordKind /\ b.pushed \in Seq(WordKind)
  BY DEF Answered
<1>3. PICK n \in 0 .. Len(v) :
        /\ b.left = SubSeq(v, n + 1, Len(v))
        /\ SubSeq(v, 1, n) = Spelling(b.kind) \o Spelled[b.pushed]
        /\ n = Len(v) => v[n] = "newline"
  BY DEF Answered
<1> DEFINE x == Spelled[b.pushed]
<1>4. b.pushed \in Seq(Kind) /\ b.kind \in Kind
  BY <1>2 DEF WordKind, Answer
<1>5. x \in Seq(Kind) /\ Spelling(b.kind) \in Seq(Kind)
  BY <1>4, SpelledUnfolds, SpellingType
<1>6. a \in Answer /\ a.left = b.left
  <2>1. a \in Answer
    BY <1>1, <1>2, CombineType
  <2>2. b = [kind |-> b.kind, pushed |-> b.pushed, left |-> b.left]
    BY <1>2 DEF Answer
  <2> QED
    BY <2>1, <2>2 DEF Combine
<1>7. SubSeq(w, 1, n + 1) = <<Head(w)>> \o (Spelling(b.kind) \o x)
  BY <1>1, <1>3, TakenOneMore
<1>8. /\ a.kind \in WordKind /\ a.pushed \in Seq(WordKind)
      /\ SubSeq(w, 1, n + 1) = Spelling(a.kind) \o Spelled[a.pushed]
  <2>1. b = [kind |-> b.kind, pushed |-> b.pushed, left |-> b.left]
    BY <1>2 DEF Answer
  <2>2. {"is not", "not in", "is", "not"} \subseteq WordKind
    BY KindFacts DEF WordKind
  <2>6. "is" \in Kind /\ "not" \in Kind /\ "in" \in Kind
    BY KindFacts
  <2>3. CASE Head(w) = "is" /\ b.kind = "not"
    <3>1. a.kind = "is not" /\ a.pushed = b.pushed
      BY <2>1, <2>3 DEF Combine
    <3>2. Spelling(b.kind) = <<"not">> /\ Spelling(a.kind) = <<"is", "not">>
      BY <2>3, <3>1 DEF Spelling
    <3>3. <<"is">> \in Seq(Kind) /\ <<"not">> \in Seq(Kind)
      BY <2>6
    <3>4. <<"is">> \o (<<"not">> \o x) = (<<"is">> \o <<"not">>) \o x
      BY <1>5, <3>3, ConcatAssociative
    <3>5. <<"is">> \o <<"not">> = <<"is", "not">>
      BY <2>6, TwoWords
    <3> QED
      BY <1>2, <1>7, <2>2, <2>3, <3>1, <3>2, <3>4, <3>5
  <2>4. CASE Head(w) = "not" /\ b.kind = "in"
    <3>1. a.kind = "not in" /\ a.pushed = b.pushed
      BY <2>1, <2>4 DEF Combine
    <3>2. Spelling(b.kind) = <<"in">> /\ Spelling(a.kind) = <<"not", "in">>
      BY <2>4, <3>1 DEF Spelling
    <3>3. <<"not">> \in Seq(Kind) /\ <<"in">> \in Seq(Kind)
      BY <2>6
    <3>4. <<"not">> \o (<<"in">> \o x) = (<<"not">> \o <<"in">>) \o x
      BY <1>5, <3>3, ConcatAssociative
    <3>5. <<"not">> \o <<"in">> = <<"not", "in">>
      BY <2>6, TwoWords
    <3> QED
      BY <1>2, <1>7, <2>2, <2>4, <3>1, <3>2, <3>4, <3>5
  <2>5. CASE ~ (Head(w) = "is" /\ b.kind = "not") /\ ~ (Head(w) = "not" /\ b.kind = "in")
    <3>1. a.kind = Head(w) /\ a.pushed = Append(b.pushed, b.kind)
      BY <2>1, <2>5 DEF Combine, PushBack
    <3>2. Spelling(a.kind) = <<Head(w)>>
      BY <3>1 DEF Spelling
    <3>3. Spelled[a.pushed] = Spelling(b.kind) \o x
      BY <1>4, <3>1, SpelledAppend
    <3>4. Append(b.pushed, b.kind) \in Seq(WordKind)
      BY <1>2, AppendProperties
    <3> QED
      BY <1>7, <2>2, <3>1, <3>2, <3>3, <3>4
  <2> QED
    BY <2>3, <2>4, <2>5
<1>9. a.left = SubSeq(w, n + 2, Len(w)) /\ n + 1 \in 0 .. Len(w)
  BY <1>1, <1>3, <1>6, TakenOneMore
<1>10. n + 1 = Len(w) => w[n + 1] = "newline"
  <2>1. Len(v) = Len(w) - 1 /\ Len(w) \in Nat
    BY <1>1
  <2>2. ASSUME n + 1 = Len(w) PROVE n = Len(v) /\ n > 0
    <3>1. \A m, j, k \in Int : j + 1 = m /\ k = m - 1 /\ k > 0 => j = k /\ j > 0
      OBVIOUS
    <3>2. n \in Int /\ Len(v) \in Int /\ Len(w) \in Int /\ Len(v) > 0
      BY <1>1, <2>1
    <3> QED
      BY <2>1, <2>2, <3>1, <3>2
  <2> QED
    BY <1>1, <1>3, <2>2, TakenOneMore
<1>11. IsCode(Head(w)) /\ (n + 1) + 1 = n + 2
  BY <1>3 DEF IsCode
<1> QED
  BY <1>6, <1>8, <1>9, <1>10, <1>11 DEF Answered

\* next_token takes the next words of the line, and its tokens spell them.
LEMMA LookaheadAnswers ==
  ASSUME NEW w, Ends(w)
  PROVE  Answered(w, Lookahead[w])
<1> DEFINE T == {v \in Phrase : Ends(v) /\ ~ Answered(v, Lookahead[v])}
           rank == [v \in Phrase |-> Len(v)]
<1> SUFFICES T = {}
  BY EndsIsPhrase
<1> SUFFICES ASSUME T # {} PROVE FALSE
  OBVIOUS
<1>1. rank \in [Phrase -> Nat]
  BY TailOfPhrase
<1>2. PICK v \in T : \A u \in T : rank[v] <= rank[u]
  BY <1>1, LeastRank
<1>3. CASE Head(v) \in {"is", "not"}
  <2>1. Tail(v) \in Phrase /\ Ends(Tail(v)) /\ ~ (rank[v] <= rank[Tail(v)])
    BY <1>2, <1>3, TailOfPhrase, EndsIsPhrase
  <2>2. Answered(Tail(v), Lookahead[Tail(v)])
    BY <1>2, <2>1
  <2> QED
    BY <1>2, <1>3, <2>2, CombineAnswers, LookaheadUnfolds
<1>4. CASE Head(v) \notin {"is", "not"}
  BY <1>2, <1>4, AloneAnswers, LookaheadUnfolds
<1> QED
  BY <1>3, <1>4

-----------------------------------------------------------------------------
(* Levels of indentation                                                   *)

LEMMA Times ==
  ASSUME NEW b \in Nat \ {0}, NEW p \in Int, NEW q \in Int
  PROVE  /\ b * p \in Int /\ b * q \in Int
         /\ b * (p + q) = b * p + b * q
         /\ b * (p - q) = b * p - b * q
         /\ p < q <=> b * p < b * q
         /\ p <= q <=> b * p <= b * q
         /\ p = q <=> b * p = b * q
         /\ p >= 0 => b * p >= 0
<1>1. b * p \in Int /\ b * q \in Int /\ b * (p + q) = b * p + b * q /\ b * (p - q) = b * p - b * q
  OBVIOUS
<1>2. \A x, y \in Int : x < y => b * x < b * y
  <2>1. \A d \in Int : d > 0 => b * d > 0
    OBVIOUS
  <2>2. \A x, y \in Int : b * (y - x) = b * y - b * x /\ b * x \in Int /\ b * y \in Int
    OBVIOUS
  <2>3. ASSUME NEW x \in Int, NEW y \in Int, x < y PROVE b * x < b * y
    <3>1. y - x \in Int /\ y - x > 0
      BY <2>3
    <3>2. b * (y - x) > 0
      BY <2>1, <3>1
    <3> QED
      BY <2>2, <3>2
  <2> QED
    BY <2>3
<1>3. b * 0 = 0
  OBVIOUS
<1>4. p >= 0 => b * p >= 0
  BY <1>1, <1>2, <1>3
<1>5. p < q => b * p < b * q
  BY <1>2
<1>6. q < p => b * q < b * p
  BY <1>2
<1>7. p = q => b * p = b * q
  OBVIOUS
<1> QED
  BY <1>1, <1>4, <1>5, <1>6, <1>7

LEMMA Quotient ==
  ASSUME NEW a \in Nat, NEW b \in Nat \ {0}
  PROVE  /\ a \div b \in Nat /\ a % b \in Nat
         /\ a = b * (a \div b) + (a % b) /\ a % b < b
OBVIOUS

\* The levels of s spaces are the one q with LYTHON_INDENT * q in s .. s + LYTHON_INDENT - 1.
LEMMA LevelsBound ==
  ASSUME NEW s \in Nat
  PROVE  /\ Levels(s) \in Nat
         /\ s <= LYTHON_INDENT * Levels(s) /\ LYTHON_INDENT * Levels(s) < s + LYTHON_INDENT
         /\ \A q \in Int : s <= LYTHON_INDENT * q /\ LYTHON_INDENT * q < s + LYTHON_INDENT
              => q = Levels(s)
<1> DEFINE b == LYTHON_INDENT
           a == s + b - 1
           p == a \div b
<1>1. b \in Nat \ {0} /\ a \in Nat
  BY IndentAssumption
<1> HIDE DEF b
<1>2. p \in Nat /\ a % b \in Nat /\ a = b * p + (a % b) /\ a % b < b
  BY <1>1, Quotient
<1> HIDE DEF p
<1>3. b * p \in Nat
  BY <1>1, <1>2, Times
<1>4. s <= b * p /\ b * p < s + b
  BY <1>1, <1>2, <1>3
<1>5. ASSUME NEW q \in Int, s <= b * q, b * q < s + b PROVE q = p
  <2>1. b * (q - p) = b * q - b * p /\ b * q \in Int /\ b * (p - q) = b * p - b * q
    BY <1>1, <1>2, Times
  <2>2. b * (q - p) < b * 1 /\ b * (p - q) < b * 1
    BY <1>1, <1>3, <1>4, <1>5, <2>1
  <2>3. q - p < 1 /\ p - q < 1
    BY <1>1, <1>2, <2>2, Times
  <2> QED
    BY <1>2, <2>3
<1>6. Levels(s) = p
  BY DEF Levels, p, b
<1> QED
  BY <1>2, <1>4, <1>5, <1>6 DEF b

LEMMA LevelsOfRest ==
  ASSUME NEW s \in Nat, NEW k \in Nat
  PROVE  /\ Levels(0) = 0
         /\ s > 0 => Levels(s) > 0
         /\ s > LYTHON_INDENT * k => Levels(s - LYTHON_INDENT * k) = Levels(s) - k
         /\ s <= LYTHON_INDENT * k => Levels(s) <= k
<1> DEFINE b == LYTHON_INDENT
           p == Levels(s)
<1>1. b \in Nat \ {0} /\ b * 0 = 0
  BY IndentAssumption
<1>2. p \in Nat /\ s <= b * p /\ b * p < s + b
  BY LevelsBound
<1>3. b * p \in Int /\ b * k \in Int /\ b * (p - k) = b * p - b * k
  BY <1>1, <1>2, Times
<1>4. Levels(0) = 0
  BY <1>1, LevelsBound
<1>5. s > 0 => p > 0
  BY <1>1, <1>2
<1>6. ASSUME s > b * k PROVE Levels(s - b * k) = p - k
  <2>1. s - b * k \in Nat
    BY <1>3, <1>6
  <2>2. s - b * k <= b * (p - k) /\ b * (p - k) < (s - b * k) + b /\ p - k \in Int
    BY <1>1, <1>2, <1>3
  <2> QED
    BY <2>1, <2>2, LevelsBound
<1>7. ASSUME s <= b * k PROVE p <= k
  <2>1. b * (p - k) < b * 1
    BY <1>1, <1>2, <1>3, <1>7
  <2>2. p - k < 1
    BY <1>1, <1>2, <2>1, Times
  <2> QED
    BY <1>2, <2>2
<1> QED
  BY <1>4, <1>5, <1>6, <1>7

\* A whole number of levels.
LEMMA WholeLevels ==
  ASSUME NEW x \in Nat
  PROVE  /\ x % LYTHON_INDENT = 0 => \E c \in Nat : x = LYTHON_INDENT * c
         /\ \A c \in Nat : LYTHON_INDENT * c \in Nat /\ (LYTHON_INDENT * c) % LYTHON_INDENT = 0
<1> DEFINE b == LYTHON_INDENT
<1>1. b \in Nat \ {0}
  BY IndentAssumption
<1> HIDE DEF b
<1>2. x % b = 0 => x = b * (x \div b) /\ x \div b \in Nat
  <2>1. x \div b \in Nat /\ x = b * (x \div b) + (x % b)
    BY <1>1, Quotient
  <2>2. b * (x \div b) \in Int
    BY <1>1, <2>1, Times
  <2> QED
    BY <2>1, <2>2
<1>3. ASSUME NEW c \in Nat PROVE b * c \in Nat /\ (b * c) % b = 0
  <2> DEFINE y == b * c
             q == y \div b
             r == y % b
  <2>1. y \in Nat
    BY <1>1, Times
  <2>2. q \in Nat /\ r \in Nat /\ y = b * q + r /\ r < b
    BY <1>1, <2>1, Quotient
  <2> HIDE DEF q, r
  <2>3. b * q \in Int /\ b * (c - q) = b * c - b * q
    BY <1>1, <2>2, Times
  <2>4. b * (c - q) = r
    BY <2>2, <2>3
  <2>5. b * (c - q) < b * 1 /\ b * 0 <= b * (c - q)
    BY <1>1, <2>2, <2>4
  <2>6. c - q < 1 /\ 0 <= c - q
    BY <1>1, <2>2, <2>5, Times
  <2>7. c = q
    BY <2>2, <2>6
  <2>8. r = 0
    BY <2>1, <2>2, <2>3, <2>7
  <2> QED
    BY <2>1, <2>8 DEF r
<1> QED
  BY <1>2, <1>3 DEF b

-----------------------------------------------------------------------------
(* What a scan leaves of a line                                            *)

LEMMA RestOfLine ==
  ASSUME NEW w, Ends(w), NEW n \in 0 .. Len(w)
  PROVE  /\ SubSeq(w, n + 1, Len(w)) \in Seq(Kind)
         /\ Len(SubSeq(w, n + 1, Len(w))) = Len(w) - n
         /\ n < Len(w) => /\ Ends(SubSeq(w, n + 1, Len(w)))
                          /\ SubSeq(w, n + 1, Len(w))[Len(w) - n] = w[Len(w)]
<1> DEFINE m == Len(w)
           s == SubSeq(w, n + 1, Len(w))
<1>1. w \in Seq(Kind) /\ m \in Nat \ {0} /\ n \in 0 .. m
  BY EndsIsPhrase DEF Ends
<1>2. n + 1 \in Int /\ m \in Int /\ \A i \in n + 1 .. m : w[i] \in Kind
  BY <1>1
<1> HIDE DEF m
<1>3. /\ SubSeq(w, n + 1, m) \in Seq(Kind)
      /\ Len(SubSeq(w, n + 1, m)) = IF n + 1 <= m THEN m - (n + 1) + 1 ELSE 0
      /\ \A i \in 1 .. m - (n + 1) + 1 : SubSeq(w, n + 1, m)[i] = w[n + 1 + i - 1]
  BY <1>2, SubSeqProperties
<1>4. (IF n + 1 <= m THEN m - (n + 1) + 1 ELSE 0) = m - n
  BY <1>1
<1>5. \A i \in Int : n + 1 + i - 1 = n + i
  BY <1>1
<1>6. s \in Seq(Kind) /\ Len(s) = m - n
  BY <1>3, <1>4 DEF m
<1>7. \A i \in 1 .. m - n : s[i] = w[n + i]
  <2>1. m - (n + 1) + 1 = m - n
    BY <1>1
  <2>2. \A i \in 1 .. m - n : i \in Int
    OBVIOUS
  <2> QED
    BY <1>3, <1>5, <2>1, <2>2 DEF m
<1>8. ASSUME n < m PROVE Ends(s) /\ s[m - n] = w[m]
  <2>1. m - n \in 1 .. m - n /\ n + (m - n) = m
    BY <1>1, <1>8
  <2>2. s[m - n] = w[m] /\ s # <<>>
    <3>1. m - n # 0
      BY <1>1, <1>8
    <3>2. s[m - n] = w[m]
      BY <1>7, <2>1
    <3> HIDE DEF s
    <3>3. s # <<>>
      BY <1>6, <3>1, EmptySeq
    <3> QED
      BY <3>2, <3>3
  <2>3. w[m] \in {"newline", "eof"}
        /\ \A i \in 1 .. m - 1 : w[i] \in Word /\ (w[i] = "comment" => i = m - 1)
    BY DEF Ends, m
  <2>4. ASSUME NEW i \in 1 .. (m - n) - 1
        PROVE  s[i] \in Word /\ (s[i] = "comment" => i = (m - n) - 1)
    <3>1. i \in 1 .. m - n /\ n + i \in 1 .. m - 1 /\ (n + i = m - 1 => i = (m - n) - 1)
      BY <1>1
    <3> QED
      BY <1>7, <2>3, <3>1
  <2> HIDE DEF s
  <2> QED
    BY <1>6, <2>2, <2>3, <2>4 DEF Ends
<1> QED
  BY <1>6, <1>8 DEF m

LEMMA WordsTaken ==
  ASSUME NEW w, Ends(w), NEW a, a = Lookahead[w]
  PROVE  /\ a.kind \in WordKind /\ a.pushed \in Seq(WordKind) /\ a.left \in Seq(Kind)
         /\ SubSeq(w, 1, Len(w) - Len(a.left)) = Spelling(a.kind) \o Spelled[a.pushed]
         /\ a.left = <<>> => w[Len(w)] = "newline"
         /\ a.left # <<>> => Ends(a.left) /\ a.left[Len(a.left)] = w[Len(w)]
         /\ Len(a.left) <= Len(w)
         /\ ~ IsCode(Head(w)) => a.kind = Head(w) /\ a.pushed = <<>>
         /\ Head(w) = "comment" => Len(a.left) = 1
<1>1. Answered(w, a)
  BY LookaheadAnswers
<1>2. a.kind \in WordKind /\ a.pushed \in Seq(WordKind)
      /\ (~ IsCode(Head(w)) => a.kind = Head(w) /\ a.pushed = <<>>)
  BY <1>1 DEF Answered
<1>3. PICK n \in 0 .. Len(w) :
        /\ a.left = SubSeq(w, n + 1, Len(w))
        /\ SubSeq(w, 1, n) = Spelling(a.kind) \o Spelled[a.pushed]
        /\ n = Len(w) => w[n] = "newline"
  BY <1>1 DEF Answered
<1> DEFINE m == Len(w)
<1>4. m \in Nat \ {0} /\ n \in 0 .. m
  BY EndsIsPhrase
<1>5. a.left \in Seq(Kind) /\ Len(a.left) = m - n
      /\ (n < m => Ends(a.left) /\ a.left[m - n] = w[m])
  BY <1>3, RestOfLine
<1> HIDE DEF m
<1>6. m - (m - n) = n /\ m - n <= m /\ (m - n = 0 => n = m) /\ (m - n # 0 => n < m)
  BY <1>4
<1>7. a.left = <<>> <=> Len(a.left) = 0
  BY <1>5, EmptySeq
<1>8. ASSUME Head(w) = "comment" PROVE Len(a.left) = 1
  <2>1. a = Alone(w) /\ a.left = Tail(w)
    <3>1. w \in Phrase /\ Head(w) \notin {"is", "not"}
      BY <1>8, EndsIsPhrase
    <3>2. a = Alone(w)
      BY <3>1, LookaheadUnfolds
    <3> QED
      BY <1>8, <3>2 DEF Alone
  <2>2. m # 1 /\ w[1] = "comment" /\ Len(Tail(w)) = m - 1
    BY <1>4, <1>8, EndsIsPhrase, TailOfPhrase DEF Ends, m
  <2>3. 1 \in 1 .. m - 1
    BY <1>4, <2>2
  <2>4. 1 = m - 1
    BY <2>2, <2>3 DEF Ends, m
  <2> QED
    BY <2>1, <2>2, <2>4
<1> QED
  BY <1>2, <1>3, <1>5, <1>6, <1>7, <1>8 DEF m

-----------------------------------------------------------------------------
(* What a scan does to the indentation                                     *)

LEMMA InLevels ==
  ASSUME TypeOK
  PROVE  \E c, o \in Nat :
           /\ cindent = LYTHON_INDENT * c /\ oindent = LYTHON_INDENT * o
           /\ Levels(line.spaces) \in Nat
           /\ Reached = LYTHON_INDENT * (c + Levels(line.spaces)) /\ Reached \in Nat
           /\ Deepest = LYTHON_INDENT * (IF c > o THEN c ELSE o) /\ Deepest \in Nat
           /\ Reached > oindent <=> c + Levels(line.spaces) > o
           /\ Reached < oindent <=> c + Levels(line.spaces) < o
<1> DEFINE b == LYTHON_INDENT
           L == Levels(line.spaces)
<1>1. b \in Nat \ {0} /\ line.spaces \in Nat /\ cindent \in Nat /\ oindent \in Nat
  BY IndentAssumption DEF TypeOK
<1>2. L \in Nat
  BY <1>1, LevelsBound
<1>3. PICK c \in Nat : cindent = b * c
  BY <1>1, WholeLevels DEF TypeOK
<1>4. PICK o \in Nat : oindent = b * o
  BY <1>1, WholeLevels DEF TypeOK
<1> HIDE DEF L, b
<1>5. b * (c + L) = b * c + b * L /\ b * L \in Int /\ b * (c + L) \in Int /\ b * (c + L) >= 0
  BY <1>1, <1>2, Times
<1>6. /\ b * o < b * (c + L) <=> o < c + L
      /\ b * (c + L) < b * o <=> c + L < o
      /\ b * o < b * c <=> o < c
  BY <1>1, <1>2, Times
<1>7. Reached = b * (c + L) /\ Reached \in Nat
  BY <1>3, <1>5 DEF Reached, b, L
<1>8. Deepest = b * (IF c > o THEN c ELSE o) /\ Deepest \in Nat
  BY <1>1, <1>3, <1>4, <1>6 DEF Deepest
<1>9. (Reached > oindent <=> c + L > o) /\ (Reached < oindent <=> c + L < o)
  BY <1>1, <1>2, <1>4, <1>5, <1>6, <1>7
<1> QED
  BY <1>2, <1>3, <1>4, <1>7, <1>8, <1>9 DEF L, b

\* The type of the scanner's own variables
ScannerOK ==
  /\ line \in [spaces : Nat, words : Seq(Kind) \ {<<>>}, blank : BOOLEAN, level : Nat, row : 1 .. MaxLines]
  /\ cindent \in Nat /\ cindent % LYTHON_INDENT = 0
  /\ oindent \in Nat /\ oindent % LYTHON_INDENT = 0
  /\ clean \in BOOLEAN

\* An INDENT opens one level.
LEMMA IndentStep ==
  ASSUME TypeOK, Indent
  PROVE  /\ ScannerOK'
         /\ line'.words = line.words /\ line'.level = line.level /\ line'.row = line.row
         /\ Reached' = Reached /\ Deepest' = Deepest + LYTHON_INDENT
         /\ clean' = clean
<1> DEFINE b == LYTHON_INDENT
           L == Levels(line.spaces)
           s == line.spaces
<1>1. b \in Nat \ {0} /\ s \in Nat /\ L \in Nat /\ s > 0 /\ L > 0
  BY IndentAssumption, LevelsBound, LevelsOfRest DEF TypeOK, Indent, Opens
<1>2. PICK c, o \in Nat :
        /\ cindent = b * c /\ oindent = b * o
        /\ Reached = b * (c + L) /\ Reached \in Nat
        /\ Deepest = b * (IF c > o THEN c ELSE o) /\ Deepest \in Nat
        /\ Reached > oindent <=> c + L > o
  BY InLevels
<1> DEFINE m == IF c > o THEN c ELSE o
           k == m + 1 - c
           e == b * k
<1>3. m \in Nat /\ k \in Nat \ {0} /\ m >= o /\ m >= c /\ k <= L /\ c + k = m + 1
  <2>1. c + L > o
    BY <1>2 DEF Indent, Opens
  <2> QED
    BY <1>1, <2>1
<1> HIDE DEF b, L, m, k
<1>4. cindent' = b * (m + 1) /\ b * (m + 1) = b * m + b /\ b * m \in Nat /\ b * (m + 1) \in Nat
  <2>1. b * (m + 1) = b * m + b * 1 /\ b * m \in Int /\ b * m >= 0 /\ b * 1 = b
    BY <1>1, <1>3, Times
  <2> QED
    BY <1>1, <1>2, <2>1 DEF Indent, DeeperThan, b, m
<1>5. cindent' - cindent = e /\ e \in Nat
  <2>1. b * (c + k) = b * c + b * k /\ b * c \in Int /\ b * k \in Int /\ b * k >= 0
    BY <1>1, <1>3, Times
  <2> QED
    BY <1>2, <1>3, <1>4, <2>1
<1> HIDE DEF e
<1>6. line' = [line EXCEPT !.spaces = IF s > e THEN s - e ELSE 0]
  BY <1>5 DEF Indent
<1>7. line'.spaces = (IF s > e THEN s - e ELSE 0) /\ line'.spaces \in Nat
  BY <1>1, <1>5, <1>6 DEF TypeOK
<1>8. Levels(line'.spaces) = L - k
  <2>1. CASE s > e
    BY <1>1, <1>3, <1>7, <2>1, LevelsOfRest DEF e, b, L
  <2>2. CASE ~ (s > e)
    <3>1. L <= k
      BY <1>1, <1>3, <1>5, <2>2, LevelsOfRest DEF e, b, L
    <3> QED
      BY <1>1, <1>3, <1>7, <2>2, <3>1, LevelsOfRest
  <2> QED
    BY <2>1, <2>2
<1>9. Reached' = Reached
  <2>1. b * ((m + 1) + (L - k)) = b * (m + 1) + b * (L - k)
    BY <1>1, <1>3, Times
  <2>2. (m + 1) + (L - k) = c + L
    BY <1>1, <1>3
  <2>3. Reached' = b * (m + 1) + b * (L - k)
    BY <1>4, <1>8 DEF Reached, b
  <2> QED
    BY <1>2, <2>1, <2>2, <2>3
<1>10. Deepest' = Deepest + b
  <2>1. oindent' = oindent
    BY DEF Indent
  <2>2. b * o < b * (m + 1) <=> o < m + 1
    BY <1>1, <1>3, Times
  <2>3. cindent' > oindent'
    BY <1>1, <1>2, <1>3, <1>4, <2>1, <2>2
  <2>4. Deepest = b * m
    BY <1>2 DEF m
  <2> QED
    BY <1>4, <2>3, <2>4 DEF Deepest
<1>11. ScannerOK'
  <2>1. cindent' \in Nat /\ cindent' % LYTHON_INDENT = 0
    BY <1>3, <1>4, WholeLevels DEF b
  <2>2. line' \in [spaces : Nat, words : Seq(Kind) \ {<<>>}, blank : BOOLEAN, level : Nat, row : 1 .. MaxLines]
    <3> DEFINE z == line'.spaces
    <3>1. line' = [line EXCEPT !.spaces = z] /\ z \in Nat
      BY <1>6, <1>7
    <3> HIDE DEF z
    <3> QED
      BY <3>1 DEF TypeOK
  <2> QED
    BY <2>1, <2>2 DEF ScannerOK, Indent, TypeOK
<1> QED
  BY <1>6, <1>9, <1>10, <1>11 DEF TypeOK, Indent, b

\* A DESINDENT closes one level.
LEMMA DesindentStep ==
  ASSUME TypeOK, Desindent
  PROVE  /\ ScannerOK'
         /\ line'.words = line.words /\ line'.level = line.level /\ line'.row = line.row
         /\ Reached' = Reached /\ Deepest' = Deepest - LYTHON_INDENT
         /\ clean' = clean
<1> DEFINE b == LYTHON_INDENT
           L == Levels(line.spaces)
<1>1. b \in Nat \ {0} /\ L \in Nat
  BY IndentAssumption, LevelsBound DEF TypeOK
<1>2. PICK c, o \in Nat :
        /\ cindent = b * c /\ oindent = b * o
        /\ Reached = b * (c + L) /\ Reached \in Nat
        /\ Deepest = b * (IF c > o THEN c ELSE o) /\ Deepest \in Nat
        /\ Reached < oindent <=> c + L < o
  BY InLevels
<1>3. c + L < o
  BY <1>2 DEF Desindent, Closes
<1>4. /\ line' = [line EXCEPT !.spaces = 0] /\ cindent' = Reached
      /\ oindent' = oindent - b /\ clean' = clean
  BY DEF Desindent, CloseOne
<1> HIDE DEF b, L
<1>5. oindent' = b * (o - 1) /\ b * (o - 1) \in Nat /\ o - 1 \in Nat
  <2>1. o - 1 \in Nat
    BY <1>1, <1>2, <1>3
  <2>2. b * (o - 1) = b * o - b * 1 /\ b * 1 = b /\ b * (o - 1) \in Int /\ b * (o - 1) >= 0
    BY <1>1, <2>1, Times
  <2> QED
    BY <1>2, <1>4, <2>1, <2>2
<1>6. Levels(line'.spaces) = 0 /\ b * 0 = 0
  BY <1>1, <1>4, LevelsOfRest DEF TypeOK
<1>7. Reached' = Reached
  BY <1>2, <1>4, <1>6 DEF Reached, b
<1>8. Deepest' = Deepest - b
  <2>1. b * (o - 1) < b * (c + L) <=> o - 1 < c + L
    BY <1>1, <1>5, Times
  <2>2. Deepest' = oindent'
    BY <1>1, <1>2, <1>3, <1>4, <1>5, <2>1 DEF Deepest
  <2>3. Deepest = oindent
    BY <1>1, <1>2, <1>3
  <2> QED
    BY <1>4, <2>2, <2>3
<1>9. ScannerOK'
  <2>1. cindent' \in Nat /\ cindent' % LYTHON_INDENT = 0
    BY <1>1, <1>2, <1>4, WholeLevels DEF b
  <2>2. oindent' \in Nat /\ oindent' % LYTHON_INDENT = 0
    BY <1>5, WholeLevels DEF b
  <2>3. line' \in [spaces : Nat, words : Seq(Kind) \ {<<>>}, blank : BOOLEAN, level : Nat, row : 1 .. MaxLines]
    BY <1>4 DEF TypeOK
  <2> QED
    BY <1>4, <2>1, <2>2, <2>3 DEF ScannerOK, TypeOK
<1> QED
  BY <1>4, <1>7, <1>8, <1>9 DEF TypeOK, b

LEMMA FreshLine ==
  ASSUME NEW l \in Line, NEW final \in BOOLEAN, NEW row \in 1 .. MaxLines,
         (row = MaxLines) => final,
         NEW r, r = Read(l, final, row)
  PROVE  /\ r \in [spaces : Nat, words : Seq(Kind) \ {<<>>}, blank : BOOLEAN, level : Nat, row : 1 .. MaxLines]
         /\ Ends(r.words) /\ r.level = Levels(r.spaces)
         /\ r.words[Len(r.words)] = "newline" => r.row < MaxLines
<1> DEFINE end == IF final THEN "eof" ELSE "newline"
           x == WithBlanks(l, final)
           w == Append(x, end)
           n == Len(x)
<1>1. /\ l.spaces \in Nat /\ l.blank \in BOOLEAN /\ x \in Seq(Word)
      /\ \A i \in 1 .. n - 1 : x[i] # "comment"
  <2> DEFINE k == Len(l.words)
  <2>1. /\ l.spaces \in Nat /\ l.blank \in BOOLEAN /\ l.words \in Seq(Word) /\ k \in Nat
        /\ \A i \in 1 .. k - 1 : l.words[i] # "comment"
        /\ l.blank => l.words # <<>> /\ l.words[k] # "comment"
    BY LineAssumption DEF Last
  <2>2. CASE ~ (final /\ l.blank)
    BY <2>1, <2>2 DEF WithBlanks
  <2>3. CASE final /\ l.blank
    <3>1. /\ x \in Seq(Word) /\ Len(x) = k + 1
          /\ \A i \in 1 .. k : x[i] = l.words[i]
      BY <2>1, <2>3, WordAssumption, AppendProperties DEF WithBlanks
    <3>2. (k + 1) - 1 = k /\ \A i \in 1 .. k : i = k \/ i \in 1 .. k - 1
      BY <2>1
    <3> HIDE DEF x, k
    <3>3. \A i \in 1 .. k : x[i] # "comment"
      BY <2>1, <2>3, <3>1, <3>2 DEF k
    <3> QED
      BY <2>1, <3>1, <3>2, <3>3
  <2> QED
    BY <2>2, <2>3
<1>2. end \in {"newline", "eof"} /\ end \in Kind /\ Word \subseteq Kind
  BY KindFacts
<1> HIDE DEF end, x
<1>3. x \in Seq(Kind) /\ n \in Nat /\ \A i \in 1 .. n : x[i] \in Word
  <2>1. x \in Seq(Word)
    BY <1>1
  <2>2. \A i \in 1 .. Len(x) : x[i] \in Word
    BY <2>1
  <2>3. \A i \in 1 .. Len(x) : x[i] \in Kind
    BY <1>2, <2>2
  <2>4. x \in Seq(Kind)
    <3>1. Len(x) \in Nat /\ x \in [1 .. Len(x) -> Word]
      BY <2>1
    <3>2. x \in [1 .. Len(x) -> Kind]
      BY <2>3, <3>1
    <3> QED
      BY <3>1, <3>2, SeqDef
  <2> QED
    BY <2>1, <2>2, <2>4
<1>4. w \in Seq(Kind) /\ Len(w) = n + 1 /\ w[n + 1] = end /\ \A i \in 1 .. n : w[i] = x[i]
  BY <1>2, <1>3, AppendProperties
<1>5. w # <<>>
  <2> HIDE DEF w
  <2> QED
    BY <1>3, <1>4, EmptySeq
<1>6. Ends(w)
  <2>1. ASSUME NEW i \in 1 .. n
        PROVE  w[i] \in Word /\ (w[i] = "comment" => i = n)
    <3>1. i = n \/ i \in 1 .. n - 1
      BY <1>3
    <3> QED
      BY <1>1, <1>3, <1>4, <3>1
  <2>2. (n + 1) - 1 = n
    BY <1>3
  <2> HIDE DEF w, n
  <2> QED
    BY <1>2, <1>4, <1>5, <2>1, <2>2 DEF Ends
<1>7. r = [spaces |-> l.spaces, words |-> w, blank |-> l.blank, level |-> Levels(l.spaces),
           row |-> row]
  BY DEF Read, end, x
<1> HIDE DEF w
<1>8. end = "newline" => row < MaxLines
  BY MaxLinesAssumption DEF end
<1>9. Levels(l.spaces) \in Nat
  BY <1>1, LevelsBound
<1> QED
  BY <1>1, <1>4, <1>5, <1>6, <1>7, <1>8, <1>9

\* The indentation once a word is read is in Reached .. Deepest, and no less than
\* cindent; a comment is in its block.
LEMMA SettledBetween ==
  ASSUME TypeOK, ~ Opens, ~ Closes
  PROVE  /\ Settled \in Nat /\ Settled % LYTHON_INDENT = 0
         /\ cindent <= Settled /\ Settled <= Deepest
         /\ Settled = Reached \/ Head(line.words) = "comment"
         /\ IsCode(Head(line.words)) => Reached = Deepest
<1> DEFINE b == LYTHON_INDENT
           L == Levels(line.spaces)
<1>1. b \in Nat \ {0} /\ L \in Nat /\ line.spaces \in Nat /\ cindent \in Nat /\ oindent \in Nat
  BY IndentAssumption, LevelsBound DEF TypeOK
<1>2. PICK c, o \in Nat :
        /\ cindent = b * c /\ oindent = b * o
        /\ Reached = b * (c + L) /\ Reached \in Nat
        /\ Deepest = b * (IF c > o THEN c ELSE o) /\ Deepest \in Nat
        /\ Reached > oindent <=> c + L > o
  BY InLevels
<1>3. cindent <= Reached
  <2>1. b * c <= b * (c + L) <=> c <= c + L
    BY <1>1, Times
  <2> QED
    BY <1>1, <1>2, <2>1
<1>4. line.spaces = 0 => Reached = cindent
  <2>1. line.spaces = 0 => L = 0
    BY <1>1, LevelsOfRest
  <2> QED
    BY <1>2, <2>1
<1>5. line.spaces # 0 => Reached <= oindent
  BY <1>1, <1>2 DEF Opens
<1>6. Settled = Reached \/ (Head(line.words) = "comment" /\ Settled = oindent /\ Reached < oindent)
  BY DEF Settled
<1>7. Deepest = (IF cindent > oindent THEN cindent ELSE oindent)
  BY DEF Deepest
<1>8. Settled \in Nat /\ cindent <= Settled /\ Settled <= Deepest
  <2>1. Reached \in Nat
    BY <1>2
  <2>2. cindent <= Reached /\ Reached <= Deepest
    BY <1>1, <1>3, <1>4, <1>5, <1>7, <2>1
  <2>3. CASE Settled = Reached
    BY <2>1, <2>2, <2>3
  <2>4. CASE Settled = oindent /\ Reached < oindent
    BY <1>1, <1>3, <1>7, <2>1, <2>4
  <2> QED
    BY <1>6, <2>3, <2>4
<1>9. Settled % LYTHON_INDENT = 0
  <2>1. c + L \in Nat
    BY <1>1
  <2>2. Reached % LYTHON_INDENT = 0
    <3>1. (b * (c + L)) % LYTHON_INDENT = 0
      BY <2>1, WholeLevels
    <3> QED
      BY <1>2, <3>1
  <2>3. oindent % LYTHON_INDENT = 0
    BY DEF TypeOK
  <2> QED
    BY <1>6, <2>2, <2>3
<1>10. IsCode(Head(line.words)) => Reached = Deepest
  <2>1. IsCode(Head(line.words)) => Reached >= oindent
    BY <1>1, <1>2 DEF Closes
  <2>2. Reached \in Nat
    BY <1>2
  <2> QED
    BY <1>1, <1>3, <1>4, <1>5, <1>7, <2>1, <2>2
<1> QED
  BY <1>6, <1>8, <1>9, <1>10

\* Reading a word opens and closes nothing; a line of spaces may hide DESINDENTs
\* and blanks may hide a newline.
LEMMA ReadWordStep ==
  ASSUME TypeOK, LineInv, ReadWord
  PROVE  /\ ScannerOK' /\ LineInv'
         /\ Deepest' <= Deepest
         /\ clean' => clean /\ Deepest' = Deepest
<1> DEFINE a == Scanned
           w == line.words
<1>1. /\ a.left \in Seq(Kind)
      /\ a.left = <<>> => w[Len(w)] = "newline"
      /\ a.left # <<>> => Ends(a.left) /\ a.left[Len(a.left)] = w[Len(w)]
      /\ Len(a.left) <= Len(w)
      /\ Head(w) = "comment" => Len(a.left) = 1
  BY WordsTaken DEF LineInv, Scanned
<1>2. /\ Settled \in Nat /\ Settled % LYTHON_INDENT = 0
      /\ cindent <= Settled /\ Settled <= Deepest
      /\ Settled = Reached \/ Head(w) = "comment"
  BY SettledBetween DEF ReadWord
<1>3. /\ cindent \in Nat /\ oindent \in Nat /\ oindent % LYTHON_INDENT = 0 /\ clean \in BOOLEAN
      /\ line \in [spaces : Nat, words : Seq(Kind) \ {<<>>}, blank : BOOLEAN, level : Nat, row : 1 .. MaxLines]
  BY DEF TypeOK
<1>4. Deepest = (IF cindent > oindent THEN cindent ELSE oindent)
  BY DEF Deepest
<1>5. LYTHON_INDENT \in Nat \ {0} /\ LYTHON_INDENT * 0 = 0 /\ 0 % LYTHON_INDENT = 0
  BY IndentAssumption, WholeLevels
<1>6. CASE a.left # <<>>
  <2>1. /\ line' = [line EXCEPT !.spaces = 0, !.words = a.left]
        /\ cindent' = Settled /\ oindent' = oindent /\ clean' = clean
    BY <1>6 DEF ReadWord
  <2>2. /\ line'.spaces = 0 /\ line'.words = a.left /\ line'.level = line.level
        /\ line'.row = line.row
        /\ line' \in [spaces : Nat, words : Seq(Kind) \ {<<>>}, blank : BOOLEAN, level : Nat, row : 1 .. MaxLines]
    BY <1>1, <1>3, <1>6, <2>1
  <2>3. ScannerOK'
    BY <1>2, <1>3, <2>1, <2>2 DEF ScannerOK
  <2>4. Deepest' = Deepest
    BY <1>2, <1>3, <1>4, <2>1 DEF Deepest
  <2>5. Reached' = Settled
    <3>1. Levels(line'.spaces) = 0
      BY <2>2, LevelsOfRest
    <3>2. Settled + LYTHON_INDENT * 0 = Settled
      BY <1>2, <1>5
    <3> QED
      BY <2>1, <3>1, <3>2 DEF Reached
  <2>6. \/ Settled >= LYTHON_INDENT * line.level /\ (clean => Settled = LYTHON_INDENT * line.level)
        \/ Len(a.left) = 1
    <3>1. Len(w) = 1 => Len(a.left) = 1
      <4> DEFINE k == Len(a.left)
      <4>1. k \in Nat /\ k # 0 /\ k <= Len(w)
        BY <1>1, <1>6, EmptySeq
      <4> HIDE DEF k
      <4>2. Len(w) = 1 => k = 1
        BY <4>1
      <4> QED
        BY <4>2 DEF k
    <3> QED
      BY <1>1, <1>2, <3>1 DEF LineInv
  <2>7. LineInv'
    <3>1. Ends(a.left) /\ (a.left[Len(a.left)] = "newline" => line.row < MaxLines)
      BY <1>1, <1>6 DEF LineInv
    <3> QED
      BY <2>1, <2>2, <2>5, <2>6, <3>1 DEF LineInv
  <2> QED
    BY <1>2, <1>3, <1>4, <2>1, <2>3, <2>4, <2>7
<1>7. CASE a.left = <<>>
  <2>1. PICK l \in Line, final \in BOOLEAN :
          /\ (line.row + 1 = MaxLines) => final
          /\ line' = Read(l, final, line.row + 1)
    BY <1>7 DEF ReadWord
  <2>2. \/ /\ cindent' = 0 /\ oindent' = IF Settled # 0 THEN Settled ELSE oindent
           /\ clean' = (clean /\ (Settled # 0 => Settled >= oindent))
        \/ /\ cindent' = Settled /\ oindent' = oindent
           /\ clean' = (clean /\ Settled = 0)
    BY <1>7 DEF ReadWord, NewLine, AtNewline
  <2>3. line.row + 1 \in 1 .. MaxLines
    <3>1. line.row < MaxLines
      BY <1>1, <1>7 DEF LineInv
    <3> QED
      BY <1>3, <3>1, MaxLinesAssumption
  <2>4. /\ line' \in [spaces : Nat, words : Seq(Kind) \ {<<>>}, blank : BOOLEAN, level : Nat, row : 1 .. MaxLines]
        /\ Ends(line'.words) /\ line'.level = Levels(line'.spaces)
        /\ line'.words[Len(line'.words)] = "newline" => line'.row < MaxLines
    BY <2>1, <2>3, FreshLine
  <2>5. ScannerOK'
    <3>1. cindent' \in Nat /\ cindent' % LYTHON_INDENT = 0
      BY <1>2, <1>5, <2>2
    <3>2. oindent' \in Nat /\ oindent' % LYTHON_INDENT = 0
      BY <1>2, <1>3, <2>2
    <3>3. clean' \in BOOLEAN
      BY <2>2, Zenon
    <3> QED
      BY <2>4, <3>1, <3>2, <3>3 DEF ScannerOK
  <2>6. LineInv'
    <3>1. line'.spaces \in Nat
      BY <2>4
    <3>2. LYTHON_INDENT * Levels(line'.spaces) \in Int
      BY <1>5, <3>1, LevelsBound, Times
    <3>3. /\ Reached' = cindent' + LYTHON_INDENT * line'.level
          /\ cindent' \in Nat /\ (clean' => cindent' = 0)
      <4>1. Reached' = cindent' + LYTHON_INDENT * line'.level
        BY <2>4 DEF Reached
      <4>2. cindent' \in Nat
        BY <1>2, <2>2
      <4>3. clean' => cindent' = 0
        BY <2>2
      <4> QED
        BY <4>1, <4>2, <4>3
    <3>4. Reached' >= LYTHON_INDENT * line'.level
          /\ (clean' => Reached' = LYTHON_INDENT * line'.level)
      BY <2>4, <3>2, <3>3
    <3> QED
      BY <2>4, <3>4 DEF LineInv
  <2>7. Deepest' = IF cindent' > oindent' THEN cindent' ELSE oindent'
    BY DEF Deepest
  <2>8. Deepest' <= Deepest
    BY <1>2, <1>3, <1>4, <2>2, <2>7
  <2>9. ASSUME clean' PROVE clean /\ Deepest' = Deepest
    <3>1. CASE cindent' = Settled /\ oindent' = oindent /\ clean' = (clean /\ Settled = 0)
      <4>1. clean /\ Settled = 0
        BY <2>9, <3>1
      <4> QED
        BY <1>2, <1>3, <1>4, <2>7, <3>1, <4>1
    <3>2. CASE /\ cindent' = 0 /\ oindent' = IF Settled # 0 THEN Settled ELSE oindent
               /\ clean' = (clean /\ (Settled # 0 => Settled >= oindent))
      <4>1. clean /\ (Settled # 0 => Settled >= oindent)
        BY <2>9, <3>2
      <4> QED
        BY <1>2, <1>3, <1>4, <2>7, <3>2, <4>1
    <3> QED
      BY <2>2, <3>1, <3>2
  <2> QED
    BY <2>5, <2>6, <2>8, <2>9
<1> QED
  BY <1>6, <1>7

-----------------------------------------------------------------------------
(* Tokens                                                                  *)

LEMMA DropPrefix ==
  ASSUME NEW a \in Seq(Kind), NEW b \in Seq(Kind)
  PROVE  /\ a \o b \in Seq(Kind)
         /\ SubSeq(a \o b, Len(a) + 1, Len(a \o b)) = b
<1> DEFINE c == a \o b
           n == Len(a)
           m == Len(b)
           s == SubSeq(c, n + 1, n + m)
<1>1. n \in Nat /\ m \in Nat
  OBVIOUS
<1>2. c \in Seq(Kind) /\ Len(c) = n + m
  BY ConcatProperties
<1>3. \A i \in 1 .. n + m : c[i] = IF i <= n THEN a[i] ELSE b[i - n]
  BY ConcatProperties
<1>4. \A i \in n + 1 .. n + m : c[i] \in Kind
  <2> HIDE DEF c
  <2> QED
    BY <1>1, <1>2
<1> HIDE DEF c, n, m
<1>5. /\ s \in Seq(Kind)
      /\ Len(s) = IF n + 1 <= n + m THEN (n + m) - (n + 1) + 1 ELSE 0
      /\ \A i \in 1 .. (n + m) - (n + 1) + 1 : s[i] = c[n + 1 + i - 1]
  <2>1. n + 1 \in Int /\ n + m \in Int
    BY <1>1
  <2> QED
    BY <1>4, <2>1, SubSeqProperties
<1>6. Len(s) = m
  BY <1>1, <1>5
<1>7. ASSUME NEW i \in 1 .. m PROVE s[i] = b[i]
  <2>1. /\ i \in 1 .. (n + m) - (n + 1) + 1 /\ n + 1 + i - 1 = n + i
        /\ n + i \in 1 .. n + m /\ ~ (n + i <= n) /\ (n + i) - n = i
    BY <1>1
  <2> QED
    BY <1>3, <1>5, <2>1
<1>8. s = b
  BY <1>5, <1>6, <1>7, SeqEqual DEF m
<1> QED
  BY <1>2, <1>8 DEF c, n

LEMMA KindsType ==
  ASSUME NEW q \in Seq(Token)
  PROVE  /\ Kinds(q) \in Seq(Kind)
         /\ \A t \in Token : Kinds(Append(q, t)) = Append(Kinds(q), t.kind)
         /\ q # <<>> => /\ Kinds(q) # <<>>
                        /\ Front(q) \in Seq(Token) /\ Len(Front(q)) = Len(q) - 1
                        /\ \A i \in DOMAIN Front(q) : i \in DOMAIN q /\ Front(q)[i] = q[i]
                        /\ Last(q) \in Token /\ Last(q) = q[Len(q)] /\ Len(q) \in DOMAIN q
                        /\ Kinds(Front(q)) = Front(Kinds(q)) /\ Last(Kinds(q)) = Last(q).kind
<1> DEFINE n == Len(q)
           ks == Kinds(q)
<1>1. n \in Nat /\ DOMAIN q = 1 .. n /\ \A i \in 1 .. n : q[i] \in Token /\ q[i].kind \in Kind
  <2>1. n \in Nat /\ DOMAIN q = 1 .. n /\ \A i \in 1 .. n : q[i] \in Token
    OBVIOUS
  <2>2. \A t \in Token : t.kind \in Kind
    BY DEF Token
  <2> QED
    BY <2>1, <2>2
<1>2. ks = [i \in 1 .. n |-> q[i].kind]
  BY DEF Kinds
<1>3. ks \in Seq(Kind) /\ Len(ks) = n
  BY <1>1, <1>2
<1>4. ASSUME NEW t \in Token PROVE Kinds(Append(q, t)) = Append(ks, t.kind)
  <2> DEFINE r == Append(q, t)
             ls == Append(ks, t.kind)
  <2>1. r \in Seq(Token) /\ Len(r) = n + 1 /\ r[n + 1] = t /\ \A i \in 1 .. n : r[i] = q[i]
    BY AppendProperties
  <2>2. t.kind \in Kind
    BY DEF Token
  <2>3. /\ ls \in Seq(Kind) /\ Len(ls) = n + 1 /\ ls[n + 1] = t.kind
        /\ \A i \in 1 .. n : ls[i] = ks[i]
    BY <1>3, <2>2, AppendProperties
  <2> HIDE DEF r, ls
  <2>4. Kinds(r) = [i \in 1 .. n + 1 |-> r[i].kind]
    BY <2>1 DEF Kinds
  <2>5. ls = [i \in 1 .. n + 1 |-> ls[i]]
    BY <2>3
  <2>6. \A i \in 1 .. n + 1 : ls[i] = r[i].kind
    <3>1. \A i \in 1 .. n + 1 : i \in 1 .. n \/ i = n + 1
      BY <1>1
    <3> HIDE DEF n
    <3> QED
      BY <1>2, <2>1, <2>3, <3>1
  <2> QED
    BY <2>4, <2>5, <2>6 DEF r, ls
<1>5. ASSUME q # <<>>
      PROVE  /\ ks # <<>>
             /\ Front(q) \in Seq(Token) /\ Len(Front(q)) = n - 1
             /\ \A i \in DOMAIN Front(q) : i \in DOMAIN q /\ Front(q)[i] = q[i]
             /\ Last(q) \in Token /\ Last(q) = q[n] /\ n \in DOMAIN q
             /\ Kinds(Front(q)) = Front(ks) /\ Last(ks) = Last(q).kind
  <2>1. n \in Nat \ {0} /\ n \in 1 .. n
    BY <1>5, EmptySeq
  <2>2. ks # <<>>
    <3> HIDE DEF ks, n
    <3> QED
      BY <1>3, <2>1, EmptySeq
  <2>3. Last(q) = q[n] /\ Last(ks) = ks[n]
    BY <1>3 DEF Last
  <2> DEFINE p == Front(q)
             ps == Front(ks)
  <2>4. p = SubSeq(q, 1, n - 1) /\ ps = SubSeq(ks, 1, n - 1)
    BY <1>3 DEF Front
  <2>5. /\ p \in Seq(Token) /\ Len(p) = n - 1 /\ \A i \in 1 .. n - 1 : p[i] = q[i]
    <3> HIDE DEF n
    <3>1. 1 \in Int /\ n - 1 \in Int /\ \A i \in 1 .. n - 1 : q[i] \in Token
      BY <1>1, <2>1
    <3>2. /\ SubSeq(q, 1, n - 1) \in Seq(Token)
          /\ Len(SubSeq(q, 1, n - 1)) = IF 1 <= n - 1 THEN (n - 1) - 1 + 1 ELSE 0
          /\ \A i \in 1 .. (n - 1) - 1 + 1 : SubSeq(q, 1, n - 1)[i] = q[1 + i - 1]
      BY <3>1, SubSeqProperties
    <3>3. (IF 1 <= n - 1 THEN (n - 1) - 1 + 1 ELSE 0) = n - 1 /\ (n - 1) - 1 + 1 = n - 1
          /\ \A i \in 1 .. n - 1 : 1 + i - 1 = i
      BY <2>1
    <3> QED
      BY <2>4, <3>2, <3>3
  <2>6. /\ ps \in Seq(Kind) /\ Len(ps) = n - 1 /\ \A i \in 1 .. n - 1 : ps[i] = ks[i]
    <3> HIDE DEF n, ks
    <3>1. 1 \in Int /\ n - 1 \in Int /\ \A i \in 1 .. n - 1 : ks[i] \in Kind
      BY <1>3, <2>1
    <3>2. /\ SubSeq(ks, 1, n - 1) \in Seq(Kind)
          /\ Len(SubSeq(ks, 1, n - 1)) = IF 1 <= n - 1 THEN (n - 1) - 1 + 1 ELSE 0
          /\ \A i \in 1 .. (n - 1) - 1 + 1 : SubSeq(ks, 1, n - 1)[i] = ks[1 + i - 1]
      BY <3>1, SubSeqProperties
    <3>3. (IF 1 <= n - 1 THEN (n - 1) - 1 + 1 ELSE 0) = n - 1 /\ (n - 1) - 1 + 1 = n - 1
          /\ \A i \in 1 .. n - 1 : 1 + i - 1 = i
      BY <2>1
    <3> QED
      BY <2>4, <3>2, <3>3 DEF ks
  <2> HIDE DEF p, ps
  <2>7. DOMAIN p = 1 .. n - 1 /\ \A i \in 1 .. n - 1 : i \in 1 .. n
    BY <1>1, <2>5
  <2>8. Kinds(p) = ps
    <3>1. Kinds(p) = [i \in 1 .. n - 1 |-> p[i].kind]
      BY <2>7 DEF Kinds
    <3>2. ps = [i \in 1 .. n - 1 |-> ps[i]]
      BY <2>6
    <3>3. \A i \in 1 .. n - 1 : ps[i] = p[i].kind
      BY <1>2, <2>5, <2>6, <2>7
    <3> QED
      BY <3>1, <3>2, <3>3
  <2> QED
    BY <1>1, <1>2, <2>1, <2>2, <2>3, <2>5, <2>7, <2>8 DEF p, ps
<1> QED
  BY <1>3, <1>4, <1>5

LEMMA OnThisLineType ==
  ASSUME TypeOK, NEW k \in Kind
  PROVE  /\ OnThisLine(k) \in Token /\ OnThisLine(k) # NoToken
         /\ OnThisLine(k).kind = k /\ OnThisLine(k).level = line.level
<1>1. line.level \in Nat /\ line.row \in 1 .. MaxLines /\ \A i \in 1 .. MaxLines : i \in Nat /\ i # 0
  BY MaxLinesAssumption DEF TypeOK
<1> QED
  BY <1>1 DEF OnThisLine, Token, NoToken

\* A word read: its tokens, and what they mean for the blocks.
LEMMA ReadWordOutcome ==
  ASSUME IInv, buffer = <<>>, ReadWord,
         NEW q, q = PushedBack, NEW t, t = OnThisLine(KindRead)
  PROVE  /\ q \in Seq(Token) /\ t \in Token /\ t.kind \in WordKind
         /\ \A i \in DOMAIN q : q[i].kind \in WordKind
         /\ WordsRead = Spelling(t.kind) \o Spelled[Kinds(q)]
         /\ Placed(t) /\ \A i \in DOMAIN q : Placed(q[i])
         /\ LYTHON_INDENT * depth >= Deepest'
         /\ clean' => clean /\ LYTHON_INDENT * depth = Deepest'
<1> DEFINE a == Scanned
           w == line.words
<1>1. TypeOK /\ LineInv /\ BlocksOpen /\ DepthRead = depth
  BY DEF IInv, DepthRead
<1>2. /\ a.kind \in WordKind /\ a.pushed \in Seq(WordKind)
      /\ SubSeq(w, 1, Len(w) - Len(a.left)) = Spelling(a.kind) \o Spelled[a.pushed]
      /\ ~ IsCode(Head(w)) => a.kind = Head(w) /\ a.pushed = <<>>
  BY <1>1, WordsTaken DEF LineInv, Scanned
<1>3. ~ Opens /\ ~ Closes
  BY DEF ReadWord
<1>4. /\ KindRead = a.kind /\ q = [i \in DOMAIN a.pushed |-> OnThisLine(a.pushed[i])]
      /\ WordsRead = SubSeq(w, 1, Len(w) - Len(a.left))
  BY <1>3 DEF KindRead, PushedBack, WordsRead
<1>5. t \in Token /\ t.kind = a.kind /\ t.level = line.level
  BY <1>1, <1>2, <1>4, OnThisLineType DEF WordKind
<1>6. /\ q \in Seq(Token) /\ DOMAIN q = DOMAIN a.pushed
      /\ \A i \in DOMAIN q : q[i].kind = a.pushed[i] /\ q[i].level = line.level
                             /\ q[i].kind \in WordKind
  <2> DEFINE n == Len(a.pushed)
  <2>1. n \in Nat /\ DOMAIN a.pushed = 1 .. n /\ \A i \in 1 .. n : a.pushed[i] \in WordKind
    BY <1>2
  <2>2. \A i \in 1 .. n : /\ OnThisLine(a.pushed[i]) \in Token
                          /\ OnThisLine(a.pushed[i]).kind = a.pushed[i]
                          /\ OnThisLine(a.pushed[i]).level = line.level
    BY <1>1, <2>1, OnThisLineType DEF WordKind
  <2> HIDE DEF n, a
  <2>3. q = [i \in 1 .. n |-> OnThisLine(a.pushed[i])]
    BY <1>4, <2>1
  <2>4. q \in Seq(Token)
    BY <2>1, <2>2, <2>3
  <2> QED
    BY <2>1, <2>2, <2>3, <2>4
<1>7. Kinds(q) = a.pushed
  <2>1. Kinds(q) = [i \in DOMAIN a.pushed |-> a.pushed[i]]
    BY <1>6 DEF Kinds
  <2>2. a.pushed = [i \in DOMAIN a.pushed |-> a.pushed[i]]
    BY <1>2
  <2> QED
    BY <2>1, <2>2
<1>8. IsCode(Head(w)) => depth >= line.level /\ (clean => depth = line.level)
  <2> SUFFICES ASSUME IsCode(Head(w)) PROVE depth >= line.level /\ (clean => depth = line.level)
    OBVIOUS
  <2>1. Len(w) # 1
    <3>1. Len(w) = 1 => w[1] \in {"newline", "eof"}
      BY <1>1 DEF LineInv, Ends
    <3>2. w[1] = Head(w)
      BY <1>1, EndsIsPhrase DEF LineInv
    <3> QED
      BY <3>1, <3>2 DEF IsCode
  <2>2. Reached >= LYTHON_INDENT * line.level /\ (clean => Reached = LYTHON_INDENT * line.level)
    BY <1>1, <2>1 DEF LineInv
  <2>3. Deepest >= LYTHON_INDENT * line.level /\ (clean => Deepest = LYTHON_INDENT * line.level)
    BY <1>1, <1>3, <2>2, SettledBetween
  <2>4. depth \in Nat /\ line.level \in Nat
    BY <1>1 DEF BlocksOpen, TypeOK
  <2>5. LYTHON_INDENT * line.level <= LYTHON_INDENT * depth
    <3>1. LYTHON_INDENT * depth \in Int /\ LYTHON_INDENT * line.level \in Int /\ Deepest \in Int
      BY <1>1, <2>4, IndentAssumption, Times, InLevels
    <3> QED
      BY <1>1, <2>3, <3>1 DEF BlocksOpen
  <2>6. clean => LYTHON_INDENT * depth = LYTHON_INDENT * line.level
    BY <1>1, <2>3 DEF BlocksOpen
  <2>7. line.level <= depth
    BY <2>4, <2>5, IndentAssumption, Times
  <2>8. clean => depth = line.level
    BY <2>4, <2>6, IndentAssumption, Times
  <2> QED
    BY <2>4, <2>7, <2>8
<1>9. Placed(t) /\ \A i \in DOMAIN q : Placed(q[i])
  <2>1. CASE IsCode(Head(w))
    BY <1>5, <1>6, <1>8, <2>1 DEF Placed
  <2>2. CASE ~ IsCode(Head(w))
    <3>1. ~ IsCode(t.kind) /\ a.pushed = <<>>
      BY <1>2, <1>5, <2>2
    <3>2. DOMAIN q = {}
      BY <1>6, <3>1
    <3> QED
      BY <3>1, <3>2 DEF Placed
  <2> QED
    BY <2>1, <2>2
<1>10. /\ LYTHON_INDENT * depth >= Deepest'
       /\ clean' => clean /\ LYTHON_INDENT * depth = Deepest'
  <2>1. Deepest' <= Deepest /\ (clean' => clean /\ Deepest' = Deepest)
    BY <1>1, ReadWordStep
  <2>2. Deepest \in Nat /\ Deepest' \in Int
    <3>1. ScannerOK'
      BY <1>1, ReadWordStep
    <3> QED
      BY <1>1, <3>1 DEF ScannerOK, Deepest, TypeOK
  <2>3. LYTHON_INDENT * depth \in Int
    BY <1>1, IndentAssumption, Times DEF BlocksOpen
  <2> QED
    BY <1>1, <2>1, <2>2, <2>3 DEF BlocksOpen
<1> QED
  BY <1>2, <1>4, <1>5, <1>6, <1>7, <1>9, <1>10

-----------------------------------------------------------------------------
(* The invariant holds at the start and is kept by every step              *)

LEMMA InitIInv == Init => IInv
<1> SUFFICES ASSUME Init PROVE IInv
  OBVIOUS
<1>2. PICK l \in Line, final \in BOOLEAN :
        /\ (MaxLines = 1) => final
        /\ line = Read(l, final, 1)
  BY DEF Init
<1>3. 1 \in 1 .. MaxLines
  BY MaxLinesAssumption
<1>4. /\ line \in [spaces : Nat, words : Seq(Kind) \ {<<>>}, blank : BOOLEAN, level : Nat, row : 1 .. MaxLines]
      /\ Ends(line.words) /\ line.level = Levels(line.spaces)
      /\ line.words[Len(line.words)] = "newline" => line.row < MaxLines
  BY <1>2, <1>3, FreshLine
<1>5. /\ cindent = 0 /\ oindent = 0 /\ buffer = <<>> /\ token = NoToken /\ depth = 0
      /\ behind = <<>> /\ clean = TRUE
  BY DEF Init
<1>6. 0 % LYTHON_INDENT = 0 /\ LYTHON_INDENT * 0 = 0 /\ LYTHON_INDENT \in Nat
  BY IndentAssumption
<1>7. TypeOK
  BY <1>4, <1>5, <1>6 DEF TypeOK
<1>8. LineInv
  <2>1. LYTHON_INDENT * line.level \in Int
    BY <1>4, <1>6
  <2>2. Reached = LYTHON_INDENT * line.level
    BY <1>4, <1>5, <2>1 DEF Reached
  <2> QED
    BY <1>4, <2>1, <2>2 DEF LineInv
<1>9. LayoutAlone /\ \A i \in DOMAIN buffer : Placed(buffer[i])
  BY <1>5 DEF LayoutAlone
<1>10. BlocksOpen
  BY <1>5, <1>6 DEF BlocksOpen, DepthRead, Deepest
<1>11. Placed(token)
  BY <1>5 DEF Placed
<1>12. TokensInOrder
  <2>1. Kinds(buffer) = <<>>
    BY <1>5 DEF Kinds
  <2> QED
    BY <1>5, <2>1, SpelledAppend DEF TokensInOrder
<1> QED
  BY <1>7, <1>8, <1>9, <1>10, <1>11, <1>12 DEF IInv

\* A token read ahead is delivered.
LEMMA PopKeeps ==
  ASSUME IInv, buffer # <<>>, buffer' = Front(buffer), Deliver(Last(buffer), <<>>),
         UNCHANGED scanner
  PROVE  IInv'
<1> DEFINE t == Last(buffer)
<1>1. TypeOK /\ LineInv /\ LayoutAlone /\ BlocksOpen /\ TokensInOrder
      /\ \A i \in DOMAIN buffer : Placed(buffer[i])
  BY DEF IInv
<1>2. /\ line' = line /\ cindent' = cindent /\ oindent' = oindent /\ clean' = clean
  BY DEF scanner
<1>3. /\ buffer \in Seq(Token) /\ depth \in Nat /\ behind \in Seq(Kind)
  BY <1>1 DEF TypeOK, BlocksOpen
<1>4. /\ Kinds(buffer) \in Seq(Kind) /\ Kinds(buffer) # <<>>
      /\ buffer' \in Seq(Token) /\ Len(buffer') = Len(buffer) - 1
      /\ \A i \in DOMAIN buffer' : i \in DOMAIN buffer /\ buffer'[i] = buffer[i]
      /\ t \in Token /\ t = buffer[Len(buffer)] /\ Len(buffer) \in DOMAIN buffer
      /\ Kinds(buffer') = Front(Kinds(buffer)) /\ Last(Kinds(buffer)) = t.kind
  BY <1>3, KindsType
<1>5. /\ token' = t
      /\ depth' = CASE t.kind = "indent" -> depth + 1
                    [] t.kind = "desindent" -> IF depth >= 0 THEN depth - 1 ELSE depth
                    [] OTHER -> depth
      /\ behind' = SubSeq(behind \o <<>>, Len(Spelling(t.kind)) + 1, Len(behind \o <<>>))
  BY DEF Deliver
<1>6. t.kind \in Kind
  BY <1>4 DEF Token
<1>7. depth' = DepthRead /\ DepthRead' = DepthRead
  <2>1. CASE Len(buffer) = 1
    <3>1. t = buffer[1] /\ buffer' = <<>>
      BY <1>4, <2>1, EmptySeq
    <3>2. depth' = DepthRead
      BY <1>3, <1>5, <3>1 DEF DepthRead
    <3> QED
      BY <3>1, <3>2 DEF DepthRead
  <2>2. CASE Len(buffer) # 1
    <3>1. \A i \in DOMAIN buffer : buffer[i].kind \notin {"indent", "desindent"}
      BY <1>1, <2>2 DEF LayoutAlone
    <3>2. depth' = depth
      BY <1>4, <1>5, <3>1
    <3>3. 1 \in DOMAIN buffer /\ buffer' # <<>> /\ 1 \in DOMAIN buffer'
      <4> DEFINE n == Len(buffer)
      <4>1. n \in Nat \ {0} /\ DOMAIN buffer = 1 .. n /\ DOMAIN buffer' = 1 .. Len(buffer')
        BY <1>3, <1>4, EmptySeq
      <4>2. Len(buffer') = n - 1 /\ n # 1
        BY <1>4, <2>2
      <4> HIDE DEF n
      <4>3. Len(buffer') # 0 /\ 1 \in 1 .. Len(buffer') /\ 1 \in 1 .. n
        BY <4>1, <4>2
      <4> QED
        BY <1>4, <4>1, <4>3, EmptySeq
    <3>4. buffer'[1] = buffer[1]
      BY <1>4, <3>3
    <3> QED
      BY <3>1, <3>2, <3>3, <3>4 DEF DepthRead
  <2> QED
    BY <2>1, <2>2
<1>8. BlocksOpen'
  <2>1. Deepest' = Deepest
    BY <1>2 DEF Deepest
  <2> QED
    BY <1>1, <1>2, <1>7, <2>1 DEF BlocksOpen
<1>9. /\ behind \o <<>> = behind
      /\ behind = Spelling(t.kind) \o Spelled[Kinds(buffer')]
      /\ behind' = Spelled[Kinds(buffer')] /\ behind' \in Seq(Kind)
  <2>1. behind \o <<>> = behind
    BY <1>3
  <2>2. behind = Spelling(t.kind) \o Spelled[Kinds(buffer')]
    BY <1>1, <1>4, SpelledUnfolds DEF TokensInOrder
  <2>3. Spelling(t.kind) \in Seq(Kind) /\ Kinds(buffer') \in Seq(Kind)
    BY <1>4, <1>6, SpellingType, KindsType
  <2>4. Spelled[Kinds(buffer')] \in Seq(Kind)
    BY <2>3, SpelledUnfolds
  <2> DEFINE x == Spelling(t.kind)
             y == Spelled[Kinds(buffer')]
  <2>5. SubSeq(x \o y, Len(x) + 1, Len(x \o y)) = y
    BY <2>3, <2>4, DropPrefix
  <2>6. behind' = SubSeq(behind, Len(x) + 1, Len(behind))
    BY <1>5, <2>1
  <2> HIDE DEF x, y
  <2>7. behind = x \o y
    BY <2>2 DEF x, y
  <2>8. behind' = y
    BY <2>5, <2>6, <2>7
  <2> QED
    BY <2>1, <2>2, <2>4, <2>8 DEF x, y
<1>10. TokensInOrder'
  <2>1. Kinds(buffer)' = Kinds(buffer')
    OBVIOUS
  <2> QED
    BY <1>9, <2>1 DEF TokensInOrder
<1>11. TypeOK'
  BY <1>1, <1>2, <1>4, <1>5, <1>8, <1>9 DEF TypeOK, BlocksOpen
<1>12. LineInv'
  BY <1>1, <1>2 DEF LineInv, Reached
<1>13. LayoutAlone'
  <2> SUFFICES ASSUME NEW i \in DOMAIN buffer', buffer'[i].kind \in {"indent", "desindent"}
               PROVE  FALSE
    BY DEF LayoutAlone
  <2>1. i \in DOMAIN buffer /\ buffer[i].kind \in {"indent", "desindent"}
    BY <1>4
  <2>2. Len(buffer) = 1
    BY <1>1, <2>1 DEF LayoutAlone
  <2>3. buffer' = <<>>
    BY <1>4, <2>2, EmptySeq
  <2> QED
    BY <2>3
<1>14. Placed(token)' /\ \A i \in DOMAIN buffer' : Placed(buffer[i])'
  <2>1. ASSUME NEW i \in DOMAIN buffer, buffer[i].kind \notin {"indent", "desindent"}
        PROVE  depth' = depth
    <3>1. CASE Len(buffer) = 1
      <4>1. i = 1
        BY <1>3, <3>1
      <4> QED
        BY <1>4, <1>5, <2>1, <3>1, <4>1
    <3>2. CASE Len(buffer) # 1
      <4>1. t.kind \notin {"indent", "desindent"}
        BY <1>1, <1>4, <3>2 DEF LayoutAlone
      <4> QED
        BY <1>5, <4>1
    <3> QED
      BY <3>1, <3>2
  <2>2. ASSUME NEW u, Placed(u), u.kind \notin {"indent", "desindent"} => depth' = depth
        PROVE  Placed(u)'
    BY <1>2, <2>2 DEF Placed
  <2>3. ASSUME NEW i \in DOMAIN buffer, NEW u, u = buffer[i] PROVE Placed(u)'
    BY <1>1, <2>1, <2>2, <2>3
  <2>4. ASSUME NEW i \in DOMAIN buffer' PROVE Placed(buffer[i])'
    <3>1. i \in DOMAIN buffer /\ buffer'[i] = buffer[i]
      BY <1>4
    <3>2. PICK u : u = buffer[i]
      OBVIOUS
    <3>3. Placed(u)' /\ u = buffer'[i]
      BY <2>3, <3>1, <3>2
    <3> QED
      BY <3>3 DEF Placed
  <2>5. Placed(token)'
    <3>1. PICK u : u = t
      OBVIOUS
    <3>2. Placed(u)' /\ u = token'
      BY <1>4, <1>5, <2>3, <3>1
    <3> QED
      BY <3>2 DEF Placed
  <2> QED
    BY <2>4, <2>5
<1> QED
  BY <1>8, <1>10, <1>11, <1>12, <1>13, <1>14, Zenon DEF IInv

\* An INDENT or a DESINDENT read: d, the blocks open afterwards.
LEMMA LayoutOutcome ==
  ASSUME IInv, buffer = <<>>, Indent \/ Desindent
  PROVE  /\ ScannerOK' /\ LineInv' /\ clean' = clean
         /\ PushedBack = <<>> /\ WordsRead = <<>> /\ KindRead \in {"indent", "desindent"}
         /\ \E d \in Nat :
              /\ d = IF KindRead = "indent" THEN depth + 1 ELSE depth - 1
              /\ LYTHON_INDENT * d >= Deepest'
              /\ clean => LYTHON_INDENT * d = Deepest'
<1> DEFINE b == LYTHON_INDENT
<1>1. TypeOK /\ LineInv /\ depth \in Nat /\ b * depth >= Deepest /\ (clean => b * depth = Deepest)
  BY DEF IInv, BlocksOpen, DepthRead
<1>2. b \in Nat \ {0}
  BY IndentAssumption
<1>3. Deepest \in Nat
  BY <1>1, InLevels
<1>4. /\ b * (depth + 1) = b * depth + b /\ b * (depth - 1) = b * depth - b /\ b * depth \in Int
      /\ b * 0 <= b * (depth - 1) => 0 <= depth - 1
  <2>1. b * 1 = b /\ depth \in Int /\ 1 \in Int /\ 0 \in Int /\ depth - 1 \in Int
    BY <1>1, <1>2
  <2>2. b * (depth + 1) = b * depth + b * 1 /\ b * (depth - 1) = b * depth - b * 1 /\ b * depth \in Int
    BY <1>2, <2>1, Times
  <2>3. b * 0 <= b * (depth - 1) => 0 <= depth - 1
    BY <1>2, <2>1, Times
  <2> QED
    BY <2>1, <2>2, <2>3
<1>5. CASE Indent
  <2>1. PushedBack = <<>> /\ WordsRead = <<>> /\ KindRead = "indent"
    BY <1>5 DEF Indent, PushedBack, WordsRead, KindRead
  <2>2. /\ ScannerOK' /\ line'.words = line.words /\ line'.level = line.level
        /\ line'.row = line.row /\ Reached' = Reached /\ Deepest' = Deepest + b /\ clean' = clean
    BY <1>1, <1>5, IndentStep
  <2>3. LineInv'
    BY <1>1, <2>2 DEF LineInv
  <2>4. depth + 1 \in Nat /\ b * (depth + 1) >= Deepest' /\ (clean => b * (depth + 1) = Deepest')
    BY <1>1, <1>2, <1>3, <1>4, <2>2
  <2> QED
    BY <2>1, <2>2, <2>3, <2>4
<1>6. CASE Desindent
  <2>1. PushedBack = <<>> /\ WordsRead = <<>> /\ KindRead = "desindent"
    BY <1>6 DEF Desindent, Closes, PushedBack, WordsRead, KindRead
  <2>2. /\ ScannerOK' /\ line'.words = line.words /\ line'.level = line.level
        /\ line'.row = line.row /\ Reached' = Reached /\ Deepest' = Deepest - b /\ clean' = clean
    BY <1>1, <1>6, DesindentStep
  <2>3. LineInv'
    BY <1>1, <2>2 DEF LineInv
  <2>4. Deepest' \in Nat
    BY <2>2 DEF ScannerOK, Deepest
  <2>5. b * (depth - 1) >= Deepest' /\ (clean => b * (depth - 1) = Deepest')
    BY <1>1, <1>2, <1>3, <1>4, <2>2, <2>4
  <2>6. depth - 1 \in Nat
    <3>1. b * 0 = 0 /\ b * (depth - 1) \in Int
      BY <1>2, <1>4
    <3>2. 0 <= depth - 1
      BY <1>4, <2>4, <2>5, <3>1
    <3> QED
      BY <1>1, <3>2
  <2> QED
    BY <2>1, <2>2, <2>3, <2>5, <2>6
<1> QED
  BY <1>5, <1>6

\* next_token with nothing read ahead
LEMMA ScanKeeps ==
  ASSUME IInv, buffer = <<>>, buffer' = PushedBack,
         Deliver(OnThisLine(KindRead), WordsRead), Scan
  PROVE  IInv'
<1> DEFINE t == OnThisLine(KindRead)
<1>1. TypeOK /\ LineInv /\ BlocksOpen /\ depth \in Nat /\ DepthRead = depth /\ behind = <<>>
  <2>1. Kinds(buffer) = <<>>
    BY DEF Kinds
  <2> QED
    BY <2>1, SpelledAppend DEF IInv, BlocksOpen, TokensInOrder, DepthRead
<1>2. /\ token' = t
      /\ depth' = CASE t.kind = "indent" -> depth + 1
                    [] t.kind = "desindent" -> IF depth >= 0 THEN depth - 1 ELSE depth
                    [] OTHER -> depth
      /\ behind' = SubSeq(<<>> \o WordsRead, Len(Spelling(t.kind)) + 1, Len(<<>> \o WordsRead))
  BY <1>1 DEF Deliver
<1>3. CASE Indent \/ Desindent
  <2>1. /\ ScannerOK' /\ LineInv' /\ clean' = clean
        /\ PushedBack = <<>> /\ WordsRead = <<>> /\ KindRead \in {"indent", "desindent"}
    BY <1>3, LayoutOutcome
  <2>2. PICK d \in Nat :
              /\ d = IF KindRead = "indent" THEN depth + 1 ELSE depth - 1
              /\ LYTHON_INDENT * d >= Deepest'
              /\ clean => LYTHON_INDENT * d = Deepest'
    BY <1>3, LayoutOutcome
  <2>3. t \in Token /\ t.kind = KindRead
    BY <1>1, <2>1, KindFacts, OnThisLineType
  <2>4. depth' = d
    BY <1>1, <1>2, <2>1, <2>2, <2>3
  <2>5. behind' = <<>>
    <3>1. Spelling(t.kind) = <<>>
      BY <2>1, <2>3 DEF Spelling
    <3> QED
      BY <1>2, <2>1, <3>1
  <2>6. BlocksOpen'
    BY <2>1, <2>2, <2>4 DEF BlocksOpen, DepthRead
  <2>7. TypeOK'
    BY <1>2, <2>1, <2>2, <2>3, <2>4, <2>5 DEF TypeOK, ScannerOK
  <2>8. TokensInOrder'
    <3>1. Kinds(buffer)' = <<>>
      BY <2>1 DEF Kinds
    <3> QED
      BY <2>5, <3>1, SpelledAppend DEF TokensInOrder
  <2>9. LayoutAlone' /\ Placed(token)' /\ \A i \in DOMAIN buffer' : Placed(buffer[i])'
    BY <1>2, <2>1, <2>3 DEF LayoutAlone, Placed
  <2> QED
    BY <2>1, <2>6, <2>7, <2>8, <2>9, Zenon DEF IInv
<1>4. CASE ReadWord
  <2>1. PICK q : q = PushedBack
    OBVIOUS
  <2>2. PICK u : u = t
    OBVIOUS
  <2>3. /\ q \in Seq(Token) /\ u \in Token /\ u.kind \in WordKind
        /\ \A i \in DOMAIN q : q[i].kind \in WordKind
        /\ WordsRead = Spelling(u.kind) \o Spelled[Kinds(q)]
        /\ Placed(u) /\ \A i \in DOMAIN q : Placed(q[i])
        /\ LYTHON_INDENT * depth >= Deepest'
        /\ clean' => clean /\ LYTHON_INDENT * depth = Deepest'
    BY <1>4, <2>1, <2>2, ReadWordOutcome
  <2>4. ScannerOK' /\ LineInv'
    BY <1>1, <1>4, ReadWordStep
  <2>5. u.kind \in Kind /\ u.kind \notin {"indent", "desindent"}
    BY <2>3 DEF WordKind
  <2>6. depth' = depth
    BY <1>2, <2>2, <2>5
  <2>7. behind' = Spelled[Kinds(q)] /\ behind' \in Seq(Kind)
    <3> DEFINE x == Spelling(u.kind)
               y == Spelled[Kinds(q)]
    <3>1. x \in Seq(Kind) /\ y \in Seq(Kind)
      BY <2>3, <2>5, SpellingType, KindsType, SpelledUnfolds
    <3>2. SubSeq(x \o y, Len(x) + 1, Len(x \o y)) = y /\ x \o y \in Seq(Kind)
      BY <3>1, DropPrefix
    <3>3. \A z \in Seq(Kind) : <<>> \o z = z
      OBVIOUS
    <3> HIDE DEF x, y
    <3>4. WordsRead = x \o y
      BY <2>3 DEF x, y
    <3>5. behind' = SubSeq(<<>> \o WordsRead, Len(x) + 1, Len(<<>> \o WordsRead))
      BY <1>2, <2>2 DEF x
    <3>6. behind' = y
      BY <3>2, <3>3, <3>4, <3>5
    <3> QED
      BY <3>1, <3>6 DEF y
  <2>8. TokensInOrder'
    <3>1. Kinds(buffer)' = Kinds(q)
      BY <2>1 DEF Kinds
    <3> QED
      BY <2>7, <3>1 DEF TokensInOrder
  <2>9. TypeOK'
    BY <1>1, <1>2, <2>1, <2>2, <2>3, <2>4, <2>6, <2>7 DEF TypeOK, ScannerOK
  <2>10. \A i \in DOMAIN q : q[i].kind \notin {"indent", "desindent"}
    BY <2>3 DEF WordKind
  <2>11. DepthRead' = depth
    <3>1. q = <<>> \/ 1 \in DOMAIN q
      BY <2>3, EmptySeq
    <3> QED
      BY <2>1, <2>6, <2>10, <3>1 DEF DepthRead
  <2>12. BlocksOpen'
    BY <1>1, <2>3, <2>6, <2>11 DEF BlocksOpen
  <2>13. LayoutAlone'
    BY <2>1, <2>10 DEF LayoutAlone
  <2>14. Placed(token)' /\ \A i \in DOMAIN buffer' : Placed(buffer[i])'
    BY <1>2, <2>1, <2>2, <2>3, <2>6 DEF Placed
  <2> QED
    BY <2>4, <2>8, <2>9, <2>12, <2>13, <2>14, Zenon DEF IInv
<1> QED
  BY <1>3, <1>4 DEF Scan

\* peek_token reads one token ahead
LEMMA PeekKeeps ==
  ASSUME IInv, PeekToken
  PROVE  IInv'
<1> DEFINE t == OnThisLine(KindRead)
<1>1. /\ buffer = <<>> /\ buffer' = Append(PushedBack, t) /\ behind' = behind \o WordsRead
      /\ Scan /\ token' = token /\ depth' = depth
  BY DEF PeekToken
<1>2. TypeOK /\ LineInv /\ BlocksOpen /\ depth \in Nat /\ DepthRead = depth /\ behind = <<>>
      /\ Placed(token)
  <2>1. Kinds(buffer) = <<>>
    BY <1>1 DEF Kinds
  <2> QED
    BY <1>1, <2>1, SpelledAppend DEF IInv, BlocksOpen, TokensInOrder, DepthRead
<1>3. CASE Indent \/ Desindent
  <2>1. /\ ScannerOK' /\ LineInv' /\ clean' = clean
        /\ PushedBack = <<>> /\ WordsRead = <<>> /\ KindRead \in {"indent", "desindent"}
    BY <1>1, <1>3, LayoutOutcome
  <2>2. PICK d \in Nat :
              /\ d = IF KindRead = "indent" THEN depth + 1 ELSE depth - 1
              /\ LYTHON_INDENT * d >= Deepest'
              /\ clean => LYTHON_INDENT * d = Deepest'
    BY <1>1, <1>3, LayoutOutcome
  <2>3. t \in Token /\ t.kind = KindRead
    BY <1>2, <2>1, KindFacts, OnThisLineType
  <2>4. buffer' = <<t>> /\ buffer' # <<>> /\ DOMAIN buffer' = {1} /\ Len(buffer') = 1
        /\ buffer'[1] = t /\ behind' = <<>> /\ buffer' \in Seq(Token)
    BY <1>1, <1>2, <2>1, <2>3
  <2>5. DepthRead' = d
    BY <1>1, <2>1, <2>2, <2>3, <2>4 DEF DepthRead
  <2>6. BlocksOpen'
    BY <1>1, <1>2, <2>1, <2>2, <2>5 DEF BlocksOpen
  <2>7. TypeOK'
    BY <1>1, <1>2, <2>1, <2>4 DEF TypeOK, ScannerOK
  <2>8. TokensInOrder'
    <3>1. Kinds(buffer)' = <<t.kind>>
      BY <2>4 DEF Kinds
    <3>2. t.kind \in Kind
      BY <2>1, <2>3, KindFacts
    <3>3. Spelled[<<t.kind>>] = Spelling(t.kind) \o <<>>
      <4>1. \A k \in Kind : <<k>> = Append(<<>>, k)
        OBVIOUS
      <4>2. <<>> \in Seq(Kind)
        OBVIOUS
      <4> QED
        BY <3>2, <4>1, <4>2, SpelledAppend
    <3>4. Spelling(t.kind) = <<>>
      BY <2>1, <2>3 DEF Spelling
    <3> QED
      BY <2>4, <3>1, <3>3, <3>4 DEF TokensInOrder
  <2>9. LayoutAlone' /\ Placed(token)' /\ \A i \in DOMAIN buffer' : Placed(buffer[i])'
    BY <1>1, <1>2, <2>1, <2>3, <2>4 DEF LayoutAlone, Placed
  <2> QED
    BY <2>1, <2>6, <2>7, <2>8, <2>9, Zenon DEF IInv
<1>4. CASE ReadWord
  <2>1. PICK q : q = PushedBack
    OBVIOUS
  <2>2. PICK u : u = t
    OBVIOUS
  <2>3. /\ q \in Seq(Token) /\ u \in Token /\ u.kind \in WordKind
        /\ \A i \in DOMAIN q : q[i].kind \in WordKind
        /\ WordsRead = Spelling(u.kind) \o Spelled[Kinds(q)]
        /\ Placed(u) /\ \A i \in DOMAIN q : Placed(q[i])
        /\ LYTHON_INDENT * depth >= Deepest'
        /\ clean' => clean /\ LYTHON_INDENT * depth = Deepest'
    BY <1>1, <1>4, <2>1, <2>2, ReadWordOutcome
  <2>4. ScannerOK' /\ LineInv'
    BY <1>2, <1>4, ReadWordStep
  <2>5. u.kind \in Kind /\ u.kind \notin {"indent", "desindent"}
    BY <2>3 DEF WordKind
  <2>6. /\ buffer' = Append(q, u) /\ buffer' \in Seq(Token) /\ buffer' # <<>>
        /\ Kinds(buffer') = Append(Kinds(q), u.kind)
        /\ \A i \in DOMAIN buffer' : buffer'[i] = u \/ (i \in DOMAIN q /\ buffer'[i] = q[i])
    <3>1. buffer' = Append(q, u)
      BY <1>1, <2>1, <2>2
    <3>2. /\ Append(q, u) \in Seq(Token) /\ Append(q, u) # <<>>
          /\ Len(Append(q, u)) = Len(q) + 1 /\ Append(q, u)[Len(q) + 1] = u
          /\ \A i \in 1 .. Len(q) : Append(q, u)[i] = q[i]
      BY <2>3, AppendProperties
    <3>3. Len(q) \in Nat /\ DOMAIN q = 1 .. Len(q)
      BY <2>3
    <3>4. ASSUME NEW i \in DOMAIN buffer'
          PROVE  buffer'[i] = u \/ (i \in DOMAIN q /\ buffer'[i] = q[i])
      <4> DEFINE n == Len(q)
      <4>1. DOMAIN buffer' = 1 .. n + 1
        BY <3>1, <3>2
      <4>2. n \in Nat /\ DOMAIN q = 1 .. n /\ buffer'[n + 1] = u /\ \A j \in 1 .. n : buffer'[j] = q[j]
        BY <3>1, <3>2, <3>3
      <4> HIDE DEF n
      <4>3. i \in 1 .. n \/ i = n + 1
        BY <3>4, <4>1, <4>2
      <4> QED
        BY <4>2, <4>3
    <3>5. Kinds(Append(q, u)) = Append(Kinds(q), u.kind)
      BY <2>3, KindsType
    <3> QED
      BY <3>1, <3>2, <3>4, <3>5
  <2>7. behind' = Spelling(u.kind) \o Spelled[Kinds(q)] /\ behind' \in Seq(Kind)
    <3> DEFINE x == Spelling(u.kind)
               y == Spelled[Kinds(q)]
    <3>1. x \in Seq(Kind) /\ y \in Seq(Kind)
      BY <2>3, <2>5, SpellingType, KindsType, SpelledUnfolds
    <3>2. x \o y \in Seq(Kind)
      BY <3>1, ConcatProperties
    <3>3. \A z \in Seq(Kind) : <<>> \o z = z
      OBVIOUS
    <3> QED
      BY <1>1, <1>2, <2>3, <3>2, <3>3
  <2>8. TokensInOrder'
    <3>1. Kinds(buffer)' = Append(Kinds(q), u.kind)
      BY <2>6
    <3>2. Kinds(q) \in Seq(Kind)
      BY <2>3, KindsType
    <3> QED
      BY <2>5, <2>7, <3>1, <3>2, SpelledAppend DEF TokensInOrder
  <2>9. TypeOK'
    BY <1>1, <1>2, <2>4, <2>6, <2>7 DEF TypeOK, ScannerOK
  <2>10. \A i \in DOMAIN buffer' : buffer'[i].kind \notin {"indent", "desindent"}
    BY <2>3, <2>5, <2>6 DEF WordKind
  <2>11. DepthRead' = depth
    <3>1. 1 \in DOMAIN buffer'
      BY <2>6, EmptySeq
    <3> QED
      BY <1>1, <2>10, <3>1 DEF DepthRead
  <2>12. BlocksOpen'
    BY <1>1, <1>2, <2>3, <2>11 DEF BlocksOpen
  <2>13. LayoutAlone'
    BY <2>10 DEF LayoutAlone
  <2>14. Placed(token)' /\ \A i \in DOMAIN buffer' : Placed(buffer[i])'
    BY <1>1, <1>2, <2>3, <2>6 DEF Placed
  <2> QED
    BY <2>4, <2>8, <2>9, <2>12, <2>13, <2>14, Zenon DEF IInv
<1> QED
  BY <1>1, <1>3, <1>4 DEF Scan

LEMMA NextIInv == IInv /\ [Next]_lexerVars => IInv'
<1> SUFFICES ASSUME IInv, [Next]_lexerVars PROVE IInv'
  OBVIOUS
<1>1. CASE NextToken
  BY <1>1, PopKeeps, ScanKeeps DEF NextToken
<1>2. CASE PeekToken
  BY <1>2, PeekKeeps
<1>3. CASE UNCHANGED lexerVars
  BY <1>3 DEF lexerVars, scanner, IInv, TypeOK, LineInv, LayoutAlone, BlocksOpen, Placed,
              TokensInOrder, DepthRead, Deepest, Reached, Kinds
<1> QED
  BY <1>1, <1>2, <1>3 DEF Next

-----------------------------------------------------------------------------
(* Where tokens come from                                                  *)

\* The last word an answer takes is the deepest token pushed back.
Deepmost(a) == IF a.pushed = <<>> THEN a.kind ELSE a.pushed[1]

\* Only that one ends the line or the file.
Closed(a) ==
  /\ \A i \in DOMAIN a.pushed : a.pushed[i] \in {"newline", "eof"} => i = 1
  /\ a.kind \in {"newline", "eof"} => a.pushed = <<>>
  /\ Deepmost(a) = "newline" <=> a.left = <<>>
  /\ Deepmost(a) = "eof" => a.left = <<"eof">>

LEMMA AloneClosed ==
  ASSUME NEW w, Ends(w), NEW a, a = Alone(w)
  PROVE  Closed(a)
<1>1. /\ w \in Seq(Kind) /\ w \in Phrase /\ Head(w) = w[1] /\ Len(w) \in Nat \ {0}
      /\ w[Len(w)] \in {"newline", "eof"}
  BY EndsIsPhrase DEF Ends
<1>2. a.kind = Head(w) /\ a.pushed = <<>> /\ a.left = IF Head(w) = "eof" THEN w ELSE Tail(w)
  BY DEF Alone
<1>3. Head(w) \in {"newline", "eof"} <=> Len(w) = 1
  <2>1. Len(w) = 1 => Head(w) \in {"newline", "eof"}
    BY <1>1
  <2>2. ASSUME Len(w) # 1 PROVE Head(w) \notin {"newline", "eof"}
    <3>1. \A n \in Nat \ {0} : n # 1 => 1 \in 1 .. n - 1
      OBVIOUS
    <3>2. 1 \in 1 .. Len(w) - 1
      BY <1>1, <2>2, <3>1
    <3>3. w[1] \in Word
      BY <3>2 DEF Ends
    <3> QED
      BY <1>1, <3>3, KindFacts
  <2> QED
    BY <2>1, <2>2
<1>4. Tail(w) = <<>> <=> Len(w) = 1
  <2>1. Tail(w) \in Seq(Kind) /\ Len(Tail(w)) = Len(w) - 1
    BY <1>1, TailOfPhrase
  <2> DEFINE v == Tail(w)
             n == Len(w)
  <2>2. v \in Seq(Kind) /\ Len(v) = n - 1 /\ n \in Nat \ {0}
    BY <1>1, <2>1
  <2> HIDE DEF v, n
  <2>3. v = <<>> <=> Len(v) = 0
    BY <2>2, EmptySeq
  <2>4. v = <<>> <=> n = 1
    BY <2>2, <2>3
  <2> QED
    BY <2>4 DEF v, n
<1>5. Head(w) = "eof" => w = <<"eof">>
  <2> SUFFICES ASSUME Head(w) = "eof" PROVE w = <<"eof">>
    OBVIOUS
  <2>1. Len(w) = 1 /\ w[1] = "eof"
    BY <1>1, <1>3
  <2>2. <<"eof">> \in Seq(Kind)
    <3>1. "eof" \in Kind
      BY KindFacts
    <3> QED
      BY <3>1
  <2>3. Len(<<"eof">>) = 1 /\ <<"eof">>[1] = "eof" /\ \A i \in 1 .. 1 : i = 1
    OBVIOUS
  <2>4. \A i \in 1 .. 1 : w[i] = <<"eof">>[i]
    BY <2>1, <2>3
  <2> QED
    BY <1>1, <2>1, <2>2, <2>3, <2>4, SeqEqual
<1>6. w # <<>>
  BY <1>1 DEF Phrase
<1> QED
  BY <1>2, <1>3, <1>4, <1>5, <1>6 DEF Closed, Deepmost

LEMMA CombineClosed ==
  ASSUME NEW word \in {"is", "not"}, NEW b \in Answer, Closed(b), NEW a, a = Combine(word, b)
  PROVE  Closed(a)
<1>1. /\ b = [kind |-> b.kind, pushed |-> b.pushed, left |-> b.left]
      /\ b.kind \in Kind /\ b.pushed \in Seq(Kind) /\ b.left \in Seq(Kind)
  BY DEF Answer
<1>2. CASE \/ word = "is" /\ b.kind = "not"
           \/ word = "not" /\ b.kind = "in"
  <2>1. a.kind \in {"is not", "not in"} /\ a.pushed = b.pushed /\ a.left = b.left
    BY <1>1, <1>2 DEF Combine
  <2> QED
    BY <1>2, <2>1 DEF Closed, Deepmost
<1>3. CASE ~ (word = "is" /\ b.kind = "not") /\ ~ (word = "not" /\ b.kind = "in")
  <2>1. a.kind = word /\ a.pushed = Append(b.pushed, b.kind) /\ a.left = b.left
    BY <1>1, <1>3 DEF Combine, PushBack
  <2> DEFINE p == b.pushed
             n == Len(p)
             r == Append(p, b.kind)
  <2>2. /\ r \in Seq(Kind) /\ Len(r) = n + 1 /\ r[n + 1] = b.kind /\ r # <<>>
        /\ \A i \in 1 .. n : r[i] = p[i]
    BY <1>1, AppendProperties
  <2>3. n \in Nat /\ DOMAIN p = 1 .. n /\ DOMAIN r = 1 .. n + 1 /\ (p = <<>> <=> n = 0)
    <3>1. n \in Nat /\ DOMAIN p = 1 .. n /\ (p = <<>> <=> n = 0)
      BY <1>1, EmptySeq
    <3> QED
      BY <2>2, <3>1
  <2> HIDE DEF n, p, r
  <2>4. r[1] = Deepmost(b)
    <3>1. n # 0 => 1 \in 1 .. n
      BY <2>3
    <3>2. n = 0 => r[1] = b.kind
      BY <2>2, <2>3
    <3> QED
      BY <2>2, <2>3, <3>1, <3>2 DEF Deepmost, p
  <2>5. Deepmost(a) = Deepmost(b)
    BY <2>1, <2>2, <2>4 DEF Deepmost, p, r
  <2>6. ASSUME NEW i \in 1 .. n + 1, r[i] \in {"newline", "eof"} PROVE i = 1
    <3>1. CASE i \in 1 .. n
      BY <2>2, <2>3, <2>6, <3>1 DEF Closed, p
    <3>2. CASE i \notin 1 .. n
      <4>1. i = n + 1
        BY <2>3, <3>2
      <4>2. b.kind \in {"newline", "eof"}
        BY <2>2, <2>6, <4>1
      <4>3. n = 0
        BY <2>3, <4>2 DEF Closed, p
      <4> QED
        BY <4>1, <4>3
    <3> QED
      BY <3>1, <3>2
  <2>7. a.kind \notin {"newline", "eof"} /\ a.pushed = r
    BY <2>1 DEF r, p
  <2> QED
    BY <2>1, <2>3, <2>5, <2>6, <2>7 DEF Closed
<1> QED
  BY <1>2, <1>3

LEMMA LookaheadClosed ==
  ASSUME NEW w, Ends(w)
  PROVE  Closed(Lookahead[w])
<1> DEFINE T == {v \in Phrase : Ends(v) /\ ~ Closed(Lookahead[v])}
           rank == [v \in Phrase |-> Len(v)]
<1> SUFFICES T = {}
  BY EndsIsPhrase
<1> SUFFICES ASSUME T # {} PROVE FALSE
  OBVIOUS
<1>1. rank \in [Phrase -> Nat]
  BY TailOfPhrase
<1>2. PICK v \in T : \A u \in T : rank[v] <= rank[u]
  BY <1>1, LeastRank
<1>3. CASE Head(v) \in {"is", "not"}
  <2>1. Tail(v) \in Phrase /\ Ends(Tail(v)) /\ ~ (rank[v] <= rank[Tail(v)])
    BY <1>2, <1>3, TailOfPhrase, EndsIsPhrase
  <2>2. Closed(Lookahead[Tail(v)]) /\ Lookahead[Tail(v)] \in Answer
    BY <1>2, <2>1, LookaheadUnfolds
  <2> QED
    BY <1>2, <1>3, <2>2, CombineClosed, LookaheadUnfolds
<1>4. CASE Head(v) \notin {"is", "not"}
  BY <1>2, <1>4, AloneClosed, LookaheadUnfolds
<1> QED
  BY <1>3, <1>4

\* Within a line no block opens or closes; at the end neither.
LEMMA QuietLine ==
  ASSUME TypeOK, MidLine \/ AtEnd
  PROVE  ~ Opens /\ ~ Closes
<1>1. line.spaces = 0
  BY DEF MidLine, AtEnd
<1>2. Reached \in Nat /\ oindent \in Nat
  BY InLevels DEF TypeOK
<1>3. IsCode(Head(line.words)) => Reached >= oindent
  <2>1. AtEnd => Head(line.words) = "eof"
    BY DEF AtEnd
  <2> QED
    BY <2>1 DEF MidLine, IsCode
<1> QED
  BY <1>1, <1>2, <1>3 DEF Opens, Closes

\* A word read: the tokens it gives and where it leaves the reader.
LEMMA ReadWordLeaves ==
  ASSUME IInv, ReadWord,
         NEW q, q = PushedBack, NEW t, t = OnThisLine(KindRead)
  PROVE  /\ t.kind \in WordKind /\ t.row \in 1 .. MaxLines
         /\ \A i \in DOMAIN q : /\ q[i].kind \in WordKind /\ q[i].row \in 1 .. MaxLines
                                /\ q[i].kind \in {"newline", "eof"} => i = 1
         /\ t.kind \in {"newline", "eof"} => q = <<>>
         /\ LET last == IF q = <<>> THEN t.kind ELSE q[1].kind
            IN (last = "eof" => AtEnd') /\ (last \notin Layout => MidLine')
         /\ AtEnd => t.kind = "eof"
<1> DEFINE a == Scanned
           w == line.words
<1>1. TypeOK /\ LineInv /\ Ends(w) /\ a = Lookahead[w]
  BY DEF IInv, LineInv, Scanned
<1>2. ~ Opens /\ ~ Closes
  BY DEF ReadWord
<1>3. /\ a.kind \in WordKind /\ a.pushed \in Seq(WordKind)
      /\ ~ IsCode(Head(w)) => a.kind = Head(w) /\ a.pushed = <<>>
      /\ Closed(a)
  BY <1>1, WordsTaken, LookaheadClosed
<1>4. /\ KindRead = a.kind /\ q = [i \in DOMAIN a.pushed |-> OnThisLine(a.pushed[i])]
  BY <1>2 DEF KindRead, PushedBack
<1>5. line.row \in 1 .. MaxLines
  BY <1>1 DEF TypeOK
<1>6. t.kind = a.kind /\ t.row \in 1 .. MaxLines
  BY <1>4, <1>5 DEF OnThisLine
<1>7. /\ DOMAIN q = DOMAIN a.pushed
      /\ \A i \in DOMAIN q : q[i].kind = a.pushed[i] /\ q[i].kind \in WordKind
                             /\ q[i].row \in 1 .. MaxLines
  <2>1. \A i \in DOMAIN a.pushed : a.pushed[i] \in WordKind
    BY <1>3
  <2> HIDE DEF a
  <2> QED
    BY <1>4, <1>5, <2>1 DEF OnThisLine
<1>8. (q = <<>> <=> a.pushed = <<>>) /\ (q # <<>> => 1 \in DOMAIN q)
  <2> DEFINE p == a.pushed
  <2>1. p \in Seq(WordKind)
    BY <1>3
  <2> HIDE DEF p
  <2>2. p = <<>> \/ 1 \in DOMAIN p
    BY <2>1, EmptySeq
  <2>3. q = [i \in DOMAIN p |-> OnThisLine(p[i])] /\ DOMAIN q = DOMAIN p
    BY <1>4, <1>7 DEF p
  <2>4. p = <<>> => q = <<>>
    BY <2>3
  <2>5. q = <<>> => 1 \notin DOMAIN p
    BY <2>3
  <2> QED
    BY <2>2, <2>3, <2>4, <2>5 DEF p
<1> DEFINE last == IF q = <<>> THEN t.kind ELSE q[1].kind
<1>9. last = Deepmost(a)
  BY <1>6, <1>7, <1>8 DEF Deepmost
<1>10. ASSUME a.left # <<>> PROVE MidLine'
  <2>1. /\ line' = [line EXCEPT !.spaces = 0, !.words = a.left]
        /\ cindent' = Settled /\ oindent' = oindent
    BY <1>10 DEF ReadWord
  <2>2. line'.spaces = 0 /\ line'.words = a.left
    BY <1>1, <2>1 DEF TypeOK
  <2>3. Settled \in Nat /\ (Settled = Reached \/ Head(w) = "comment") /\ oindent \in Nat
    BY <1>1, <1>2, SettledBetween DEF TypeOK
  <2>4. Reached' = Settled
    <3>1. Levels(line'.spaces) = 0
      BY <2>2, LevelsOfRest
    <3>2. Settled + LYTHON_INDENT * 0 = Settled
      BY <2>3, IndentAssumption
    <3> QED
      BY <2>1, <3>1, <3>2 DEF Reached
  <2>5. IsCode(Head(a.left)) => Settled >= oindent
    <3> SUFFICES ASSUME IsCode(Head(a.left)) PROVE Settled >= oindent
      OBVIOUS
    <3>1. CASE IsCode(Head(w))
      <4>1. Settled = Reached /\ ~ (Reached < oindent)
        BY <1>2, <2>3, <3>1 DEF Closes, IsCode
      <4> QED
        BY <2>3, <4>1
    <3>2. CASE Head(w) = "comment"
      BY <2>3, <3>2 DEF Settled
    <3>3. CASE Head(w) \in {"newline", "eof"}
      <4>1. Deepmost(a) = Head(w)
        BY <1>3, <3>3 DEF Deepmost, IsCode
      <4>2. a.left = <<"eof">>
        BY <1>3, <1>10, <3>3, <4>1 DEF Closed
      <4> QED
        BY <4>2 DEF IsCode
    <3> QED
      BY <3>1, <3>2, <3>3 DEF IsCode
  <2> QED
    BY <2>1, <2>2, <2>4, <2>5 DEF MidLine
<1>11. last = "eof" => AtEnd'
  <2> SUFFICES ASSUME last = "eof" PROVE AtEnd'
    OBVIOUS
  <2>1. a.left = <<"eof">>
    BY <1>3, <1>9 DEF Closed
  <2>2. line' = [line EXCEPT !.spaces = 0, !.words = a.left]
    BY <2>1 DEF ReadWord
  <2> QED
    BY <1>1, <2>1, <2>2 DEF AtEnd, TypeOK
<1>12. last \notin Layout => MidLine'
  BY <1>3, <1>9, <1>10 DEF Closed, Layout
<1>13. AtEnd => t.kind = "eof"
  <2>1. AtEnd => Head(w) = "eof"
    BY DEF AtEnd
  <2> QED
    BY <1>3, <1>6, <2>1 DEF IsCode
<1>14. \A i \in DOMAIN q : q[i].kind \in {"newline", "eof"} => i = 1
  BY <1>3, <1>7 DEF Closed
<1>15. t.kind \in {"newline", "eof"} => q = <<>>
  BY <1>3, <1>6, <1>8 DEF Closed
<1> HIDE DEF last
<1>16. LET l == IF q = <<>> THEN t.kind ELSE q[1].kind
       IN (l = "eof" => AtEnd') /\ (l \notin Layout => MidLine')
  BY <1>11, <1>12 DEF last
<1> QED
  BY <1>3, <1>6, <1>7, <1>13, <1>14, <1>15, <1>16

LEMMA InitReadInv == Init => ReadInv
BY DEF Init, ReadInv, NoToken

LEMMA PopKeepsRead ==
  ASSUME FullInv, buffer # <<>>, buffer' = Front(buffer), Deliver(Last(buffer), <<>>),
         UNCHANGED scanner
  PROVE  ReadInv'
<1> DEFINE n == Len(buffer)
<1>1. IInv /\ TypeOK /\ LayoutAlone /\ ReadInv
  BY DEF FullInv, IInv
<1>2. line' = line /\ cindent' = cindent /\ oindent' = oindent
  BY DEF scanner
<1>3. buffer \in Seq(Token)
  BY <1>1 DEF TypeOK
<1>4. /\ buffer' \in Seq(Token) /\ Len(buffer') = n - 1
      /\ \A i \in DOMAIN buffer' : i \in DOMAIN buffer /\ buffer'[i] = buffer[i]
      /\ token' = buffer[n] /\ n \in DOMAIN buffer
  BY <1>3, KindsType DEF Deliver
<1>5. n \in Nat \ {0} /\ (n = 1 => buffer' = <<>>) /\ (buffer' # <<>> => 1 \in DOMAIN buffer')
      /\ (n # 1 => Len(buffer') \in DOMAIN buffer')
  <2>1. DOMAIN buffer = 1 .. n /\ n \in Nat /\ DOMAIN buffer' = 1 .. Len(buffer')
    BY <1>3, <1>4
  <2> HIDE DEF n
  <2>2. n # 0 /\ (n # 1 => n - 1 \in 1 .. n - 1)
    BY <1>4, <2>1
  <2> QED
    BY <1>4, <2>1, <2>2, EmptySeq
<1>6. (AtEnd' <=> AtEnd) /\ (MidLine' <=> MidLine)
  BY <1>2 DEF AtEnd, MidLine, Reached
<1>7. \A i \in DOMAIN buffer' : /\ buffer'[i].kind \in {"newline", "eof"} => i = 1
                                /\ buffer'[i].row \in 1 .. MaxLines
  BY <1>1, <1>4 DEF ReadInv
<1>8. buffer' # <<>> => /\ buffer'[1].kind = "eof" => AtEnd'
                        /\ buffer'[1].kind \notin Layout => MidLine'
  BY <1>1, <1>4, <1>5, <1>6 DEF ReadInv
<1>9. token'.row \in 1 .. MaxLines
  BY <1>1, <1>4 DEF ReadInv
<1>10. token'.kind = "eof" => AtEnd' /\ \A i \in DOMAIN buffer' : buffer'[i].kind = "eof"
  <2> SUFFICES ASSUME token'.kind = "eof"
               PROVE AtEnd' /\ \A i \in DOMAIN buffer' : buffer'[i].kind = "eof"
    OBVIOUS
  <2>1. n = 1
    BY <1>1, <1>4 DEF ReadInv
  <2>2. AtEnd /\ buffer' = <<>>
    BY <1>1, <1>4, <1>5, <2>1 DEF ReadInv
  <2> QED
    BY <1>6, <2>2
<1>11. token'.kind \notin Layout =>
         IF buffer' = <<>> THEN MidLine' ELSE buffer'[Len(buffer')].kind \notin {"indent", "desindent"}
  <2>1. CASE n = 1
    BY <1>1, <1>4, <1>5, <1>6, <2>1 DEF ReadInv
  <2>2. CASE n # 1
    <3>1. Len(buffer') \in DOMAIN buffer /\ buffer'[Len(buffer')] = buffer[Len(buffer')]
      BY <1>4, <1>5, <2>2
    <3>2. buffer'[Len(buffer')].kind \notin {"indent", "desindent"}
      BY <1>1, <2>2, <3>1 DEF LayoutAlone
    <3>3. buffer' # <<>>
      BY <1>4, <1>5, <2>2, EmptySeq
    <3> QED
      BY <3>2, <3>3
  <2> QED
    BY <2>1, <2>2
<1> QED
  BY <1>7, <1>8, <1>9, <1>10, <1>11 DEF ReadInv

LEMMA ScanKeepsRead ==
  ASSUME FullInv, buffer = <<>>, buffer' = PushedBack,
         Deliver(OnThisLine(KindRead), WordsRead), Scan
  PROVE  ReadInv'
<1>1. IInv /\ TypeOK /\ ReadInv
  BY DEF FullInv, IInv
<1>2. token' = OnThisLine(KindRead)
  BY DEF Deliver
<1>3. CASE Indent \/ Desindent
  <2>1. PushedBack = <<>> /\ KindRead \in {"indent", "desindent"}
    BY <1>1, <1>3, LayoutOutcome
  <2>2. token'.kind \in {"indent", "desindent"} /\ token'.row = line.row /\ line.row \in 1 .. MaxLines
    BY <1>1, <1>2, <2>1 DEF OnThisLine, TypeOK
  <2>3. buffer' = <<>>
    BY <2>1
  <2> QED
    BY <2>2, <2>3 DEF ReadInv, Layout
<1>4. CASE ReadWord
  <2>1. PICK q : q = PushedBack
    OBVIOUS
  <2>2. PICK t : t = OnThisLine(KindRead)
    OBVIOUS
  <2>3. buffer' = q /\ token' = t
    BY <1>2, <2>1, <2>2
  <2>4. /\ t.kind \in WordKind /\ t.row \in 1 .. MaxLines
        /\ \A i \in DOMAIN q : /\ q[i].kind \in WordKind /\ q[i].row \in 1 .. MaxLines
                               /\ q[i].kind \in {"newline", "eof"} => i = 1
        /\ t.kind \in {"newline", "eof"} => q = <<>>
        /\ LET last == IF q = <<>> THEN t.kind ELSE q[1].kind
           IN (last = "eof" => AtEnd') /\ (last \notin Layout => MidLine')
    BY <1>1, <1>4, <2>1, <2>2, ReadWordLeaves
  <2>5. q # <<>> => Len(q) \in DOMAIN q
    <3>1. q \in Seq(Token)
      BY <1>1, <1>4, <2>1, <2>2, ReadWordOutcome
    <3> QED
      BY <3>1, EmptySeq
  <2>6. q # <<>> => q[Len(q)].kind \notin {"indent", "desindent"}
    BY <2>4, <2>5 DEF WordKind
  <2> QED
    BY <2>3, <2>4, <2>6 DEF ReadInv, Layout
<1> QED
  BY <1>3, <1>4 DEF Scan

LEMMA PeekKeepsRead ==
  ASSUME FullInv, PeekToken
  PROVE  ReadInv'
<1>1. IInv /\ TypeOK /\ ReadInv
  BY DEF FullInv, IInv
<1>2. /\ buffer = <<>> /\ buffer' = Append(PushedBack, OnThisLine(KindRead))
      /\ Scan /\ token' = token /\ token # NoToken
  BY DEF PeekToken
<1>3. CASE Indent \/ Desindent
  <2>1. PushedBack = <<>> /\ KindRead \in {"indent", "desindent"}
    BY <1>1, <1>2, <1>3, LayoutOutcome
  <2>2. PICK t : t = OnThisLine(KindRead)
    OBVIOUS
  <2>3. t.kind \in {"indent", "desindent"} /\ t.row \in 1 .. MaxLines
    BY <1>1, <2>1, <2>2 DEF OnThisLine, TypeOK
  <2>4. buffer' = <<t>> /\ buffer' # <<>> /\ DOMAIN buffer' = {1} /\ buffer'[1] = t
    BY <1>2, <2>1, <2>2
  <2>5. ~ MidLine /\ ~ AtEnd
    <3>1. Opens \/ Closes
      BY <1>3 DEF Indent, Desindent
    <3> QED
      BY <1>1, <3>1, QuietLine
  <2>6. token.kind # "eof" /\ token.kind \in Layout
    BY <1>1, <1>2, <2>5 DEF ReadInv
  <2> QED
    BY <1>1, <1>2, <2>3, <2>4, <2>6 DEF ReadInv, Layout
<1>4. CASE ReadWord
  <2>1. PICK q : q = PushedBack
    OBVIOUS
  <2>2. PICK t : t = OnThisLine(KindRead)
    OBVIOUS
  <2>3. /\ t.kind \in WordKind /\ t.row \in 1 .. MaxLines
        /\ \A i \in DOMAIN q : /\ q[i].kind \in WordKind /\ q[i].row \in 1 .. MaxLines
                               /\ q[i].kind \in {"newline", "eof"} => i = 1
        /\ t.kind \in {"newline", "eof"} => q = <<>>
        /\ LET last == IF q = <<>> THEN t.kind ELSE q[1].kind
           IN (last = "eof" => AtEnd') /\ (last \notin Layout => MidLine')
        /\ AtEnd => t.kind = "eof"
    BY <1>1, <1>4, <2>1, <2>2, ReadWordLeaves
  <2>4. q \in Seq(Token) /\ t \in Token
    BY <1>1, <1>2, <1>4, <2>1, <2>2, ReadWordOutcome
  <2> DEFINE n == Len(q)
  <2>5. n \in Nat /\ DOMAIN q = 1 .. n /\ (q = <<>> <=> n = 0)
    BY <2>4, EmptySeq
  <2>6. /\ buffer' # <<>> /\ Len(buffer') = n + 1 /\ DOMAIN buffer' = 1 .. n + 1
        /\ buffer'[n + 1] = t /\ \A i \in 1 .. n : buffer'[i] = q[i]
    <3>1. buffer' = Append(q, t)
      BY <1>2, <2>1, <2>2
    <3>2. /\ Append(q, t) \in Seq(Token) /\ Append(q, t) # <<>>
          /\ Len(Append(q, t)) = n + 1 /\ Append(q, t)[n + 1] = t
          /\ \A i \in 1 .. n : Append(q, t)[i] = q[i]
      BY <2>4, AppendProperties
    <3> QED
      BY <3>1, <3>2
  <2> HIDE DEF n
  <2>7. \A i \in DOMAIN buffer' : i = n + 1 \/ i \in 1 .. n
    BY <2>5, <2>6
  <2>8. \A i \in DOMAIN buffer' : /\ buffer'[i].kind \in {"newline", "eof"} => i = 1
                                  /\ buffer'[i].row \in 1 .. MaxLines
    BY <2>3, <2>5, <2>6, <2>7
  <2>9. buffer'[1].kind = IF q = <<>> THEN t.kind ELSE q[1].kind
    <3>1. n # 0 => 1 \in 1 .. n
      BY <2>5
    <3> QED
      BY <2>5, <2>6, <3>1
  <2>10. buffer'[Len(buffer')].kind \notin {"indent", "desindent"}
    BY <2>3, <2>6 DEF WordKind
  <2>11. token.kind = "eof" => AtEnd' /\ \A i \in DOMAIN buffer' : buffer'[i].kind = "eof"
    <3> SUFFICES ASSUME token.kind = "eof"
                 PROVE AtEnd' /\ \A i \in DOMAIN buffer' : buffer'[i].kind = "eof"
      OBVIOUS
    <3>1. t.kind = "eof" /\ q = <<>>
      BY <1>1, <2>3 DEF ReadInv
    <3>2. AtEnd'
      BY <2>3, <3>1
    <3>3. n = 0
      BY <2>5, <3>1
    <3> QED
      BY <2>5, <2>6, <2>7, <3>1, <3>2, <3>3
  <2> QED
    BY <1>1, <1>2, <2>3, <2>6, <2>8, <2>9, <2>10, <2>11 DEF ReadInv, Layout
<1> QED
  BY <1>2, <1>3, <1>4 DEF Scan

LEMMA InitFullInv == Init => FullInv
BY InitIInv, InitReadInv DEF FullInv

LEMMA NextFullInv == FullInv /\ [Next]_lexerVars => FullInv'
<1> SUFFICES ASSUME FullInv, [Next]_lexerVars PROVE FullInv'
  OBVIOUS
<1>1. IInv'
  BY NextIInv DEF FullInv
<1>2. ReadInv'
  <2>1. CASE NextToken
    BY <2>1, PopKeepsRead, ScanKeepsRead DEF NextToken
  <2>2. CASE PeekToken
    BY <2>2, PeekKeepsRead
  <2>3. CASE UNCHANGED lexerVars
    BY <2>3 DEF FullInv, lexerVars, scanner, ReadInv, AtEnd, MidLine, Reached
  <2> QED
    BY <2>1, <2>2, <2>3 DEF Next
<1> QED
  BY <1>1, <1>2 DEF FullInv

\* What a call of next_token does, for its caller.
LEMMA NextTokenStep ==
  ASSUME FullInv, NextToken
  PROVE  /\ FullInv'
         /\ token' \in Token /\ token' # NoToken /\ token'.row \in 1 .. MaxLines
         /\ depth \in Nat /\ depth' \in Nat
         /\ depth' = CASE token'.kind = "indent" -> depth + 1
                       [] token'.kind = "desindent" -> depth - 1
                       [] OTHER -> depth
         /\ token.kind = "eof" => token'.kind = "eof"
         /\ token # NoToken /\ token.kind \notin Layout => token'.kind \notin {"indent", "desindent"}
         /\ clean' => clean
<1>1. IInv /\ TypeOK /\ ReadInv /\ depth \in Nat
  BY DEF FullInv, IInv, BlocksOpen
<1>2. FullInv'
  BY NextFullInv DEF Next
<1>3. depth' \in Nat /\ TypeOK' /\ ReadInv'
  BY <1>2 DEF FullInv, IInv, BlocksOpen
<1>4. CASE buffer # <<>>
  <2>1. /\ buffer' = Front(buffer) /\ Deliver(Last(buffer), <<>>) /\ UNCHANGED scanner
    BY <1>4 DEF NextToken
  <2>2. /\ token' = Last(buffer) /\ buffer \in Seq(Token)
        /\ depth' = CASE token'.kind = "indent" -> depth + 1
                      [] token'.kind = "desindent" -> IF depth >= 0 THEN depth - 1 ELSE depth
                      [] OTHER -> depth
    BY <1>1, <2>1 DEF Deliver, TypeOK
  <2>3. token' \in Token /\ token' = buffer[Len(buffer)] /\ Len(buffer) \in DOMAIN buffer
    BY <1>4, <2>2, KindsType
  <2>4. token'.row \in 1 .. MaxLines
    BY <1>1, <2>3 DEF ReadInv
  <2>5. token.kind = "eof" => token'.kind = "eof"
    BY <1>1, <2>3 DEF ReadInv
  <2>6. token # NoToken /\ token.kind \notin Layout => token'.kind \notin {"indent", "desindent"}
    BY <1>1, <1>4, <2>3 DEF ReadInv
  <2>7. clean' = clean
    BY <2>1 DEF scanner
  <2>8. token' # NoToken
    BY <2>4, MaxLinesAssumption DEF NoToken
  <2> QED
    BY <1>1, <1>2, <1>3, <2>2, <2>3, <2>4, <2>5, <2>6, <2>7, <2>8
<1>5. CASE buffer = <<>>
  <2>1. /\ buffer' = PushedBack /\ Deliver(OnThisLine(KindRead), WordsRead) /\ Scan
    BY <1>5 DEF NextToken
  <2>2. /\ token' = OnThisLine(KindRead)
        /\ depth' = CASE token'.kind = "indent" -> depth + 1
                      [] token'.kind = "desindent" -> IF depth >= 0 THEN depth - 1 ELSE depth
                      [] OTHER -> depth
    BY <2>1 DEF Deliver
  <2>3. KindRead \in Kind /\ token'.kind = KindRead /\ (clean' => clean)
        /\ (ReadWord => KindRead \in WordKind /\ (AtEnd => KindRead = "eof"))
    <3>1. CASE Indent \/ Desindent
      <4>1. KindRead \in {"indent", "desindent"} /\ clean' = clean
        BY <1>1, <1>5, <3>1, LayoutOutcome
      <4>2. ~ ReadWord
        BY <3>1 DEF Indent, Desindent, ReadWord
      <4> QED
        BY <2>2, <4>1, <4>2, KindFacts DEF OnThisLine
    <3>2. CASE ReadWord
      <4>1. PICK q : q = PushedBack
        OBVIOUS
      <4>2. PICK t : t = OnThisLine(KindRead)
        OBVIOUS
      <4>3. t.kind \in WordKind /\ (AtEnd => t.kind = "eof")
        BY <1>1, <3>2, <4>1, <4>2, ReadWordLeaves
      <4>4. t.kind = KindRead
        BY <4>2 DEF OnThisLine
      <4>5. clean' => clean
        BY <1>1, <3>2, ReadWordStep DEF IInv
      <4> QED
        BY <2>2, <4>2, <4>3, <4>4, <4>5 DEF WordKind
    <3> QED
      BY <2>1, <3>1, <3>2 DEF Scan
  <2>4. token' \in Token /\ token' # NoToken
    BY <1>1, <2>2, <2>3, OnThisLineType
  <2>5. token'.row \in 1 .. MaxLines
    BY <1>3, <2>4 DEF ReadInv
  <2>6. MidLine \/ AtEnd => ReadWord
    BY <1>1, <2>1, QuietLine DEF Scan, Indent, Desindent
  <2>7. token.kind = "eof" => token'.kind = "eof"
    BY <1>1, <2>3, <2>6 DEF ReadInv
  <2>8. token # NoToken /\ token.kind \notin Layout => token'.kind \notin {"indent", "desindent"}
    BY <1>1, <1>5, <2>3, <2>6 DEF ReadInv, WordKind
  <2> QED
    BY <1>1, <1>2, <1>3, <2>2, <2>3, <2>4, <2>5, <2>7, <2>8
<1> QED
  BY <1>4, <1>5

LEMMA TokenFacts ==
  ASSUME FullInv
  PROVE  /\ token \in Token \union {NoToken} /\ depth \in Nat /\ clean \in BOOLEAN
         /\ token = NoToken \/ token.row \in 1 .. MaxLines
         /\ clean /\ token # NoToken /\ IsCode(token.kind) /\ token.kind \notin {"indent", "desindent"}
              => depth = token.level
BY DEF FullInv, IInv, TypeOK, BlocksOpen, Placed, ReadInv

-----------------------------------------------------------------------------
(* Theorems                                                                *)

\* The inductive invariant holds in every file, with peek_token called at any moment.
THEOREM Invariance == Spec => []FullInv
BY InitFullInv, NextFullInv, PTL DEF Spec

\* Every variable keeps its type, and _cindent and _oindent stay whole levels, whatever
\* files next_token reads and however peek_token is mixed in.
THEOREM TypeCorrect == Spec => []TypeOK
<1>1. FullInv => TypeOK
  BY DEF FullInv, IInv
<1> QED
  BY <1>1, Invariance, PTL

\* next_token emits each INDENT and DESINDENT once: a token of code is delivered with as
\* many blocks open as its line has levels, up to the first line of spaces that hides a
\* DESINDENT and the first line of an indented block that ends in blanks.
THEOREM IndentsMatch == Spec => []IndentMatchesLine
<1>1. FullInv => IndentMatchesLine
  BY DEF FullInv, IInv, Placed, IndentMatchesLine
<1> QED
  BY <1>1, Invariance, PTL

\* Beyond those lines too, next_token never delivers code in fewer blocks than its line has.
THEOREM NeverShallow == Spec => []NeverTooShallow
<1>1. FullInv => NeverTooShallow
  BY DEF FullInv, IInv, Placed, NeverTooShallow
<1> QED
  BY <1>1, Invariance, PTL

\* The lookahead on is and not, nested or not, and peek_token lose no word, repeat none and
\* keep their order: the tokens read ahead spell the words read and not delivered.
THEOREM InOrder == Spec => []TokensInOrder
<1>1. FullInv => TokensInOrder
  BY DEF FullInv, IInv
<1> QED
  BY <1>1, Invariance, PTL

\* Once the caller has eof, next_token gives nothing else.
EofStays == [][token.kind = "eof" => token'.kind = "eof"]_lexerVars

\* INDENT and DESINDENT come before the first word of a line: never after a word of a line,
\* whether it was read, combined by the lookahead or waits in the buffer.
LayoutOpensLine ==
  [][token # NoToken /\ token.kind \notin Layout
       => token'.kind \notin {"indent", "desindent"}]_lexerVars

\* eof is final: next_token returns it again and again, and peek_token leaves _token alone.
THEOREM EofIsFinal == Spec => EofStays
<1>1. FullInv /\ [Next]_lexerVars
        => [token.kind = "eof" => token'.kind = "eof"]_lexerVars
  BY NextTokenStep DEF Next, PeekToken
<1> QED
  BY <1>1, Invariance, PTL DEF Spec, EofStays

\* No block opens or closes in the middle of a line of any file.
THEOREM LayoutBeforeWords == Spec => LayoutOpensLine
<1>1. FullInv /\ [Next]_lexerVars
        => [token # NoToken /\ token.kind \notin Layout
              => token'.kind \notin {"indent", "desindent"}]_lexerVars
  BY NextTokenStep DEF Next, PeekToken, Layout
<1> QED
  BY <1>1, Invariance, PTL DEF Spec, LayoutOpensLine

=============================================================================
