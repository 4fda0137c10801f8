----------------------------- MODULE SemaProofs -----------------------------
(* Theorems about Sema, for every set of trees, every depth and every      *)
(* program: first what any visit keeps, then (What a visit means) that the *)
(* analyser finds what Scoping says of the program.                        *)
EXTENDS Scoping, SequenceTheorems, WellFoundedInduction, TLAPS

-----------------------------------------------------------------------------
(* What a visit does                                                       *)

\* An entry a visit in the namespace ns may add: a plain name, or the dotted
\* name of something inside ns; a dotted name has its type.
Fresh(e, ns) ==
  /\ Len(e.name) = 1 \/ Len(e.name) > Len(ns)
  /\ e.fun = "untyped" => Len(e.name) = 1

Grows(b, c, ns) ==
  /\ Len(b) <= Len(c)
  /\ \A i \in 1 .. Len(b) : c[i] = b[i]
  /\ \A i \in Len(b) + 1 .. Len(c) : Fresh(c[i], ns)

\* The innermost context may get its flag, the others stay.
SameBelow(c, d) == Len(d) = Len(c) /\ \A i \in 1 .. Len(c) - 1 : d[i] = c[i]

Keeps(s, t) ==
  /\ t \in State
  /\ t.namespaces = s.namespaces
  /\ t.cached = s.cached
  /\ SameBelow(s.contexts, t.contexts)
  /\ s.errors \subseteq t.errors /\ s.generators \subseteq t.generators
  /\ Grows(s.bindings, t.bindings, s.namespaces)

\* exec does so on every node.
Executes(exec) ==
  /\ exec \in [Tree -> [State -> State]]
  /\ \A n \in Tree, s \in State : Keeps(s, exec[n][s])

\* Of the functions, only one of the module itself is ever left without type.
DottedAreTyped(b) == \A i \in 1 .. Len(b) : b[i].fun = "untyped" => Len(b[i].name) = 1

IInv == TypeOK /\ DottedAreTyped(sema.bindings)

-----------------------------------------------------------------------------
(* Numbers                                                                 *)

LEMMA Least ==
  ASSUME NEW S \in SUBSET Nat, S # {}
  PROVE  \E m \in S : \A p \in S : m <= p
<1>1. PICK m \in S : \A p \in S : ~ (<<p, m>> \in OpToRel(<, Nat))
  BY NatLessThanWellFounded, WFMin
<1>2. \A p \in S : ~ (p < m)
  BY <1>1 DEF OpToRel
<1> QED
  BY <1>2

\* A set that has 0 and with a number the next one has them all.
LEMMA Climbs ==
  ASSUME NEW S, 0 \in S, \A k \in Nat : k \in S => k + 1 \in S
  PROVE  Nat \subseteq S
<1> DEFINE T == {k \in Nat : k \notin S}
<1> SUFFICES ASSUME T # {} PROVE FALSE
  OBVIOUS
<1>1. PICK m \in T : \A p \in T : m <= p
  BY Least
<1>2. m # 0 /\ m - 1 \in Nat /\ (m - 1) + 1 = m /\ ~ (m <= m - 1)
  BY <1>1
<1>3. m - 1 \in S
  BY <1>1, <1>2
<1> QED
  BY <1>1, <1>2, <1>3

\* The largest of some numbers up to n.
LEMMA Largest ==
  ASSUME NEW n \in Nat, NEW S \in SUBSET (0 .. n), S # {}
  PROVE  Max(S) \in S /\ \A x \in S : x <= Max(S)
<1> DEFINE T == {n - x : x \in S}
<1>1. T \in SUBSET Nat /\ T # {}
  <2>1. \A x \in 0 .. n : n - x \in Nat
    OBVIOUS
  <2>2. \A x \in S : n - x \in Nat
    BY <2>1
  <2> QED
    BY <2>2
<1>2. PICK m \in T : \A p \in T : m <= p
  BY <1>1, Least
<1>3. PICK y \in S : m = n - y
  BY <1>2
<1>4. \A x \in S : x <= y
  <2> TAKE x \in S
  <2>1. n - x \in T
    OBVIOUS
  <2>2. n - y <= n - x
    BY <1>2, <1>3, <2>1
  <2> QED
    BY <2>2
<1>5. \E z \in S : \A x \in S : z >= x
  BY <1>4
<1>6. Max(S) \in S /\ \A x \in S : Max(S) >= x
  BY <1>5 DEF Max
<1> QED
  BY <1>6

-----------------------------------------------------------------------------
(* Recursion over the numbers                                              *)

Follows(f, n, V, first, step) ==
  /\ f \in [0 .. n -> V]
  /\ f[0] = first
  /\ \A k \in 0 .. n : k # 0 => f[k] = step[k][f[k - 1]]

LEMMA FollowerExists ==
  ASSUME NEW V, NEW first \in V, NEW step \in [Nat -> [V -> V]], NEW n \in Nat
  PROVE  \E f : Follows(f, n, V, first, step)
<1> DEFINE S == {k \in Nat : \E f : Follows(f, k, V, first, step)}
<1>1. 0 \in S
  <2> DEFINE f == [i \in 0 .. 0 |-> first]
  <2>1. Follows(f, 0, V, first, step)
    BY DEF Follows
  <2> QED
    BY <2>1
<1>2. ASSUME NEW k \in Nat, k \in S PROVE k + 1 \in S
  <2>1. PICK f : Follows(f, k, V, first, step)
    BY <1>2
  <2>2. f \in [0 .. k -> V] /\ f[k] \in V
    BY <2>1 DEF Follows
  <2> DEFINE g == [i \in 0 .. k + 1 |-> IF i = k + 1 THEN step[k + 1][f[k]] ELSE f[i]]
  <2>3. step[k + 1][f[k]] \in V
    BY <2>2
  <2>4. g \in [0 .. k + 1 -> V] /\ g[0] = first
    BY <2>1, <2>2, <2>3 DEF Follows
  <2>5. ASSUME NEW i \in 0 .. k + 1, i # 0 PROVE g[i] = step[i][g[i - 1]]
    <3>1. i - 1 \in 0 .. k /\ i - 1 # k + 1 /\ i - 1 \in 0 .. k + 1
      BY <2>5
    <3>2. g[i - 1] = f[i - 1]
      BY <3>1
    <3>3. CASE i = k + 1
      BY <3>2, <3>3
    <3>4. CASE i # k + 1
      <4>1. i \in 0 .. k
        BY <3>4
      <4> QED
        BY <2>1, <2>5, <3>2, <3>4, <4>1 DEF Follows
    <3> QED
      BY <3>3, <3>4
  <2>6. Follows(g, k + 1, V, first, step)
    BY <2>4, <2>5 DEF Follows
  <2> QED
    BY <2>6
<1> HIDE DEF S
<1>3. Nat \subseteq S
  BY <1>1, <1>2, Climbs
<1> QED
  BY <1>3 DEF S

LEMMA FollowersAgree ==
  ASSUME NEW V, NEW first, NEW step, NEW n \in Nat, NEW m \in Nat, NEW f, NEW g,
         Follows(f, n, V, first, step), Follows(g, m, V, first, step),
         NEW k \in Nat, k <= n, k <= m
  PROVE  f[k] = g[k]
<1> DEFINE T == {i \in 0 .. k : f[i] # g[i]}
<1> SUFFICES ASSUME T # {} PROVE FALSE
  OBVIOUS
<1>0. T \in SUBSET Nat
  OBVIOUS
<1>1. PICK i \in T : \A j \in T : i <= j
  BY <1>0, Least
<1>2. i # 0 /\ i \in 0 .. n /\ i \in 0 .. m
  BY <1>1 DEF Follows
<1>3. i - 1 \in 0 .. k /\ ~ (i <= i - 1)
  BY <1>1, <1>2
<1>4. f[i - 1] = g[i - 1]
  BY <1>1, <1>3
<1>5. f[i] = step[i][f[i - 1]] /\ g[i] = step[i][g[i - 1]]
  BY <1>2 DEF Follows
<1> QED
  BY <1>1, <1>4, <1>5

Solves(h, V, first, step) ==
  /\ h \in [Nat -> V]
  /\ h[0] = first
  /\ \A k \in Nat : k # 0 => h[k] = step[k][h[k - 1]]

\* A recursion with values in V has a solution.
LEMMA SolutionExists ==
  ASSUME NEW V, NEW first \in V, NEW step \in [Nat -> [V -> V]]
  PROVE  \E h : Solves(h, V, first, step)
<1> DEFINE F(k) == CHOOSE f : Follows(f, k, V, first, step)
           h == [k \in Nat |-> F(k)[k]]
<1>1. \A k \in Nat : Follows(F(k), k, V, first, step)
  BY FollowerExists
<1> HIDE DEF F
<1>2. h \in [Nat -> V]
  BY <1>1 DEF Follows
<1>3. h[0] = first
  BY <1>1 DEF Follows
<1>4. ASSUME NEW k \in Nat, k # 0 PROVE h[k] = step[k][h[k - 1]]
  <2>1. k - 1 \in Nat /\ k - 1 <= k /\ k - 1 <= k - 1 /\ k \in 0 .. k
    BY <1>4
  <2>2. F(k)[k - 1] = F(k - 1)[k - 1]
    <3>1. Follows(F(k), k, V, first, step) /\ Follows(F(k - 1), k - 1, V, first, step)
      BY <1>1, <2>1
    <3> QED
      BY <2>1, <3>1, FollowersAgree
  <2>3. F(k)[k] = step[k][F(k)[k - 1]]
    BY <1>1, <1>4, <2>1 DEF Follows
  <2> QED
    BY <2>1, <2>2, <2>3
<1>5. Solves(h, V, first, step)
  BY <1>2, <1>3, <1>4 DEF Solves
<1> QED
  BY <1>5

-----------------------------------------------------------------------------
(* What a visit does can be followed by what another does                  *)

LEMMA StateFields ==
  ASSUME NEW s \in State
  PROVE  /\ s.bindings \in Seq(Binding) /\ Len(s.bindings) \in Nat
         /\ s.namespaces \in Seq(STRING) /\ Len(s.namespaces) \in Nat
         /\ s.contexts \in Seq(BOOLEAN) /\ s.contexts # <<>> /\ Len(s.contexts) \in Nat \ {0}
         /\ s.errors \in SUBSET STRING /\ s.generators \in SUBSET Seq(STRING)
         /\ s.cached \in BOOLEAN
<1>1. s.contexts \in Seq(BOOLEAN) /\ s.contexts # <<>>
  BY DEF State
<1>2. Len(s.contexts) \in Nat \ {0}
  BY <1>1, EmptySeq
<1> QED
  BY <1>1, <1>2 DEF State

LEMMA KeepsSelf == ASSUME NEW s \in State PROVE Keeps(s, s)
<1>1. Len(s.bindings) \in Nat /\ Len(s.contexts) \in Nat
  BY StateFields
<1>2. Grows(s.bindings, s.bindings, s.namespaces)
  BY <1>1 DEF Grows
<1>3. SameBelow(s.contexts, s.contexts)
  BY DEF SameBelow
<1> QED
  BY <1>2, <1>3 DEF Keeps

LEMMA GrowsOn ==
  ASSUME NEW b, NEW c, NEW d, NEW ns, Len(b) \in Nat, Len(c) \in Nat, Len(d) \in Nat,
         Grows(b, c, ns), Grows(c, d, ns)
  PROVE  Grows(b, d, ns)
<1>1. Len(b) <= Len(c) /\ Len(c) <= Len(d) /\ Len(b) <= Len(d)
  BY DEF Grows
<1>2. ASSUME NEW i \in 1 .. Len(b) PROVE d[i] = b[i]
  BY <1>1, <1>2 DEF Grows
<1>3. ASSUME NEW i \in Len(b) + 1 .. Len(d) PROVE Fresh(d[i], ns)
  <2>1. CASE i \in 1 .. Len(c)
    <3>1. i \in Len(b) + 1 .. Len(c)
      BY <1>1, <2>1
    <3>2. d[i] = c[i] /\ Fresh(c[i], ns)
      BY <2>1, <3>1 DEF Grows
    <3> QED
      BY <3>2
  <2>2. CASE i \notin 1 .. Len(c)
    <3>1. i \in Len(c) + 1 .. Len(d)
      BY <1>1, <2>2
    <3> QED
      BY <3>1 DEF Grows
  <2> QED
    BY <2>1, <2>2
<1> QED
  BY <1>1, <1>2, <1>3 DEF Grows

LEMMA KeepsOn ==
  ASSUME NEW s \in State, NEW t, NEW u, Keeps(s, t), Keeps(t, u)
  PROVE  Keeps(s, u)
<1>1. t \in State /\ u \in State
  BY DEF Keeps
<1>2. /\ Len(s.bindings) \in Nat /\ Len(t.bindings) \in Nat /\ Len(u.bindings) \in Nat
      /\ Len(s.contexts) \in Nat
  BY <1>1, StateFields
<1>3. Grows(s.bindings, u.bindings, s.namespaces)
  <2>1. Grows(s.bindings, t.bindings, s.namespaces) /\ Grows(t.bindings, u.bindings, s.namespaces)
    BY DEF Keeps
  <2> QED
    BY <1>2, <2>1, GrowsOn
<1>4. SameBelow(s.contexts, u.contexts)
  BY <1>2 DEF Keeps, SameBelow
<1> QED
  BY <1>3, <1>4 DEF Keeps

Unfolds(a, steps, s) ==
  /\ a[0] = s
  /\ \A i \in 1 .. Len(steps) : a[i] = steps[i][a[i - 1]]
  /\ InTurn(steps, s) = a[Len(steps)]

LEMMA InTurnUnfolds ==
  ASSUME NEW steps \in Seq([State -> State]), NEW s \in State
  PROVE  \E a : Unfolds(a, steps, s)
<1> DEFINE n == Len(steps)
           Is(a) == a = [i \in 0 .. n |-> IF i = 0 THEN s ELSE steps[i][a[i - 1]]]
           after == CHOOSE a : Is(a)
<1>0. n \in Nat /\ \A i \in 1 .. n : steps[i] \in [State -> State]
  OBVIOUS
<1>1. \E a : Is(a)
  <2> DEFINE step == [k \in Nat |-> IF k \in 1 .. n THEN steps[k] ELSE [t \in State |-> t]]
  <2>1. step \in [Nat -> [State -> State]]
    BY <1>0
  <2> HIDE DEF step
  <2>2. PICK h : Solves(h, State, s, step)
    BY <2>1, SolutionExists
  <2> DEFINE a == [i \in 0 .. n |-> h[i]]
  <2>3. ASSUME NEW i \in 0 .. n, i # 0 PROVE h[i] = steps[i][a[i - 1]]
    <3>1. i \in Nat /\ i \in 1 .. n /\ i - 1 \in 0 .. n
      BY <1>0, <2>3
    <3>2. step[i] = steps[i] /\ a[i - 1] = h[i - 1]
      BY <3>1 DEF step
    <3> QED
      BY <2>2, <2>3, <3>1, <3>2 DEF Solves
  <2>4. a = [i \in 0 .. n |-> IF i = 0 THEN s ELSE steps[i][a[i - 1]]]
    BY <1>0, <2>2, <2>3 DEF Solves
  <2> QED
    BY <2>4
<1>2. Is(after)
  BY <1>1
<1>3. InTurn(steps, s) = after[n]
  BY DEF InTurn
<1> HIDE DEF after
<1>4. after[0] = s
  BY <1>0, <1>2
<1>5. \A i \in 1 .. n : i \in 0 .. n /\ i # 0
  BY <1>0
<1>6. \A i \in 1 .. n : after[i] = steps[i][after[i - 1]]
  BY <1>2, <1>5
<1> QED
  BY <1>3, <1>4, <1>6 DEF Unfolds

LEMMA InTurnKeeps ==
  ASSUME NEW steps \in Seq([State -> State]), NEW s \in State,
         \A i \in 1 .. Len(steps), t \in State : Keeps(t, steps[i][t])
  PROVE  Keeps(s, InTurn(steps, s))
<1> DEFINE n == Len(steps)
<1>0. n \in Nat
  OBVIOUS
<1>1. PICK after : Unfolds(after, steps, s)
  BY InTurnUnfolds
<1>2. /\ after[0] = s /\ InTurn(steps, s) = after[n]
      /\ \A i \in 1 .. n : after[i] = steps[i][after[i - 1]]
  BY <1>1 DEF Unfolds
<1> DEFINE S == {i \in Nat : i <= n => Keeps(s, after[i])}
<1>3. 0 \in S
  BY <1>2, KeepsSelf
<1>4. ASSUME NEW k \in Nat, k \in S PROVE k + 1 \in S
  <2> SUFFICES ASSUME k + 1 <= n PROVE Keeps(s, after[k + 1])
    OBVIOUS
  <2>1. k + 1 \in 1 .. n /\ (k + 1) - 1 = k /\ k <= n
    BY <1>0
  <2>2. after[k + 1] = steps[k + 1][after[k]]
    BY <1>2, <2>1
  <2>3. Keeps(s, after[k])
    BY <1>4, <2>1
  <2>4. after[k] \in State
    BY <2>3 DEF Keeps
  <2>5. Keeps(after[k], after[k + 1])
    BY <2>1, <2>2, <2>4
  <2> QED
    BY <2>3, <2>5, KeepsOn
<1> HIDE DEF S
<1>5. n \in S
  BY <1>0, <1>3, <1>4, Climbs
<1>6. Keeps(s, after[n])
  BY <1>0, <1>5 DEF S
<1> QED
  BY <1>2, <1>6

-----------------------------------------------------------------------------
(* Bindings                                                                *)

LEMMA AppendGrows ==
  ASSUME NEW s \in State, NEW e \in Binding, Fresh(e, s.namespaces)
  PROVE  Grows(s.bindings, Append(s.bindings, e), s.namespaces)
<1> DEFINE b == s.bindings
           c == Append(b, e)
<1>1. b \in Seq(Binding) /\ Len(b) \in Nat
  BY StateFields
<1>2. Len(c) = Len(b) + 1 /\ c[Len(b) + 1] = e /\ \A i \in 1 .. Len(b) : c[i] = b[i]
  BY <1>1, AppendProperties
<1> HIDE DEF b, c
<1>3. \A i \in Len(b) + 1 .. Len(c) : i = Len(b) + 1
  BY <1>1, <1>2
<1>4. Grows(b, c, s.namespaces)
  BY <1>1, <1>2, <1>3 DEF Grows
<1> QED
  BY <1>4 DEF b, c

LEMMA AddState ==
  ASSUME NEW s \in State, NEW name \in Seq(STRING), NEW fun \in {"no", "untyped", "typed"}
  PROVE  Add(s, name, fun) \in State
<1>1. [name |-> name, fun |-> fun] \in Binding
  BY DEF Binding
<1>2. Append(s.bindings, [name |-> name, fun |-> fun]) \in Seq(Binding)
  BY <1>1, StateFields, AppendProperties
<1> QED
  BY <1>2 DEF Add, State

LEMMA Single == ASSUME NEW S, NEW x \in S PROVE <<x>> \in Seq(S) /\ Len(<<x>>) = 1 /\ <<x>>[1] = x
OBVIOUS

LEMMA BindKeeps == ASSUME NEW s \in State, NEW id \in STRING PROVE Keeps(s, Bind(s, id))
<1> DEFINE e == [name |-> <<id>>, fun |-> "no"]
<1>1. <<id>> \in Seq(STRING) /\ Len(<<id>>) = 1
  BY Single
<1>2. e \in Binding /\ Fresh(e, s.namespaces)
  BY <1>1 DEF Binding, Fresh
<1>3. Grows(s.bindings, Append(s.bindings, e), s.namespaces)
  BY <1>2, AppendGrows
<1>4. Bind(s, id) \in State
  BY <1>1, AddState DEF Bind
<1>5. Bind(s, id) = [s EXCEPT !.bindings = Append(s.bindings, e)]
  BY DEF Bind, Add
<1> HIDE DEF e
<1>6. /\ Bind(s, id).bindings = Append(s.bindings, e)
      /\ Bind(s, id).namespaces = s.namespaces /\ Bind(s, id).contexts = s.contexts
      /\ Bind(s, id).errors = s.errors /\ Bind(s, id).generators = s.generators
      /\ Bind(s, id).cached = s.cached
  BY <1>5 DEF State
<1>7. SameBelow(s.contexts, s.contexts)
  BY DEF SameBelow
<1> QED
  BY <1>3, <1>4, <1>6, <1>7 DEF Keeps

LEMMA LoadKeeps == ASSUME NEW s \in State, NEW id \in STRING PROVE Keeps(s, Load(s, id))
<1>1. CASE Find(s, <<id>>) # 0
  BY <1>1, KeepsSelf DEF Load
<1>2. CASE Find(s, <<id>>) = 0
  <2> DEFINE t == [s EXCEPT !.errors = s.errors \union {id}]
  <2>1. Load(s, id) = t
    BY <1>2 DEF Load
  <2>2. t \in State
    BY DEF State
  <2>3. /\ t.bindings = s.bindings /\ t.namespaces = s.namespaces /\ t.contexts = s.contexts
        /\ s.errors \subseteq t.errors /\ t.generators = s.generators /\ t.cached = s.cached
    BY DEF State
  <2> HIDE DEF t
  <2>4. Grows(s.bindings, t.bindings, s.namespaces) /\ SameBelow(s.contexts, t.contexts)
    BY <2>3, KeepsSelf DEF Keeps
  <2>5. Keeps(s, t)
    BY <2>2, <2>3, <2>4 DEF Keeps
  <2> QED
    BY <2>1, <2>5
<1> QED
  BY <1>1, <1>2

LEMMA ReportKeeps ==
  ASSUME NEW s \in State, NEW t, Keeps(s, t), NEW ids, ids \subseteq STRING,
         NEW u, u = [t EXCEPT !.errors = @ \union ids]
  PROVE  Keeps(s, u)
<1>1. t \in State
  BY DEF Keeps
<1>2. /\ u \in State
      /\ u.bindings = t.bindings /\ u.namespaces = t.namespaces /\ u.contexts = t.contexts
      /\ t.errors \subseteq u.errors /\ u.generators = t.generators /\ u.cached = t.cached
  BY <1>1 DEF State
<1> QED
  BY <1>2 DEF Keeps

LEMMA StoreKeeps == ASSUME NEW s \in State, NEW id \in STRING PROVE Keeps(s, Store(s, id))
BY KeepsSelf, BindKeeps DEF Store

LEMMA Cut ==
  ASSUME NEW T, NEW c \in Seq(T), NEW m \in Nat, m <= Len(c)
  PROVE  /\ SubSeq(c, 1, m) \in Seq(T) /\ Len(SubSeq(c, 1, m)) = m
         /\ \A i \in 1 .. m : SubSeq(c, 1, m)[i] = c[i]
<1> DEFINE d == SubSeq(c, 1, m)
<1>1. Len(c) \in Nat /\ 1 \in 1 .. Len(c) + 1 /\ m \in 1 - 1 .. Len(c)
  OBVIOUS
<1>2. /\ d \in Seq(T)
      /\ Len(d) = IF 1 <= m THEN m - 1 + 1 ELSE 0
      /\ \A i \in 1 .. m - 1 + 1 : d[i] = c[1 + i - 1]
  BY <1>1, SubSeqProperties
<1> HIDE DEF d
<1>3. m - 1 + 1 = m /\ \A i \in 1 .. m : 1 + i - 1 = i
  OBVIOUS
<1>4. Len(d) = m
  BY <1>2
<1>5. ASSUME NEW i \in 1 .. m PROVE d[i] = c[i]
  BY <1>2, <1>3, <1>5
<1> QED
  BY <1>2, <1>4, <1>5 DEF d

\* A scope gives back the bindings it was opened with.
LEMMA CloseGives ==
  ASSUME NEW s \in State, NEW t \in State, Grows(s.bindings, t.bindings, s.namespaces)
  PROVE  /\ Close(s, t) = [t EXCEPT !.bindings = s.bindings]
         /\ Close(s, t) \in State
<1> DEFINE b == s.bindings
           c == t.bindings
<1>1. b \in Seq(Binding) /\ c \in Seq(Binding) /\ Len(b) \in Nat /\ Len(c) \in Nat
  BY StateFields
<1>2. Len(b) <= Len(c) /\ \A i \in 1 .. Len(b) : c[i] = b[i]
  BY DEF Grows
<1> DEFINE d == SubSeq(c, 1, Len(b))
<1>3. d \in Seq(Binding) /\ Len(d) = Len(b) /\ \A i \in 1 .. Len(b) : d[i] = c[i]
  BY <1>1, <1>2, Cut
<1>4. d = b
  <2> HIDE DEF b, c, d
  <2>1. Len(d) = Len(b) /\ \A i \in 1 .. Len(d) : d[i] = b[i]
    BY <1>2, <1>3
  <2> QED
    BY <1>1, <1>3, <2>1, SeqEqual
<1>5. Close(s, t) = [t EXCEPT !.bindings = b]
  BY <1>4 DEF Close
<1> QED
  BY <1>1, <1>5 DEF State

LEMMA CloseKeeps ==
  ASSUME NEW s \in State, NEW t, Keeps(s, t)
  PROVE  Keeps(s, Close(s, t))
<1>1. t \in State /\ Grows(s.bindings, t.bindings, s.namespaces)
  BY DEF Keeps
<1>2. Close(s, t) = [t EXCEPT !.bindings = s.bindings] /\ Close(s, t) \in State
  BY <1>1, CloseGives
<1>3. /\ Close(s, t).bindings = s.bindings
      /\ Close(s, t).namespaces = t.namespaces /\ Close(s, t).contexts = t.contexts
      /\ Close(s, t).errors = t.errors /\ Close(s, t).generators = t.generators
      /\ Close(s, t).cached = t.cached
  BY <1>1, <1>2 DEF State
<1>4. Grows(s.bindings, s.bindings, s.namespaces)
  BY KeepsSelf DEF Keeps
<1> QED
  BY <1>2, <1>3, <1>4 DEF Keeps

-----------------------------------------------------------------------------
(* One visit after another                                                 *)

Step(f) == f \in [State -> State] /\ \A t \in State : Keeps(t, f[t])

LEMMA IsStep ==
  ASSUME NEW f, f = [t \in State |-> f[t]], \A t \in State : Keeps(t, f[t])
  PROVE  Step(f)
<1>1. \A t \in State : f[t] \in State
  BY DEF Keeps
<1> QED
  BY <1>1 DEF Step

LEMMA Element == ASSUME NEW T, NEW seq \in Seq(T), NEW i \in DOMAIN seq PROVE seq[i] \in T
OBVIOUS

LEMMA ThenInTurn ==
  ASSUME NEW s \in State, NEW t, Keeps(s, t), NEW T, NEW seq \in Seq(T),
         NEW f, f = [i \in DOMAIN seq |-> f[i]], \A i \in DOMAIN seq : Step(f[i])
  PROVE  Keeps(s, InTurn(f, t))
<1>1. t \in State
  BY DEF Keeps
<1>2. DOMAIN seq = 1 .. Len(seq) /\ Len(seq) \in Nat
  OBVIOUS
<1>3. \A i \in 1 .. Len(seq) : f[i] \in [State -> State]
  BY <1>2 DEF Step
<1>4. f \in Seq([State -> State]) /\ Len(f) = Len(seq)
  BY <1>2, <1>3
<1>5. \A i \in 1 .. Len(f), u \in State : Keeps(u, f[i][u])
  BY <1>2, <1>4 DEF Step
<1>6. Keeps(t, InTurn(f, t))
  BY <1>1, <1>4, <1>5, InTurnKeeps
<1> QED
  BY <1>6, KeepsOn

LEMMA ThenExec ==
  ASSUME NEW exec, Executes(exec), NEW s \in State, NEW t, Keeps(s, t), NEW nodes \in Seq(Tree)
  PROVE  Keeps(s, ExecAll(exec, t, nodes))
<1> DEFINE f == [i \in DOMAIN nodes |-> exec[nodes[i]]]
<1>1. \A i \in DOMAIN nodes : nodes[i] \in Tree
  OBVIOUS
<1>2. \A i \in DOMAIN nodes : Step(f[i])
  BY <1>1 DEF Executes, Step
<1>3. f = [i \in DOMAIN nodes |-> f[i]]
  OBVIOUS
<1> HIDE DEF f
<1>4. Keeps(s, InTurn(f, t))
  BY <1>2, <1>3, ThenInTurn
<1> QED
  BY <1>4 DEF ExecAll, f

LEMMA ThenBind ==
  ASSUME NEW s \in State, NEW t, Keeps(s, t), NEW id \in STRING
  PROVE  Keeps(s, Bind(t, id))
<1>1. t \in State
  BY DEF Keeps
<1> QED
  BY <1>1, BindKeeps, KeepsOn

LEMMA ThenLoad ==
  ASSUME NEW s \in State, NEW t, Keeps(s, t), NEW id \in STRING
  PROVE  Keeps(s, Load(t, id))
<1>1. t \in State
  BY DEF Keeps
<1> QED
  BY <1>1, LoadKeeps, KeepsOn

-----------------------------------------------------------------------------
(* Expressions                                                             *)

Arguments == Seq([id : STRING, default : Seq(Tree), variadic : BOOLEAN])

LEMMA ArgumentStep ==
  ASSUME NEW exec, Executes(exec), NEW a, a.id \in STRING, a.default \in Seq(Tree)
  PROVE  Step(Argument(exec, a))
<1> DEFINE g == Argument(exec, a)
<1>1. ASSUME NEW u \in State PROVE Keeps(u, g[u])
  <2>1. g[u] = IF a.variadic THEN u ELSE Bind(ExecAll(exec, u, a.default), a.id)
    BY DEF Argument
  <2>2. Keeps(u, u) /\ Keeps(u, Bind(ExecAll(exec, u, a.default), a.id))
    BY KeepsSelf, ThenExec, ThenBind
  <2> QED
    BY <2>1, <2>2
<1>2. g = [u \in State |-> g[u]]
  BY DEF Argument
<1> HIDE DEF g
<1>3. Step(g)
  BY <1>1, <1>2, IsStep
<1> QED
  BY <1>3 DEF g

LEMMA ArgumentFields ==
  ASSUME NEW args \in Arguments, NEW i \in DOMAIN args
  PROVE  args[i].id \in STRING /\ args[i].default \in Seq(Tree)
<1>1. args[i] \in [id : STRING, default : Seq(Tree), variadic : BOOLEAN]
  BY Element DEF Arguments
<1> QED
  BY <1>1

LEMMA ThenArguments ==
  ASSUME NEW exec, Executes(exec), NEW s \in State, NEW t, Keeps(s, t), NEW args \in Arguments
  PROVE  Keeps(s, AddArguments(exec, t, args))
<1> DEFINE f == [i \in DOMAIN args |-> Argument(exec, args[i])]
<1>1. \A i \in DOMAIN args : Step(f[i])
  BY ArgumentFields, ArgumentStep
<1>2. f = [i \in DOMAIN args |-> f[i]]
  OBVIOUS
<1> HIDE DEF f
<1>3. args \in Seq([id : STRING, default : Seq(Tree), variadic : BOOLEAN])
  BY DEF Arguments
<1>4. Keeps(s, InTurn(f, t))
  BY <1>1, <1>2, <1>3, ThenInTurn
<1> QED
  BY <1>4 DEF AddArguments, f

LEMMA LambdaKeeps ==
  ASSUME NEW exec, Executes(exec), NEW s \in State, NEW n,
         n.args \in Arguments, n.value \in Seq(Tree)
  PROVE  Keeps(s, Lambda(exec, s, n))
<1>1. Keeps(s, ExecAll(exec, AddArguments(exec, s, n.args), n.value))
  BY KeepsSelf, ThenArguments, ThenExec
<1> QED
  BY <1>1, CloseKeeps DEF Lambda

LEMMA GeneratorStep ==
  ASSUME NEW exec, Executes(exec), NEW a,
         a.id \in STRING, a.iter \in Seq(Tree), a.ifs \in Seq(Tree)
  PROVE  Step(Generator(exec, a))
<1> DEFINE g == Generator(exec, a)
<1>1. ASSUME NEW u \in State PROVE Keeps(u, g[u])
  <2>1. g[u] = ExecAll(exec, ExecAll(exec, Store(u, a.id), a.iter), a.ifs)
    BY DEF Generator
  <2>2. Keeps(u, Store(u, a.id))
    BY StoreKeeps
  <2>3. Keeps(u, ExecAll(exec, ExecAll(exec, Store(u, a.id), a.iter), a.ifs))
    BY <2>2, ThenExec
  <2> QED
    BY <2>1, <2>3
<1>2. g = [u \in State |-> g[u]]
  BY DEF Generator
<1> HIDE DEF g
<1>3. Step(g)
  BY <1>1, <1>2, IsStep
<1> QED
  BY <1>3 DEF g

LEMMA ComprehensionKeeps ==
  ASSUME NEW exec, Executes(exec), NEW s \in State, NEW n,
         n.gens \in Seq([id : STRING, iter : Seq(Tree), ifs : Seq(Tree)]), n.value \in Seq(Tree)
  PROVE  Keeps(s, Comprehension(exec, s, n))
<1> DEFINE gens == n.gens
           f == [i \in DOMAIN gens |-> Generator(exec, gens[i])]
<1>1. ASSUME NEW i \in DOMAIN gens PROVE Step(Generator(exec, gens[i]))
  <2>1. gens[i] \in [id : STRING, iter : Seq(Tree), ifs : Seq(Tree)]
    BY Element
  <2>2. gens[i].id \in STRING /\ gens[i].iter \in Seq(Tree) /\ gens[i].ifs \in Seq(Tree)
    BY <2>1
  <2> QED
    BY <2>2, GeneratorStep
<1>2. \A i \in DOMAIN gens : Step(f[i])
  BY <1>1
<1>3. f = [i \in DOMAIN gens |-> f[i]]
  OBVIOUS
<1>4. gens \in Seq([id : STRING, iter : Seq(Tree), ifs : Seq(Tree)])
  OBVIOUS
<1> HIDE DEF f, gens
<1>5. Keeps(s, InTurn(f, s))
  BY <1>2, <1>3, <1>4, KeepsSelf, ThenInTurn
<1>6. Keeps(s, ExecAll(exec, InTurn(f, s), n.value))
  BY <1>5, ThenExec
<1> QED
  BY <1>6, CloseKeeps DEF Comprehension, f, gens

LEMMA LastSet ==
  ASSUME NEW q \in Seq(BOOLEAN), Len(q) \in Nat \ {0}
  PROVE  /\ [q EXCEPT ![Len(q)] = TRUE] \in Seq(BOOLEAN)
         /\ SameBelow(q, [q EXCEPT ![Len(q)] = TRUE])
<1> DEFINE n == Len(q)
           x == TRUE
           d == [q EXCEPT ![n] = x]
<1>1. n \in 1 .. Len(q) /\ x \in BOOLEAN /\ n = Len(q) /\ n \in Nat
  OBVIOUS
<1>2. d \in Seq(BOOLEAN) /\ Len(d) = n
  BY <1>1
<1>3. \A i \in 1 .. n - 1 : d[i] = q[i]
  <2> TAKE i \in 1 .. n - 1
  <2>1. i \in DOMAIN q /\ i # n
    BY <1>1
  <2> QED
    BY <2>1
<1> HIDE DEF n, x, d
<1>4. d \in Seq(BOOLEAN) /\ SameBelow(q, d)
  BY <1>1, <1>2, <1>3 DEF SameBelow
<1> QED
  BY <1>4 DEF n, x, d

LEMMA YieldStateKeeps ==
  ASSUME NEW s \in State
  PROVE  Keeps(s, [s EXCEPT !.contexts[Len(s.contexts)] = TRUE])
<1> DEFINE c == [s.contexts EXCEPT ![Len(s.contexts)] = TRUE]
           t == [s EXCEPT !.contexts[Len(s.contexts)] = TRUE]
<1>1. /\ s.contexts \in Seq(BOOLEAN) /\ Len(s.contexts) \in Nat \ {0} /\ s.contexts # <<>>
  BY StateFields
<1>2. c \in Seq(BOOLEAN) /\ SameBelow(s.contexts, c)
  BY <1>1, LastSet
<1>3. c # <<>>
  <2> HIDE DEF c
  <2> QED
    BY <1>1, <1>2 DEF SameBelow
<1>4. t = [s EXCEPT !.contexts = c]
  BY DEF State
<1> HIDE DEF c, t
<1>5. t \in State
  BY <1>2, <1>3, <1>4 DEF State
<1>6. /\ t.bindings = s.bindings /\ t.namespaces = s.namespaces /\ t.contexts = c
      /\ t.errors = s.errors /\ t.generators = s.generators /\ t.cached = s.cached
  BY <1>4 DEF State
<1>7. Grows(s.bindings, s.bindings, s.namespaces)
  BY KeepsSelf DEF Keeps
<1>8. Keeps(s, t)
  BY <1>2, <1>5, <1>6, <1>7 DEF Keeps
<1> QED
  BY <1>8 DEF t

LEMMA YieldKeeps ==
  ASSUME NEW exec, Executes(exec), NEW s \in State, NEW n, n.value \in Seq(Tree)
  PROVE  Keeps(s, Yield(exec, s, n))
BY YieldStateKeeps, ThenExec DEF Yield

-----------------------------------------------------------------------------
(* Simple statements                                                       *)

LEMMA BlockKeeps ==
  ASSUME NEW exec, Executes(exec), NEW s \in State, NEW nodes \in Seq(Tree)
  PROVE  Keeps(s, ExecAll(exec, s, nodes))
BY KeepsSelf, ThenExec

LEMMA SimpleKeeps ==
  ASSUME NEW exec, Executes(exec), NEW s \in State, NEW n,
         n.id \in STRING, n.value \in Seq(Tree)
  PROVE  /\ Keeps(s, NamedExpr(exec, s, n)) /\ Keeps(s, Assign(exec, s, n))
         /\ Keeps(s, AugAssign(exec, s, n))
<1>1. Keeps(s, ExecAll(exec, s, n.value))
  BY BlockKeeps
<1>2. Keeps(s, Bind(ExecAll(exec, s, n.value), n.id))
  BY <1>1, ThenBind
<1>3. Keeps(s, ExecAll(exec, Load(s, n.id), n.value))
  BY LoadKeeps, ThenExec
<1> QED
  BY <1>2, <1>3 DEF NamedExpr, Assign, AugAssign

LEMMA SetAttributeKeeps ==
  ASSUME NEW exec, Executes(exec), NEW s \in State, NEW n,
         n.id \in STRING, n.unknown \in SUBSET STRING, n.value \in Seq(Tree)
  PROVE  Keeps(s, SetAttribute(exec, s, n))
<1> DEFINE t == Load(ExecAll(exec, s, n.value), n.id)
<1>1. Keeps(s, t)
  BY BlockKeeps, ThenLoad
<1>2. SetAttribute(exec, s, n) = [t EXCEPT !.errors = @ \union n.unknown]
  BY DEF SetAttribute
<1> HIDE DEF t
<1> QED
  BY <1>1, <1>2, ReportKeeps

LEMMA GlobalKeeps ==
  ASSUME NEW s \in State, NEW n, n.ids \in Seq(STRING)
  PROVE  Keeps(s, Global(s, n))
<1> DEFINE ids == n.ids
           g(i) == [t \in State |-> Load(t, ids[i])]
           f == [i \in DOMAIN ids |-> g(i)]
<1>1. ASSUME NEW i \in DOMAIN ids PROVE Step(g(i))
  <2>1. ids[i] \in STRING
    OBVIOUS
  <2>2. \A t \in State : Keeps(t, g(i)[t])
    BY <2>1, LoadKeeps
  <2>3. g(i) = [t \in State |-> g(i)[t]]
    OBVIOUS
  <2> HIDE DEF g
  <2> QED
    BY <2>2, <2>3, IsStep
<1>2. \A i \in DOMAIN ids : f[i] = g(i)
  OBVIOUS
<1>3. f = [i \in DOMAIN ids |-> f[i]] /\ ids \in Seq(STRING)
  OBVIOUS
<1> HIDE DEF f, g, ids
<1>4. \A i \in DOMAIN ids : Step(f[i])
  BY <1>1, <1>2
<1>5. Keeps(s, InTurn(f, s))
  BY <1>3, <1>4, KeepsSelf, ThenInTurn
<1> QED
  BY <1>5 DEF Global, f, g, ids

LEMMA ImportKeeps ==
  ASSUME NEW s \in State, NEW n, n.ids \in Seq(STRING)
  PROVE  Keeps(s, Import(s, n))
<1> DEFINE ids == n.ids
           g(i) == [t \in State |-> Bind(t, ids[i])]
           f == [i \in DOMAIN ids |-> g(i)]
<1>1. ASSUME NEW i \in DOMAIN ids PROVE Step(g(i))
  <2>1. ids[i] \in STRING
    OBVIOUS
  <2>2. \A t \in State : Keeps(t, g(i)[t])
    BY <2>1, BindKeeps
  <2>3. g(i) = [t \in State |-> g(i)[t]]
    OBVIOUS
  <2> HIDE DEF g
  <2> QED
    BY <2>2, <2>3, IsStep
<1>2. \A i \in DOMAIN ids : f[i] = g(i)
  OBVIOUS
<1>3. f = [i \in DOMAIN ids |-> f[i]] /\ ids \in Seq(STRING)
  OBVIOUS
<1> HIDE DEF f, g, ids
<1>4. \A i \in DOMAIN ids : Step(f[i])
  BY <1>1, <1>2
<1>5. Keeps(s, InTurn(f, s))
  BY <1>3, <1>4, KeepsSelf, ThenInTurn
<1> QED
  BY <1>5 DEF Import, f, g, ids

-----------------------------------------------------------------------------
(* Compound statements                                                     *)

LEMMA ForKeeps ==
  ASSUME NEW exec, Executes(exec), NEW s \in State, NEW n, n.id \in STRING,
         n.iter \in Seq(Tree), n.body \in Seq(Tree), n.orelse \in Seq(Tree)
  PROVE  Keeps(s, For(exec, s, n))
<1>1. Keeps(s, Bind(ExecAll(exec, s, n.iter), n.id))
  BY BlockKeeps, ThenBind
<1> QED
  BY <1>1, ThenExec DEF For

LEMMA WhileKeeps ==
  ASSUME NEW exec, Executes(exec), NEW s \in State, NEW n,
         n.test \in Seq(Tree), n.body \in Seq(Tree), n.orelse \in Seq(Tree)
  PROVE  Keeps(s, While(exec, s, n))
BY BlockKeeps, ThenExec DEF While

LEMMA WithKeeps ==
  ASSUME NEW exec, Executes(exec), NEW s \in State, NEW n,
         n.value \in Seq(Tree), n.body \in Seq(Tree)
  PROVE  Keeps(s, With(exec, s, n))
BY BlockKeeps, ThenExec DEF With

LEMMA BranchStep ==
  ASSUME NEW exec, Executes(exec), NEW b, b.test \in Seq(Tree), b.body \in Seq(Tree)
  PROVE  Step(Branch(exec, b))
<1> DEFINE g == Branch(exec, b)
<1>1. \A t \in State : g[t] = ExecAll(exec, ExecAll(exec, t, b.test), b.body)
  BY DEF Branch
<1>2. \A t \in State : Keeps(t, g[t])
  BY <1>1, BlockKeeps, ThenExec
<1>3. g = [t \in State |-> g[t]]
  BY DEF Branch
<1> HIDE DEF g
<1>4. Step(g)
  BY <1>2, <1>3, IsStep
<1> QED
  BY <1>4 DEF g

LEMMA IfKeeps ==
  ASSUME NEW exec, Executes(exec), NEW s \in State, NEW n,
         n.test \in Seq(Tree), n.body \in Seq(Tree),
         n.elifs \in Seq([test : Seq(Tree), body : Seq(Tree)])
  PROVE  Keeps(s, If(exec, s, n))
<1> DEFINE elifs == n.elifs
           f == [i \in DOMAIN elifs |-> Branch(exec, elifs[i])]
<1>1. ASSUME NEW i \in DOMAIN elifs PROVE Step(Branch(exec, elifs[i]))
  <2>1. elifs[i] \in [test : Seq(Tree), body : Seq(Tree)]
    BY Element
  <2>2. elifs[i].test \in Seq(Tree) /\ elifs[i].body \in Seq(Tree)
    BY <2>1
  <2> QED
    BY <2>2, BranchStep
<1>2. \A i \in DOMAIN elifs : Step(f[i])
  BY <1>1
<1>3. f = [i \in DOMAIN elifs |-> f[i]]
  OBVIOUS
<1>4. elifs \in Seq([test : Seq(Tree), body : Seq(Tree)])
  OBVIOUS
<1> HIDE DEF f, elifs
<1>5. Keeps(s, Branch(exec, n)[s])
  BY BranchStep DEF Step
<1>6. Keeps(s, InTurn(f, Branch(exec, n)[s]))
  BY <1>2, <1>3, <1>4, <1>5, ThenInTurn
<1> QED
  BY <1>6 DEF If, f, elifs

\* What a visit says of two states does not depend on the flag alone.
SameButCached(s, t) ==
  /\ t.bindings = s.bindings /\ t.namespaces = s.namespaces /\ t.contexts = s.contexts
  /\ t.errors = s.errors /\ t.generators = s.generators

LEMMA HandlerStep ==
  ASSUME NEW exec, Executes(exec), NEW h,
         h.test \in Seq(Tree), h.id \in STRING, h.body \in Seq(Tree)
  PROVE  Step(Handler(exec, h))
<1> DEFINE g == Handler(exec, h)
<1>1. ASSUME NEW t \in State PROVE Keeps(t, g[t])
  <2> DEFINE tested == ExecAll(exec, t, h.test)
             unnamed == h.id = ""
             bound == IF unnamed THEN tested ELSE Bind(tested, h.id)
  <2>1. g[t] = Close(t, ExecAll(exec, bound, h.body))
    BY DEF Handler
  <2>2. Keeps(t, tested)
    BY BlockKeeps
  <2> HIDE DEF tested
  <2>3. Keeps(t, bound)
    <3>1. Keeps(t, Bind(tested, h.id))
      BY <2>2, ThenBind
    <3> HIDE DEF unnamed
    <3>2. CASE unnamed
      BY <2>2, <3>2
    <3>3. CASE ~unnamed
      BY <3>1, <3>3
    <3> QED
      BY <3>2, <3>3
  <2> HIDE DEF bound
  <2>4. Keeps(t, Close(t, ExecAll(exec, bound, h.body)))
    BY <2>3, ThenExec, CloseKeeps
  <2> QED
    BY <2>1, <2>4
<1>2. g = [t \in State |-> g[t]]
  BY DEF Handler
<1> HIDE DEF g
<1>3. Step(g)
  BY <1>1, <1>2, IsStep
<1> QED
  BY <1>3 DEF g

LEMMA TryKeeps ==
  ASSUME NEW exec, Executes(exec), NEW s \in State, NEW n,
         n.body \in Seq(Tree), n.orelse \in Seq(Tree),
         n.handlers \in Seq([test : Seq(Tree), id : STRING, body : Seq(Tree)])
  PROVE  Keeps(s, Try(exec, s, n))
<1> DEFINE handlers == n.handlers
           f == [i \in DOMAIN handlers |-> Handler(exec, handlers[i])]
           handled == InTurn(f, ExecAll(exec, s, n.body))
           once    == ExecAll(exec, handled, n.orelse)
           known   == [once EXCEPT !.cached = TRUE]
           again   == ExecAll(exec, known, n.orelse)
           left    == [again EXCEPT !.cached = s.cached]
<1>1. ASSUME NEW i \in DOMAIN handlers PROVE Step(Handler(exec, handlers[i]))
  <2>1. handlers[i] \in [test : Seq(Tree), id : STRING, body : Seq(Tree)]
    BY Element
  <2>2. /\ handlers[i].test \in Seq(Tree) /\ handlers[i].id \in STRING
        /\ handlers[i].body \in Seq(Tree)
    BY <2>1
  <2> QED
    BY <2>2, HandlerStep
<1>2. \A i \in DOMAIN handlers : Step(f[i])
  BY <1>1
<1>3. f = [i \in DOMAIN handlers |-> f[i]]
  OBVIOUS
<1>4. handlers \in Seq([test : Seq(Tree), id : STRING, body : Seq(Tree)])
  OBVIOUS
<1>5. Try(exec, s, n) = left
  BY DEF Try
<1> HIDE DEF f, handlers
<1>6. Keeps(s, handled)
  BY <1>2, <1>3, <1>4, BlockKeeps, ThenInTurn
<1> HIDE DEF handled
<1>7. Keeps(s, once)
  BY <1>6, ThenExec
<1> HIDE DEF once
<1>8. once \in State
  BY <1>7 DEF Keeps
<1>9. known \in State /\ known.cached = TRUE /\ SameButCached(once, known)
  BY <1>8 DEF State, SameButCached
<1> HIDE DEF known
<1>10. Keeps(known, again)
  BY <1>9, BlockKeeps
<1> HIDE DEF again
<1>11. again \in State /\ s.cached \in BOOLEAN
  BY <1>10, StateFields DEF Keeps
<1>12. left \in State /\ left.cached = s.cached /\ SameButCached(again, left)
  BY <1>11 DEF State, SameButCached
<1> HIDE DEF left
<1>13. Keeps(once, left)
  <2>1. once.cached = s.cached
    BY <1>7 DEF Keeps
  <2> QED
    BY <1>9, <1>10, <1>12, <2>1 DEF Keeps, SameButCached
<1>14. Keeps(s, left)
  BY <1>7, <1>13, KeepsOn
<1> QED
  BY <1>5, <1>14

LEMMA MatchCaseStep ==
  ASSUME NEW exec, Executes(exec), NEW c,
         c.pattern \in Seq(Tree), c.guard \in Seq(Tree), c.body \in Seq(Tree)
  PROVE  Step(MatchCase(exec, c))
<1> DEFINE g == MatchCase(exec, c)
<1>1. \A t \in State :
        g[t] = ExecAll(exec, ExecAll(exec, ExecAll(exec, t, c.pattern), c.guard), c.body)
  BY DEF MatchCase
<1>2. \A t \in State : Keeps(t, g[t])
  BY <1>1, BlockKeeps, ThenExec
<1>3. g = [t \in State |-> g[t]]
  BY DEF MatchCase
<1> HIDE DEF g
<1>4. Step(g)
  BY <1>2, <1>3, IsStep
<1> QED
  BY <1>4 DEF g

LEMMA MatchKeeps ==
  ASSUME NEW exec, Executes(exec), NEW s \in State, NEW n, n.value \in Seq(Tree),
         n.cases \in Seq([pattern : Seq(Tree), guard : Seq(Tree), body : Seq(Tree)])
  PROVE  Keeps(s, Match(exec, s, n))
<1> DEFINE cases == n.cases
           f == [i \in DOMAIN cases |-> MatchCase(exec, cases[i])]
<1>1. ASSUME NEW i \in DOMAIN cases PROVE Step(MatchCase(exec, cases[i]))
  <2>1. cases[i] \in [pattern : Seq(Tree), guard : Seq(Tree), body : Seq(Tree)]
    BY Element
  <2>2. /\ cases[i].pattern \in Seq(Tree) /\ cases[i].guard \in Seq(Tree)
        /\ cases[i].body \in Seq(Tree)
    BY <2>1
  <2> QED
    BY <2>2, MatchCaseStep
<1>2. \A i \in DOMAIN cases : Step(f[i])
  BY <1>1
<1>3. f = [i \in DOMAIN cases |-> f[i]]
  OBVIOUS
<1>4. cases \in Seq([pattern : Seq(Tree), guard : Seq(Tree), body : Seq(Tree)])
  OBVIOUS
<1> HIDE DEF f, cases
<1>5. Keeps(s, InTurn(f, ExecAll(exec, s, n.value)))
  BY <1>2, <1>3, <1>4, BlockKeeps, ThenInTurn
<1> QED
  BY <1>5 DEF Match, f, cases

-----------------------------------------------------------------------------
(* Functions                                                               *)

Pushed(s) == [s EXCEPT !.contexts = NewContext(@)]
Popped(t) == [t EXCEPT !.contexts = Front(@)]

LEMMA PushedState ==
  ASSUME NEW s \in State
  PROVE  /\ Pushed(s) \in State
         /\ Pushed(s).bindings = s.bindings /\ Pushed(s).namespaces = s.namespaces
         /\ Pushed(s).errors = s.errors /\ Pushed(s).generators = s.generators
         /\ Pushed(s).cached = s.cached
         /\ Len(Pushed(s).contexts) = Len(s.contexts) + 1
         /\ \A i \in 1 .. Len(s.contexts) : Pushed(s).contexts[i] = s.contexts[i]
<1> DEFINE c == Append(s.contexts, FALSE)
<1>1. s.contexts \in Seq(BOOLEAN) /\ FALSE \in BOOLEAN /\ Len(s.contexts) \in Nat
  BY StateFields
<1>2. /\ c \in Seq(BOOLEAN) /\ c # <<>> /\ Len(c) = Len(s.contexts) + 1
      /\ \A i \in 1 .. Len(s.contexts) : c[i] = s.contexts[i]
  BY <1>1, AppendProperties
<1>3. Pushed(s) = [s EXCEPT !.contexts = c]
  BY DEF Pushed, NewContext
<1> HIDE DEF c
<1>4. Pushed(s) \in State
  BY <1>2, <1>3 DEF State
<1>5. /\ Pushed(s).contexts = c
      /\ Pushed(s).bindings = s.bindings /\ Pushed(s).namespaces = s.namespaces
      /\ Pushed(s).errors = s.errors /\ Pushed(s).generators = s.generators
      /\ Pushed(s).cached = s.cached
  BY <1>3 DEF State
<1> QED
  BY <1>2, <1>4, <1>5

\* A context that was pushed takes its flag with it.
LEMMA PoppedState ==
  ASSUME NEW s \in State, NEW t, Keeps(Pushed(s), t)
  PROVE  /\ Popped(t) \in State /\ Popped(t).contexts = s.contexts
         /\ Popped(t).bindings = t.bindings /\ Popped(t).namespaces = t.namespaces
         /\ Popped(t).errors = t.errors /\ Popped(t).generators = t.generators
         /\ Popped(t).cached = t.cached
<1> DEFINE c == t.contexts
           b == s.contexts
           m == Len(b)
           d == SubSeq(c, 1, m)
<1>1. t \in State /\ SameBelow(Pushed(s).contexts, c)
  BY DEF Keeps
<1>2. /\ c \in Seq(BOOLEAN) /\ b \in Seq(BOOLEAN) /\ m \in Nat \ {0} /\ b # <<>>
  BY <1>1, StateFields
<1>3. /\ Len(Pushed(s).contexts) = m + 1
      /\ \A i \in 1 .. m : Pushed(s).contexts[i] = b[i]
  BY PushedState
<1>4. Len(c) = m + 1 /\ m <= Len(c) /\ Len(c) - 1 = m
  BY <1>1, <1>2, <1>3 DEF SameBelow
<1>5. \A i \in 1 .. m : c[i] = b[i]
  <2>1. \A i \in 1 .. m : i \in 1 .. (m + 1) - 1
    BY <1>2
  <2> HIDE DEF b, c, m
  <2> QED
    BY <1>1, <1>3, <2>1 DEF SameBelow
<1>6. d = b
  <2>1. d \in Seq(BOOLEAN) /\ Len(d) = m /\ \A i \in 1 .. m : d[i] = c[i]
    BY <1>2, <1>4, Cut
  <2>2. Len(d) = Len(b) /\ \A i \in 1 .. Len(d) : d[i] = b[i]
    <3> HIDE DEF d
    <3> QED
      BY <1>5, <2>1
  <2> HIDE DEF b, c, d, m
  <2> QED
    BY <1>2, <2>1, <2>2, SeqEqual
<1>7. Front(t.contexts) = b
  BY <1>4, <1>6 DEF Front
<1>8. Popped(t) = [t EXCEPT !.contexts = b]
  BY <1>7 DEF Popped
<1> HIDE DEF b
<1>9. Popped(t) \in State
  BY <1>1, <1>2, <1>8 DEF State
<1>10. /\ Popped(t).contexts = b
       /\ Popped(t).bindings = t.bindings /\ Popped(t).namespaces = t.namespaces
       /\ Popped(t).errors = t.errors /\ Popped(t).generators = t.generators
       /\ Popped(t).cached = t.cached
  BY <1>1, <1>8 DEF State
<1> QED
  BY <1>9, <1>10 DEF b

LEMMA ArrowKeeps ==
  ASSUME NEW exec, Executes(exec), NEW s \in State, NEW n, n.args \in Arguments
  PROVE  Keeps(s, FunctionArrow(exec, s, n)) /\ FunctionArrow(exec, s, n).contexts = s.contexts
<1> DEFINE t == AddArguments(exec, Pushed(s), n.args)
<1>1. FunctionArrow(exec, s, n) = Popped(t)
  BY DEF FunctionArrow, Pushed, Popped
<1>2. Pushed(s) \in State
  BY PushedState
<1>3. Keeps(Pushed(s), t)
  BY <1>2, KeepsSelf, ThenArguments
<1> HIDE DEF t
<1>4. Keeps(s, Popped(t))
  BY <1>3, PushedState, PoppedState DEF Keeps, SameBelow
<1>5. Popped(t).contexts = s.contexts
  BY <1>3, PoppedState
<1> QED
  BY <1>1, <1>4, <1>5

LEMMA TypedFresh ==
  ASSUME NEW e, NEW ns, NEW name, e.name = name, Len(ns) \in Nat, Len(name) = Len(ns) + 1,
         e.fun # "untyped"
  PROVE  Fresh(e, ns)
<1>1. Len(e.name) = Len(name) /\ Len(name) > Len(ns)
  OBVIOUS
<1>2. Len(e.name) > Len(ns)
  BY <1>1
<1> QED
  BY <1>2 DEF Fresh

LEMMA NameClash ==
  ASSUME NEW e, NEW name, e.name = name, Len(name) \in Nat, Fresh(e, name)
  PROVE  Len(name) = 1
<1>1. Len(name) = 1 \/ Len(name) > Len(name)
  BY DEF Fresh
<1> QED
  BY <1>1

LEMMA Wider ==
  ASSUME NEW e, NEW ns, NEW name, Len(ns) \in Nat, Len(name) = Len(ns) + 1,
         Len(e.name) \in Nat, Fresh(e, name)
  PROVE  Fresh(e, ns)
BY DEF Fresh

\* The entry of a function whose name is dotted has its type once the
\* arguments are known: nothing they added has that name.  That of another is
\* left without type only if the arguments added something of its name.
LEMMA SetTypeGives ==
  ASSUME NEW s \in State, NEW t \in State, NEW name \in Seq(STRING),
         Len(name) = Len(s.namespaces) + 1,
         Grows(Append(s.bindings, [name |-> name, fun |-> "untyped"]), t.bindings, name)
  PROVE  \E b \in Seq(Binding) :
           /\ SetType(t, name) = [t EXCEPT !.bindings = b]
           /\ Len(b) > Len(s.bindings)
           /\ Grows(s.bindings, b, s.namespaces)
           /\ Len(b) = Len(t.bindings)
           /\ \A i \in 1 .. Len(b) : b[i].name = t.bindings[i].name
           /\ b[Len(s.bindings) + 1].fun = "untyped" =>
                \E i \in Len(s.bindings) + 2 .. Len(b) : t.bindings[i].name = name
<1> DEFINE B == t.bindings
           l == Len(s.bindings) + 1
           e0 == [name |-> name, fun |-> "untyped"]
           ns == s.namespaces
<1>1. /\ B \in Seq(Binding) /\ Len(B) \in Nat /\ l \in Nat \ {0} /\ Len(ns) \in Nat
      /\ s.bindings \in Seq(Binding)
  BY StateFields
<1>2. e0 \in Binding
  BY DEF Binding
<1>3. /\ Len(Append(s.bindings, e0)) = l /\ Append(s.bindings, e0)[l] = e0
      /\ \A i \in 1 .. Len(s.bindings) : Append(s.bindings, e0)[i] = s.bindings[i]
  BY <1>1, <1>2, AppendProperties
<1> DEFINE a == Append(s.bindings, e0)
<1>4. Grows(a, B, name)
  OBVIOUS
<1> HIDE DEF a
<1>5. /\ l <= Len(B) /\ B[l] = e0
      /\ \A i \in 1 .. Len(s.bindings) : B[i] = s.bindings[i]
      /\ \A i \in l + 1 .. Len(B) : Fresh(B[i], name)
  <2>1. Len(a) = l /\ a[l] = e0 /\ \A i \in 1 .. Len(s.bindings) : a[i] = s.bindings[i]
    BY <1>3 DEF a
  <2>2. l \in 1 .. l /\ \A i \in 1 .. Len(s.bindings) : i \in 1 .. l
    BY <1>1
  <2> HIDE DEF e0, B
  <2> QED
    BY <1>4, <2>1, <2>2 DEF Grows
<1>6. \A i \in 1 .. Len(B) : B[i] \in Binding /\ B[i].name \in Seq(STRING) /\ Len(B[i].name) \in Nat
  <2> TAKE i \in 1 .. Len(B)
  <2>1. B[i] \in Binding
    BY <1>1, Element
  <2>2. B[i].name \in Seq(STRING)
    BY <2>1 DEF Binding
  <2> QED
    BY <2>1, <2>2
<1> DEFINE found == {i \in DOMAIN B : B[i].name = name}
           j == Max(found)
<1>7. /\ j \in found /\ l <= j /\ j \in 1 .. Len(B)
  <2>1. DOMAIN B = 1 .. Len(B) /\ l \in 1 .. Len(B)
    BY <1>1, <1>5
  <2>2. B[l].name = name
    BY <1>5
  <2>3. found \in SUBSET (0 .. Len(B)) /\ l \in found /\ found # {}
    BY <2>1, <2>2
  <2> HIDE DEF found, j
  <2>4. Max(found) \in found /\ \A x \in found : x <= Max(found)
    BY <1>1, <2>3, Largest
  <2>5. \A x \in found : x \in 1 .. Len(B)
    BY <2>1 DEF found
  <2> QED
    BY <2>3, <2>4, <2>5 DEF j
<1>8. B[j].name = name
  BY <1>7
<1>9. Find(t, name) = j
  <2>1. found # {}
    BY <1>7
  <2> QED
    BY <2>1 DEF Find
<1> HIDE DEF found, j
<1> DEFINE x == [B[j] EXCEPT !.fun = "typed"]
           b == IF B[j].fun = "untyped" THEN [B EXCEPT ![j] = x] ELSE B
<1>10. SetType(t, name) = [t EXCEPT !.bindings = b]
  <2>1. CASE B[j].fun = "untyped"
    <3>1. SetType(t, name) = [t EXCEPT !.bindings[j].fun = "typed"]
      BY <1>9, <2>1 DEF SetType
    <3>2. [t EXCEPT !.bindings[j].fun = "typed"] = [t EXCEPT !.bindings = [B EXCEPT ![j] = x]]
      OBVIOUS
    <3> QED
      BY <2>1, <3>1, <3>2
  <2>2. CASE B[j].fun # "untyped"
    <3>1. SetType(t, name) = t
      BY <1>9, <2>2 DEF SetType
    <3>2. t = [t EXCEPT !.bindings = B]
      BY DEF State
    <3> QED
      BY <2>2, <3>1, <3>2
  <2> QED
    BY <2>1, <2>2
<1>11. x \in Binding /\ x.name = name /\ x.fun = "typed"
  BY <1>6, <1>7, <1>8 DEF Binding
<1>12. /\ b \in Seq(Binding) /\ Len(b) = Len(B)
       /\ \A i \in 1 .. Len(B) : i # j => b[i] = B[i]
       /\ b[j] = IF B[j].fun = "untyped" THEN x ELSE B[j]
  <2> HIDE DEF x, B
  <2>1. CASE B[j].fun = "untyped"
    <3> DEFINE d == [B EXCEPT ![j] = x]
    <3>1. d \in Seq(Binding) /\ Len(d) = Len(B)
      BY <1>1, <1>7, <1>11
    <3>2. \A i \in 1 .. Len(B) : d[i] = IF i = j THEN x ELSE B[i]
      BY <1>1, <1>7
    <3>3. b = d
      BY <2>1
    <3> HIDE DEF b, d
    <3> QED
      BY <1>7, <2>1, <3>1, <3>2, <3>3
  <2>2. CASE B[j].fun # "untyped"
    BY <1>1, <2>2
  <2> QED
    BY <2>1, <2>2
<1>13. ASSUME NEW i \in l .. Len(B) PROVE Fresh(b[i], ns)
  <2>1. i \in 1 .. Len(B) /\ (i = l \/ i \in l + 1 .. Len(B))
    BY <1>1, <1>13
  <2>2. CASE i = j
    <3>1. CASE B[j].fun = "untyped"
      <4>1. b[i] = x
        BY <1>12, <2>2, <3>1
      <4>2. b[i].name = name /\ b[i].fun # "untyped"
        BY <1>11, <4>1
      <4> HIDE DEF b
      <4> QED
        BY <1>1, <4>2, TypedFresh
    <3>2. CASE B[j].fun # "untyped"
      <4>1. b[i] = B[j]
        BY <1>12, <2>2, <3>2
      <4>2. b[i].name = name /\ b[i].fun # "untyped"
        BY <1>8, <3>2, <4>1
      <4> HIDE DEF b
      <4> QED
        BY <1>1, <4>2, TypedFresh
    <3> QED
      BY <3>1, <3>2
  <2>3. CASE i # j /\ i = l
    <3>1. b[i] = e0 /\ e0.name = name
      BY <1>5, <1>12, <2>1, <2>3
    <3>2. j \in l + 1 .. Len(B)
      BY <1>1, <1>7, <2>3
    <3>3. Fresh(B[j], name)
      BY <1>5, <3>2
    <3>4. Len(name) = 1
      <4>1. Len(name) \in Nat
        OBVIOUS
      <4> QED
        BY <1>8, <3>3, <4>1, NameClash
    <3> HIDE DEF e0
    <3> QED
      BY <3>1, <3>4 DEF Fresh
  <2>4. CASE i # j /\ i # l
    <3>1. b[i] = B[i] /\ Fresh(B[i], name)
      BY <1>5, <1>12, <2>1, <2>4
    <3>2. Fresh(B[i], ns)
      BY <1>1, <1>6, <2>1, <3>1, Wider
    <3> QED
      BY <3>1, <3>2
  <2> QED
    BY <2>2, <2>3, <2>4
<1>14. \A i \in 1 .. Len(s.bindings) : b[i] = s.bindings[i]
  <2> TAKE i \in 1 .. Len(s.bindings)
  <2>1. i \in 1 .. Len(B) /\ i # j
    BY <1>1, <1>5, <1>7
  <2> QED
    BY <1>5, <1>12, <2>1
<1>15. \A i \in 1 .. Len(B) : b[i].name = B[i].name
  <2> TAKE i \in 1 .. Len(B)
  <2>1. b[j].name = name
    BY <1>8, <1>11, <1>12
  <2> HIDE DEF b
  <2> QED
    BY <1>8, <1>12, <2>1
<1>16. ASSUME b[l].fun = "untyped" PROVE \E i \in l + 1 .. Len(B) : B[i].name = name
  <2>1. j # l
    <3> SUFFICES ASSUME j = l PROVE FALSE
      OBVIOUS
    <3>1. B[j].fun = "untyped"
      BY <1>5
    <3>2. b[j] = x
      BY <1>12, <3>1
    <3> HIDE DEF b, x
    <3> QED
      BY <1>11, <1>16, <3>2
  <2>2. j \in l + 1 .. Len(B)
    BY <1>1, <1>7, <2>1
  <2> QED
    BY <1>8, <2>2
<1> HIDE DEF b
<1>17. Grows(s.bindings, b, ns) /\ Len(b) > Len(s.bindings)
  <2>1. Len(s.bindings) <= Len(b) /\ Len(b) > Len(s.bindings)
    BY <1>1, <1>5, <1>12
  <2> QED
    BY <1>12, <1>13, <1>14, <2>1 DEF Grows
<1>18. l + 1 = Len(s.bindings) + 2
  BY <1>1
<1>19. /\ Len(b) = Len(B) /\ \A i \in 1 .. Len(b) : b[i].name = B[i].name
       /\ b[Len(s.bindings) + 1].fun = "untyped" =>
            \E i \in Len(s.bindings) + 2 .. Len(b) : B[i].name = name
  BY <1>12, <1>15, <1>16, <1>18
<1> QED
  BY <1>10, <1>12, <1>17, <1>19

LEMMA GrowsCut ==
  ASSUME NEW b \in Seq(Binding), NEW c \in Seq(Binding), NEW ns, NEW m \in Nat,
         Grows(b, c, ns), Len(b) <= m, m <= Len(c)
  PROVE  Grows(b, SubSeq(c, 1, m), ns)
<1> DEFINE d == SubSeq(c, 1, m)
<1>1. Len(d) = m /\ \A i \in 1 .. m : d[i] = c[i]
  BY Cut
<1>2. Len(b) \in Nat /\ Len(c) \in Nat
  OBVIOUS
<1> HIDE DEF d
<1>3. /\ \A i \in 1 .. Len(b) : i \in 1 .. m
      /\ \A i \in Len(b) + 1 .. m : i \in 1 .. m /\ i \in Len(b) + 1 .. Len(c)
  BY <1>2
<1>4. \A i \in 1 .. Len(b) : d[i] = b[i]
  BY <1>1, <1>3 DEF Grows
<1>5. \A i \in Len(b) + 1 .. m : Fresh(d[i], ns)
  BY <1>1, <1>3 DEF Grows
<1>6. Grows(b, d, ns)
  BY <1>1, <1>4, <1>5 DEF Grows
<1> QED
  BY <1>6 DEF d

\* What functiondef goes through.
NameOf(s, n) == Append(s.namespaces, n.id)
EntryOf(s, n) == [name |-> NameOf(s, n), fun |-> "untyped"]
Opened(s, n) == [Add(s, NameOf(s, n), "untyped") EXCEPT !.namespaces = NameOf(s, n)]
Arrowed(exec, s, n) == FunctionArrow(exec, Opened(s, n), n)
Typed(exec, s, n) == SetType(Arrowed(exec, s, n), NameOf(s, n))
Done(exec, s, n) ==
  ExecAll(exec, ExecAll(exec, Pushed(Typed(exec, s, n)), n.body), n.decorators)
Left(exec, s, n) ==
  [Close(Opened(s, n), Done(exec, s, n)) EXCEPT !.namespaces = s.namespaces,
                                                !.contexts = Front(@)]

LEMMA FunctionDefIs ==
  ASSUME NEW exec, NEW s, NEW n
  PROVE  FunctionDef(exec, s, n) =
           IF s.cached THEN s
           ELSE IF Last(Done(exec, s, n).contexts)
                THEN [Left(exec, s, n) EXCEPT !.generators = @ \union {NameOf(s, n)}]
                ELSE Left(exec, s, n)
BY DEF FunctionDef, NameOf, Opened, Arrowed, Typed, Done, Left, Pushed

LEMMA OpenedGives ==
  ASSUME NEW s \in State, NEW n, n.id \in STRING
  PROVE  /\ NameOf(s, n) \in Seq(STRING) /\ Len(NameOf(s, n)) = Len(s.namespaces) + 1
         /\ Len(s.namespaces) \in Nat /\ s.namespaces \in Seq(STRING)
         /\ s.bindings \in Seq(Binding) /\ Len(s.bindings) \in Nat
         /\ EntryOf(s, n) \in Binding
         /\ Append(s.bindings, EntryOf(s, n)) \in Seq(Binding)
         /\ Len(Append(s.bindings, EntryOf(s, n))) = Len(s.bindings) + 1
         /\ Opened(s, n) \in State
         /\ Opened(s, n).bindings = Append(s.bindings, EntryOf(s, n))
         /\ Opened(s, n).namespaces = NameOf(s, n)
         /\ Opened(s, n).contexts = s.contexts /\ Opened(s, n).errors = s.errors
         /\ Opened(s, n).generators = s.generators /\ Opened(s, n).cached = s.cached
<1> DEFINE name == NameOf(s, n)
           e0 == EntryOf(s, n)
           opened == Opened(s, n)
<1>1. /\ s.namespaces \in Seq(STRING) /\ Len(s.namespaces) \in Nat
      /\ s.bindings \in Seq(Binding) /\ Len(s.bindings) \in Nat
  BY StateFields
<1>2. name \in Seq(STRING) /\ Len(name) = Len(s.namespaces) + 1
  BY <1>1, AppendProperties DEF NameOf
<1>3. e0 \in Binding
  BY <1>2 DEF Binding, EntryOf
<1>4. Append(s.bindings, e0) \in Seq(Binding) /\ Len(Append(s.bindings, e0)) = Len(s.bindings) + 1
  BY <1>1, <1>3, AppendProperties
<1>5. opened = [Add(s, name, "untyped") EXCEPT !.namespaces = name]
  BY DEF Opened
<1>6. Add(s, name, "untyped") = [s EXCEPT !.bindings = Append(s.bindings, e0)]
  BY DEF Add, EntryOf
<1> HIDE DEF name, e0, opened
<1>7. opened \in State
  <2>1. Add(s, name, "untyped") \in State
    BY <1>2, AddState
  <2> QED
    BY <1>2, <1>5, <2>1 DEF State
<1>8. /\ opened.bindings = Append(s.bindings, e0) /\ opened.namespaces = name
      /\ opened.contexts = s.contexts /\ opened.errors = s.errors
      /\ opened.generators = s.generators /\ opened.cached = s.cached
  BY <1>5, <1>6 DEF State
<1> QED
  BY <1>1, <1>2, <1>3, <1>4, <1>7, <1>8 DEF name, e0, opened

LEMMA ArrowedGives ==
  ASSUME NEW exec, Executes(exec), NEW s \in State, NEW n, n.id \in STRING, n.args \in Arguments
  PROVE  LET t == Arrowed(exec, s, n)
         IN  /\ Keeps(Opened(s, n), t) /\ t \in State /\ t.contexts = s.contexts
             /\ t.namespaces = NameOf(s, n) /\ t.cached = s.cached
             /\ s.errors \subseteq t.errors /\ s.generators \subseteq t.generators
             /\ Grows(Append(s.bindings, EntryOf(s, n)), t.bindings, NameOf(s, n))
<1> DEFINE t == Arrowed(exec, s, n)
<1>1. Opened(s, n) \in State
  BY OpenedGives
<1>2. Keeps(Opened(s, n), t) /\ t.contexts = Opened(s, n).contexts
  BY <1>1, ArrowKeeps DEF Arrowed
<1> HIDE DEF t
<1>3. t.contexts = s.contexts
  BY <1>2, OpenedGives
<1>4. /\ t \in State /\ t.namespaces = NameOf(s, n) /\ t.cached = s.cached
      /\ s.errors \subseteq t.errors /\ s.generators \subseteq t.generators
      /\ Grows(Append(s.bindings, EntryOf(s, n)), t.bindings, NameOf(s, n))
  BY <1>2, OpenedGives DEF Keeps
<1> QED
  BY <1>2, <1>3, <1>4 DEF t

\* t is the state before the type is set, u the one after it.
EntryTyped(s, n, t, u) ==
  /\ u \in State
  /\ Len(u.bindings) > Len(s.bindings)
  /\ Grows(s.bindings, u.bindings, s.namespaces)
  /\ Len(u.bindings) = Len(t.bindings)
  /\ \A i \in 1 .. Len(u.bindings) : u.bindings[i].name = t.bindings[i].name
  /\ u.bindings[Len(s.bindings) + 1].fun = "untyped" =>
       \E i \in Len(s.bindings) + 2 .. Len(t.bindings) : t.bindings[i].name = NameOf(s, n)
  /\ u.namespaces = t.namespaces /\ u.contexts = t.contexts /\ u.cached = t.cached
  /\ u.errors = t.errors /\ u.generators = t.generators

LEMMA TypedGives ==
  ASSUME NEW exec, Executes(exec), NEW s \in State, NEW n, n.id \in STRING, n.args \in Arguments
  PROVE  EntryTyped(s, n, Arrowed(exec, s, n), Typed(exec, s, n))
<1> DEFINE t == Arrowed(exec, s, n)
           u == Typed(exec, s, n)
           name == NameOf(s, n)
<1>1. name \in Seq(STRING) /\ Len(name) = Len(s.namespaces) + 1
  BY OpenedGives
<1>2. t \in State /\ Grows(Append(s.bindings, [name |-> name, fun |-> "untyped"]), t.bindings, name)
  BY ArrowedGives DEF EntryOf
<1>3. u = SetType(t, name)
  BY DEF Typed
<1> HIDE DEF t, u, name
<1>4. PICK b \in Seq(Binding) :
           /\ SetType(t, name) = [t EXCEPT !.bindings = b]
           /\ Len(b) > Len(s.bindings)
           /\ Grows(s.bindings, b, s.namespaces)
           /\ Len(b) = Len(t.bindings)
           /\ \A i \in 1 .. Len(b) : b[i].name = t.bindings[i].name
           /\ b[Len(s.bindings) + 1].fun = "untyped" =>
                \E i \in Len(s.bindings) + 2 .. Len(b) : t.bindings[i].name = name
  BY <1>1, <1>2, SetTypeGives
<1>5. u = [t EXCEPT !.bindings = b]
  BY <1>3, <1>4
<1>6. u \in State
  BY <1>2, <1>5 DEF State
<1>7. /\ u.bindings = b /\ u.namespaces = t.namespaces /\ u.contexts = t.contexts
      /\ u.cached = t.cached /\ u.errors = t.errors /\ u.generators = t.generators
  BY <1>2, <1>5 DEF State
<1>8. EntryTyped(s, n, t, u)
  BY <1>4, <1>6, <1>7 DEF EntryTyped, name
<1> QED
  BY <1>8 DEF t, u

LEMMA DoneGives ==
  ASSUME NEW exec, Executes(exec), NEW s \in State, NEW n, n.id \in STRING, n.args \in Arguments,
         n.body \in Seq(Tree), n.decorators \in Seq(Tree)
  PROVE  LET t == Typed(exec, s, n)
             u == Done(exec, s, n)
         IN  /\ Keeps(Pushed(t), u) /\ u \in State
             /\ u.namespaces = NameOf(s, n) /\ u.cached = s.cached
             /\ s.errors \subseteq u.errors /\ s.generators \subseteq u.generators
             /\ Grows(t.bindings, u.bindings, NameOf(s, n))
             /\ t.contexts = s.contexts
<1> DEFINE a == Arrowed(exec, s, n)
           t == Typed(exec, s, n)
           body == ExecAll(exec, Pushed(t), n.body)
           u == Done(exec, s, n)
<1>1. EntryTyped(s, n, a, t)
  BY TypedGives
<1>2. /\ a.contexts = s.contexts /\ a.namespaces = NameOf(s, n) /\ a.cached = s.cached
      /\ s.errors \subseteq a.errors /\ s.generators \subseteq a.generators
  BY ArrowedGives
<1>3. u = ExecAll(exec, body, n.decorators)
  BY DEF Done
<1> HIDE DEF a, t, u
<1>4. /\ t \in State /\ t.namespaces = NameOf(s, n) /\ t.contexts = s.contexts
      /\ t.cached = s.cached /\ s.errors \subseteq t.errors /\ s.generators \subseteq t.generators
  BY <1>1, <1>2 DEF EntryTyped
<1>5. Pushed(t) \in State
  BY <1>4, PushedState
<1>6. Keeps(Pushed(t), body)
  BY <1>5, BlockKeeps
<1>7. Keeps(Pushed(t), u)
  BY <1>3, <1>5, <1>6, ThenExec
<1>8. /\ u \in State /\ u.namespaces = NameOf(s, n) /\ u.cached = s.cached
      /\ s.errors \subseteq u.errors /\ s.generators \subseteq u.generators
      /\ Grows(t.bindings, u.bindings, NameOf(s, n))
  BY <1>4, <1>7, PushedState DEF Keeps
<1> QED
  BY <1>4, <1>7, <1>8 DEF t, u

\* u is the state at the end of the scope, l the one after it.
ScopeLeft(s, t, u, l) ==
  /\ l \in State /\ l.namespaces = s.namespaces /\ l.contexts = s.contexts
  /\ l.cached = s.cached /\ l.errors = u.errors /\ l.generators = u.generators
  /\ Grows(s.bindings, l.bindings, s.namespaces)
  /\ Len(l.bindings) = Len(s.bindings) + 1
  /\ \A i \in 1 .. Len(l.bindings) : l.bindings[i] = t.bindings[i]

LEMMA LeftGives ==
  ASSUME NEW exec, Executes(exec), NEW s \in State, NEW n, n.id \in STRING, n.args \in Arguments,
         n.body \in Seq(Tree), n.decorators \in Seq(Tree)
  PROVE  ScopeLeft(s, Typed(exec, s, n), Done(exec, s, n), Left(exec, s, n))
<1> DEFINE opened == Opened(s, n)
           typed  == Typed(exec, s, n)
           b      == typed.bindings
           done   == Done(exec, s, n)
           left   == Left(exec, s, n)
           popped == Popped(done)
           m == Len(s.bindings) + 1
           d == SubSeq(done.bindings, 1, m)
<1>1. /\ s.namespaces \in Seq(STRING) /\ s.bindings \in Seq(Binding) /\ Len(s.bindings) \in Nat
      /\ Len(opened.bindings) = m
  BY OpenedGives
<1>2. EntryTyped(s, n, Arrowed(exec, s, n), typed)
  BY TypedGives
<1>3. /\ Keeps(Pushed(typed), done) /\ done \in State /\ done.cached = s.cached
      /\ Grows(b, done.bindings, NameOf(s, n)) /\ typed.contexts = s.contexts
  BY DoneGives
<1>4. left = [Close(opened, done) EXCEPT !.namespaces = s.namespaces, !.contexts = Front(@)]
  BY DEF Left
<1> HIDE DEF opened, typed, done, left
<1>5. typed \in State /\ Len(b) > Len(s.bindings) /\ Grows(s.bindings, b, s.namespaces)
  BY <1>2 DEF EntryTyped
<1>6. b \in Seq(Binding)
  BY <1>5, StateFields
<1>7. /\ popped \in State /\ popped.contexts = s.contexts
      /\ popped.bindings = done.bindings /\ popped.cached = s.cached
      /\ popped.errors = done.errors /\ popped.generators = done.generators
  BY <1>3, <1>5, PoppedState
<1>8. /\ d \in Seq(Binding) /\ Len(d) = m /\ \A i \in 1 .. m : d[i] = b[i]
      /\ Grows(s.bindings, d, s.namespaces)
  <2>1. done.bindings \in Seq(Binding) /\ Len(done.bindings) \in Nat
    BY <1>3, StateFields
  <2>2. Len(b) \in Nat /\ m \in Nat /\ m <= Len(b) /\ Len(b) <= Len(done.bindings)
    BY <1>1, <1>3, <1>5, <1>6 DEF Grows
  <2>3. Len(s.bindings) <= m
    BY <1>1
  <2> HIDE DEF m, b
  <2>4. m <= Len(done.bindings)
    BY <2>1, <2>2
  <2> DEFINE c == SubSeq(b, 1, m)
  <2>5. c \in Seq(Binding) /\ Len(c) = m /\ \A i \in 1 .. m : c[i] = b[i]
    BY <1>6, <2>2, Cut
  <2>6. d \in Seq(Binding) /\ Len(d) = m /\ \A i \in 1 .. m : d[i] = done.bindings[i]
    BY <2>1, <2>2, <2>4, Cut
  <2>7. Grows(s.bindings, c, s.namespaces)
    BY <1>1, <1>5, <1>6, <2>2, <2>3, GrowsCut DEF b
  <2>8. \A i \in 1 .. m : d[i] = b[i]
    <3>1. \A i \in 1 .. m : i \in 1 .. Len(b)
      BY <2>2
    <3> HIDE DEF d
    <3> QED
      BY <1>3, <2>6, <3>1 DEF Grows, b
  <2> HIDE DEF c, d
  <2>9. d = c
    BY <2>5, <2>6, <2>8, SeqEqual
  <2> QED
    BY <2>6, <2>7, <2>8, <2>9
<1>9. left = [popped EXCEPT !.bindings = d, !.namespaces = s.namespaces]
  <2>1. Close(opened, done) = [done EXCEPT !.bindings = d]
    BY <1>1 DEF Close
  <2> HIDE DEF d
  <2>2. left = [done EXCEPT !.bindings = d, !.namespaces = s.namespaces,
                            !.contexts = Front(done.contexts)]
    BY <1>3, <1>4, <2>1 DEF State
  <2>3. popped = [done EXCEPT !.contexts = Front(done.contexts)]
    BY DEF Popped
  <2> QED
    BY <1>3, <2>2, <2>3 DEF State
<1> HIDE DEF popped, d
<1>10. left \in State
  BY <1>1, <1>7, <1>8, <1>9 DEF State
<1>11. /\ left.bindings = d /\ left.namespaces = s.namespaces /\ left.contexts = s.contexts
       /\ left.cached = s.cached /\ left.errors = done.errors /\ left.generators = done.generators
  BY <1>7, <1>9 DEF State
<1>12. ScopeLeft(s, typed, done, left)
  BY <1>8, <1>10, <1>11 DEF ScopeLeft
<1> QED
  BY <1>12 DEF typed, done, left

LEMMA FunctionDefKeeps ==
  ASSUME NEW exec, Executes(exec), NEW s \in State, NEW n, n.id \in STRING,
         n.args \in Arguments, n.body \in Seq(Tree), n.decorators \in Seq(Tree)
  PROVE  Keeps(s, FunctionDef(exec, s, n))
<1> DEFINE name  == NameOf(s, n)
           done  == Done(exec, s, n)
           left  == Left(exec, s, n)
           given == [left EXCEPT !.generators = @ \union {name}]
<1>1. \/ FunctionDef(exec, s, n) = s
      \/ FunctionDef(exec, s, n) = given
      \/ FunctionDef(exec, s, n) = left
  BY FunctionDefIs
<1>2. ScopeLeft(s, Typed(exec, s, n), done, left)
  BY LeftGives
<1>3. s.errors \subseteq done.errors /\ s.generators \subseteq done.generators
  BY DoneGives
<1>4. name \in Seq(STRING)
  BY OpenedGives
<1> HIDE DEF name, done, left
<1>5. SameBelow(s.contexts, s.contexts)
  BY DEF SameBelow
<1>6. Keeps(s, left)
  BY <1>2, <1>3, <1>5 DEF Keeps, ScopeLeft
<1>7. left \in State
  BY <1>6 DEF Keeps
<1>8. given \in State /\ given.bindings = left.bindings /\ given.namespaces = left.namespaces
      /\ given.contexts = left.contexts /\ given.errors = left.errors
      /\ left.generators \subseteq given.generators /\ given.cached = left.cached
  BY <1>4, <1>7 DEF State
<1> HIDE DEF given
<1>9. Keeps(s, given)
  BY <1>6, <1>8 DEF Keeps
<1> QED
  BY <1>1, <1>6, <1>9, KeepsSelf

-----------------------------------------------------------------------------
(* The shapes of the nodes                                                 *)

\* What each kind of node has.
Shaped(n) ==
  \/ n.kind \in {"name", "capture"} /\ n.id \in STRING
  \/ n.kind \in {"op", "eval", "yield", "yieldfrom"} /\ n.value \in Seq(Tree)
  \/ n.kind \in {"walrus", "assign", "aug"} /\ n.id \in STRING /\ n.value \in Seq(Tree)
  \/ n.kind = "setattr" /\ n.id \in STRING /\ n.unknown \in SUBSET STRING /\ n.value \in Seq(Tree)
  \/ n.kind = "unpack" /\ n.value \in Seq(Tree)
  \/ n.kind \in {"global", "import"} /\ n.ids \in Seq(STRING)
  \/ n.kind = "lambda" /\ n.args \in Arguments /\ n.value \in Seq(Tree)
  \/ /\ n.kind = "comp" /\ n.value \in Seq(Tree)
     /\ n.gens \in Seq([id : STRING, iter : Seq(Tree), ifs : Seq(Tree)])
  \/ /\ n.kind = "for" /\ n.id \in STRING
     /\ n.iter \in Seq(Tree) /\ n.body \in Seq(Tree) /\ n.orelse \in Seq(Tree)
  \/ /\ n.kind = "while"
     /\ n.test \in Seq(Tree) /\ n.body \in Seq(Tree) /\ n.orelse \in Seq(Tree)
  \/ /\ n.kind = "if" /\ n.test \in Seq(Tree) /\ n.body \in Seq(Tree)
     /\ n.elifs \in Seq([test : Seq(Tree), body : Seq(Tree)])
  \/ n.kind = "with" /\ n.value \in Seq(Tree) /\ n.body \in Seq(Tree)
  \/ /\ n.kind = "try" /\ n.body \in Seq(Tree) /\ n.orelse \in Seq(Tree)
     /\ n.handlers \in Seq([test : Seq(Tree), id : STRING, body : Seq(Tree)])
  \/ /\ n.kind = "match" /\ n.value \in Seq(Tree)
     /\ n.cases \in Seq([pattern : Seq(Tree), guard : Seq(Tree), body : Seq(Tree)])
  \/ /\ n.kind = "def" /\ n.id \in STRING /\ n.args \in Arguments
     /\ n.body \in Seq(Tree) /\ n.decorators \in Seq(Tree)
  \/ /\ n.kind = "class" /\ n.id \in STRING /\ n.bases \in Seq(Tree)
     /\ n.body \in Seq(Tree) /\ n.decorators \in Seq(Tree)

LEMMA NodeShape == ASSUME NEW n \in Node(Tree) PROVE Shaped(n)
BY DEF Node, Arguments, Shaped

LEMMA FieldsOf ==
  ASSUME NEW n \in Tree
  PROVE  /\ n.kind \in {"assign", "setattr"} => n.value \in Seq(Tree)
         /\ n.kind = "def" => n.args \in Arguments /\ n.body \in Seq(Tree)
<1>1. n \in Node(Tree)
  BY TreeAssumption
<1> QED
  BY <1>1, NodeShape DEF Shaped

-----------------------------------------------------------------------------
(* Classes                                                                 *)

LEMMA AttributeStep ==
  ASSUME NEW exec, Executes(exec), NEW m \in Tree
  PROVE  Step(Attribute(exec, m))
<1> DEFINE g == Attribute(exec, m)
           assigned == m.kind = "assign"
<1>1. ASSUME NEW t \in State PROVE Keeps(t, g[t])
  <2>1. g[t] = IF assigned THEN Close(t, ExecAll(exec, t, m.value)) ELSE t
    BY DEF Attribute
  <2>2. assigned => m.value \in Seq(Tree)
    BY FieldsOf
  <2> HIDE DEF g, assigned
  <2>3. CASE assigned
    BY <2>1, <2>2, <2>3, BlockKeeps, CloseKeeps
  <2>4. CASE ~assigned
    BY <2>1, <2>4, KeepsSelf
  <2> QED
    BY <2>3, <2>4
<1>2. g = [t \in State |-> g[t]]
  BY DEF Attribute
<1> HIDE DEF g
<1>3. Step(g)
  BY <1>1, <1>2, IsStep
<1> QED
  BY <1>3 DEF g

LEMMA CtorAttributeStep ==
  ASSUME NEW exec, Executes(exec), NEW self, NEW m \in Tree
  PROVE  Step(CtorAttribute(exec, self, m))
<1> DEFINE g == CtorAttribute(exec, self, m)
           ofSelf == m.kind = "setattr" /\ m.id = self
<1>1. ASSUME NEW t \in State PROVE Keeps(t, g[t])
  <2>1. g[t] = IF ofSelf THEN ExecAll(exec, t, m.value) ELSE t
    BY DEF CtorAttribute
  <2>2. ofSelf => m.value \in Seq(Tree)
    BY FieldsOf
  <2> HIDE DEF g, ofSelf
  <2>3. CASE ofSelf
    BY <2>1, <2>2, <2>3, BlockKeeps
  <2>4. CASE ~ofSelf
    BY <2>1, <2>4, KeepsSelf
  <2> QED
    BY <2>3, <2>4
<1>2. g = [t \in State |-> g[t]]
  BY DEF CtorAttribute
<1> HIDE DEF g
<1>3. Step(g)
  BY <1>1, <1>2, IsStep
<1> QED
  BY <1>3 DEF g

LEMMA MethodStep ==
  ASSUME NEW exec, Executes(exec), NEW m \in Tree
  PROVE  Step(Method(exec, m))
<1> DEFINE g == Method(exec, m)
           function == m.kind = "def"
<1>1. ASSUME NEW t \in State PROVE Keeps(t, g[t])
  <2>1. g[t] = IF function THEN exec[m][t] ELSE t
    BY DEF Method
  <2> HIDE DEF g, function
  <2>2. Keeps(t, exec[m][t])
    BY DEF Executes
  <2> QED
    BY <2>1, <2>2, KeepsSelf
<1>2. g = [t \in State |-> g[t]]
  BY DEF Method
<1> HIDE DEF g
<1>3. Step(g)
  BY <1>1, <1>2, IsStep
<1> QED
  BY <1>3 DEF g

LEMMA ThenAttributes ==
  ASSUME NEW exec, Executes(exec), NEW s \in State, NEW t, Keeps(s, t), NEW n, n.body \in Seq(Tree)
  PROVE  Keeps(s, RecordAttributes(exec, t, n))
<1> DEFINE body == n.body
           f == [i \in DOMAIN body |-> Attribute(exec, body[i])]
<1>1. \A i \in DOMAIN body : Step(Attribute(exec, body[i]))
  BY Element, AttributeStep
<1>2. f = [i \in DOMAIN body |-> f[i]] /\ \A i \in DOMAIN body : Step(f[i])
  BY <1>1
<1>3. body \in Seq(Tree)
  OBVIOUS
<1> HIDE DEF f, body
<1>4. Keeps(s, InTurn(f, t))
  BY <1>2, <1>3, ThenInTurn
<1> QED
  BY <1>4 DEF RecordAttributes, f, body

LEMMA ThenCtor ==
  ASSUME NEW exec, Executes(exec), NEW s \in State, NEW t, Keeps(s, t), NEW ctor,
         ctor.args \in Arguments, ctor.body \in Seq(Tree)
  PROVE  Keeps(s, RecordCtorAttributes(exec, t, ctor))
<1> DEFINE body == ctor.body
           self == ctor.args[1].id
           f == [i \in DOMAIN body |-> CtorAttribute(exec, self, body[i])]
           added == AddArguments(exec, t, ctor.args)
<1>0. t \in State
  BY DEF Keeps
<1>1. \A i \in DOMAIN body : Step(CtorAttribute(exec, self, body[i]))
  BY Element, CtorAttributeStep
<1>2. f = [i \in DOMAIN body |-> f[i]] /\ \A i \in DOMAIN body : Step(f[i])
  BY <1>1
<1>3. body \in Seq(Tree)
  OBVIOUS
<1>4. \/ RecordCtorAttributes(exec, t, ctor) = t
      \/ RecordCtorAttributes(exec, t, ctor) = Close(t, InTurn(f, added))
  BY DEF RecordCtorAttributes
<1> HIDE DEF f, body
<1>5. Keeps(t, added)
  BY <1>0, KeepsSelf, ThenArguments
<1> HIDE DEF added
<1>6. Keeps(t, InTurn(f, added))
  BY <1>0, <1>2, <1>3, <1>5, ThenInTurn
<1>7. Keeps(t, Close(t, InTurn(f, added)))
  BY <1>0, <1>6, CloseKeeps
<1>8. Keeps(s, Close(t, InTurn(f, added)))
  BY <1>7, KeepsOn
<1> QED
  BY <1>4, <1>8

LEMMA ThenMethods ==
  ASSUME NEW exec, Executes(exec), NEW s \in State, NEW t, Keeps(s, t), NEW body \in Seq(Tree)
  PROVE  Keeps(s, InTurn([i \in DOMAIN body |-> Method(exec, body[i])], t))
<1> DEFINE f == [i \in DOMAIN body |-> Method(exec, body[i])]
<1>1. \A i \in DOMAIN body : Step(Method(exec, body[i]))
  BY Element, MethodStep
<1>2. f = [i \in DOMAIN body |-> f[i]] /\ \A i \in DOMAIN body : Step(f[i])
  BY <1>1
<1> HIDE DEF f
<1>3. Keeps(s, InTurn(f, t))
  BY <1>2, ThenInTurn
<1> QED
  BY <1>3 DEF f

\* What is new inside a longer namespace is new inside a shorter one.
LEMMA GrowsOutside ==
  ASSUME NEW b \in Seq(Binding), NEW c \in Seq(Binding), NEW ns, NEW inner,
         Len(ns) \in Nat, Len(inner) = Len(ns) + 1, Grows(b, c, inner)
  PROVE  Grows(b, c, ns)
<1>1. ASSUME NEW i \in Len(b) + 1 .. Len(c) PROVE Fresh(c[i], ns)
  <2>1. i \in 1 .. Len(c)
    BY <1>1
  <2>2. c[i] \in Binding
    BY <2>1, Element
  <2>3. Len(c[i].name) \in Nat
    <3>1. c[i].name \in Seq(STRING)
      BY <2>2 DEF Binding
    <3> QED
      BY <3>1
  <2>4. Fresh(c[i], inner)
    BY DEF Grows
  <2> QED
    BY <2>3, <2>4, Wider
<1> QED
  BY <1>1 DEF Grows

LEMMA ClassDefKeeps ==
  ASSUME NEW exec, Executes(exec), NEW s \in State, NEW n, n.id \in STRING,
         n.bases \in Seq(Tree), n.body \in Seq(Tree), n.decorators \in Seq(Tree)
  PROVE  Keeps(s, ClassDef(exec, s, n))
<1> DEFINE ns      == s.namespaces
           inner   == Append(ns, n.id)
           opened  == [Bind(s, n.id) EXCEPT !.namespaces = Append(@, n.id)]
           static  == RecordAttributes(exec, ExecAll(exec, opened, n.bases), n)
           ctor    == IF Ctors(n) = {} THEN static
                      ELSE RecordCtorAttributes(exec, static, n.body[Max(Ctors(n))])
           methods == InTurn([i \in DOMAIN n.body |-> Method(exec, n.body[i])], ctor)
           done    == ExecAll(exec, methods, n.decorators)
           left    == LeaveClass(s, done)
<1>1. ClassDef(exec, s, n) = left
  BY DEF ClassDef
<1>2. ns \in Seq(STRING) /\ Len(ns) \in Nat
  BY StateFields
<1>3. inner \in Seq(STRING) /\ Len(inner) = Len(ns) + 1
  BY <1>2, AppendProperties
<1>4. Keeps(s, Bind(s, n.id))
  BY BindKeeps
<1> DEFINE bound == Bind(s, n.id)
<1>5. bound \in State /\ bound.namespaces = ns
  BY <1>4 DEF Keeps
<1>6. opened = [bound EXCEPT !.namespaces = inner]
  BY <1>5
<1> HIDE DEF inner, bound, opened
<1>7. /\ opened \in State /\ opened.namespaces = inner /\ opened.bindings = bound.bindings
      /\ opened.contexts = bound.contexts /\ opened.errors = bound.errors
      /\ opened.generators = bound.generators /\ opened.cached = bound.cached
  BY <1>3, <1>5, <1>6 DEF State
<1>8. Keeps(opened, static)
  <2>1. Keeps(opened, ExecAll(exec, opened, n.bases))
    BY <1>7, BlockKeeps
  <2> QED
    BY <1>7, <2>1, ThenAttributes
<1> HIDE DEF static
<1>9. Keeps(opened, ctor)
  <2> DEFINE last == n.body[Max(Ctors(n))]
  <2>1. CASE Ctors(n) # {}
    <3>1. DOMAIN n.body = 1 .. Len(n.body) /\ Len(n.body) \in Nat
      OBVIOUS
    <3>2. Ctors(n) \in SUBSET (0 .. Len(n.body))
      BY <3>1 DEF Ctors
    <3>3. Max(Ctors(n)) \in Ctors(n)
      BY <2>1, <3>1, <3>2, Largest
    <3>4. last \in Tree /\ last.kind = "def"
      BY <3>3, Element DEF Ctors
    <3>5. last.args \in Arguments /\ last.body \in Seq(Tree)
      BY <3>4, FieldsOf
    <3> HIDE DEF last
    <3>6. Keeps(opened, RecordCtorAttributes(exec, static, last))
      BY <1>7, <1>8, <3>5, ThenCtor
    <3> QED
      BY <2>1, <3>6 DEF last
  <2>2. CASE Ctors(n) = {}
    BY <1>8, <2>2
  <2> QED
    BY <2>1, <2>2
<1> HIDE DEF ctor
<1>10. Keeps(opened, methods)
  BY <1>7, <1>9, ThenMethods
<1> HIDE DEF methods
<1>11. Keeps(opened, done)
  BY <1>7, <1>10, ThenExec
<1> HIDE DEF done
<1>12. /\ done \in State /\ done.cached = s.cached
       /\ s.errors \subseteq done.errors /\ s.generators \subseteq done.generators
       /\ SameBelow(s.contexts, done.contexts)
  <2>1. SameBelow(s.contexts, bound.contexts) /\ SameBelow(bound.contexts, done.contexts)
    BY <1>4, <1>7, <1>11 DEF Keeps, bound
  <2>2. SameBelow(s.contexts, done.contexts)
    BY <2>1 DEF SameBelow
  <2> QED
    BY <1>4, <1>7, <1>11, <2>2 DEF Keeps, bound
<1>13. Grows(s.bindings, done.bindings, ns)
  <2>1. /\ s.bindings \in Seq(Binding) /\ bound.bindings \in Seq(Binding)
        /\ done.bindings \in Seq(Binding)
        /\ Len(s.bindings) \in Nat /\ Len(bound.bindings) \in Nat /\ Len(done.bindings) \in Nat
    BY <1>5, <1>12, StateFields
  <2>2. Grows(bound.bindings, done.bindings, inner)
    BY <1>7, <1>11 DEF Keeps
  <2>3. Grows(bound.bindings, done.bindings, ns)
    BY <1>2, <1>3, <2>1, <2>2, GrowsOutside
  <2>4. Grows(s.bindings, bound.bindings, ns)
    BY <1>4 DEF Keeps, bound
  <2> QED
    BY <2>1, <2>3, <2>4, GrowsOn
<1>14. left \in State
  BY <1>2, <1>12 DEF LeaveClass, State
<1>15. /\ left.bindings = done.bindings /\ left.namespaces = ns /\ left.contexts = done.contexts
       /\ left.errors = done.errors /\ left.generators = done.generators
       /\ left.cached = done.cached
  BY <1>12 DEF LeaveClass, State
<1> HIDE DEF left
<1>16. Keeps(s, left)
  BY <1>12, <1>13, <1>14, <1>15 DEF Keeps
<1> QED
  BY <1>1, <1>16

-----------------------------------------------------------------------------
(* The visitor                                                             *)

LEMMA ExecKeeps ==
  ASSUME NEW exec, Executes(exec), NEW s \in State, NEW n \in Node(Tree)
  PROVE  Keeps(s, Exec(exec, s, n))
<1> DEFINE t == Exec(exec, s, n)
<1> SUFFICES Keeps(s, t)
  OBVIOUS
<1>1. CASE n.kind \in {"name", "capture"} /\ n.id \in STRING
  <2>1. t = Load(s, n.id) \/ t = Bind(s, n.id)
    BY <1>1 DEF Exec
  <2> QED
    BY <1>1, <2>1, LoadKeeps, BindKeeps
<1>2. CASE n.kind \in {"op", "eval", "yield", "yieldfrom"} /\ n.value \in Seq(Tree)
  <2>1. t = ExecAll(exec, s, n.value) \/ t = Yield(exec, s, n)
    BY <1>2 DEF Exec
  <2> QED
    BY <1>2, <2>1, BlockKeeps, YieldKeeps
<1>3. CASE n.kind \in {"walrus", "assign", "aug"} /\ n.id \in STRING /\ n.value \in Seq(Tree)
  <2>1. n.kind = "walrus" => t = NamedExpr(exec, s, n)
    BY DEF Exec
  <2>2. n.kind = "assign" => t = Assign(exec, s, n)
    BY DEF Exec
  <2>3. n.kind = "aug" => t = AugAssign(exec, s, n)
    BY DEF Exec
  <2> HIDE DEF t
  <2> QED
    BY <1>3, <2>1, <2>2, <2>3, SimpleKeeps
<1>17. CASE n.kind = "setattr" /\ n.id \in STRING /\ n.unknown \in SUBSET STRING /\ n.value \in Seq(Tree)
  <2>1. t = SetAttribute(exec, s, n)
    BY <1>17 DEF Exec
  <2> QED
    BY <1>17, <2>1, SetAttributeKeeps
<1>4. CASE n.kind = "unpack" /\ n.value \in Seq(Tree)
  <2>1. t = ExecAll(exec, s, n.value)
    BY <1>4 DEF Exec, Unpack
  <2> QED
    BY <1>4, <2>1, BlockKeeps
<1>5. CASE n.kind \in {"global", "import"} /\ n.ids \in Seq(STRING)
  <2>1. n.kind = "global" => t = Global(s, n)
    BY DEF Exec
  <2>2. n.kind = "import" => t = Import(s, n)
    BY DEF Exec
  <2> HIDE DEF t
  <2> QED
    BY <1>5, <2>1, <2>2, GlobalKeeps, ImportKeeps
<1>6. CASE n.kind = "lambda" /\ n.args \in Arguments /\ n.value \in Seq(Tree)
  <2>1. t = Lambda(exec, s, n)
    BY <1>6 DEF Exec
  <2> QED
    BY <1>6, <2>1, LambdaKeeps
<1>7. CASE /\ n.kind = "comp" /\ n.value \in Seq(Tree)
           /\ n.gens \in Seq([id : STRING, iter : Seq(Tree), ifs : Seq(Tree)])
  <2>1. t = Comprehension(exec, s, n)
    BY <1>7 DEF Exec
  <2> QED
    BY <1>7, <2>1, ComprehensionKeeps
<1>8. CASE /\ n.kind = "for" /\ n.id \in STRING
           /\ n.iter \in Seq(Tree) /\ n.body \in Seq(Tree) /\ n.orelse \in Seq(Tree)
  <2>1. t = For(exec, s, n)
    BY <1>8 DEF Exec
  <2> QED
    BY <1>8, <2>1, ForKeeps
<1>9. CASE /\ n.kind = "while"
           /\ n.test \in Seq(Tree) /\ n.body \in Seq(Tree) /\ n.orelse \in Seq(Tree)
  <2>1. t = While(exec, s, n)
    BY <1>9 DEF Exec
  <2> QED
    BY <1>9, <2>1, WhileKeeps
<1>10. CASE /\ n.kind = "if" /\ n.test \in Seq(Tree) /\ n.body \in Seq(Tree)
            /\ n.elifs \in Seq([test : Seq(Tree), body : Seq(Tree)])
  <2>1. t = If(exec, s, n)
    BY <1>10 DEF Exec
  <2> QED
    BY <1>10, <2>1, IfKeeps
<1>11. CASE n.kind = "with" /\ n.value \in Seq(Tree) /\ n.body \in Seq(Tree)
  <2>1. t = With(exec, s, n)
    BY <1>11 DEF Exec
  <2> QED
    BY <1>11, <2>1, WithKeeps
<1>12. CASE /\ n.kind = "try" /\ n.body \in Seq(Tree) /\ n.orelse \in Seq(Tree)
            /\ n.handlers \in Seq([test : Seq(Tree), id : STRING, body : Seq(Tree)])
  <2>1. t = Try(exec, s, n)
    BY <1>12 DEF Exec
  <2> QED
    BY <1>12, <2>1, TryKeeps
<1>13. CASE /\ n.kind = "match" /\ n.value \in Seq(Tree)
            /\ n.cases \in Seq([pattern : Seq(Tree), guard : Seq(Tree), body : Seq(Tree)])
  <2>1. t = Match(exec, s, n)
    BY <1>13 DEF Exec
  <2> QED
    BY <1>13, <2>1, MatchKeeps
<1>14. CASE /\ n.kind = "def" /\ n.id \in STRING /\ n.args \in Arguments
            /\ n.body \in Seq(Tree) /\ n.decorators \in Seq(Tree)
  <2>1. t = FunctionDef(exec, s, n)
    BY <1>14 DEF Exec
  <2> QED
    BY <1>14, <2>1, FunctionDefKeeps
<1>15. CASE /\ n.kind = "class" /\ n.id \in STRING /\ n.bases \in Seq(Tree)
            /\ n.body \in Seq(Tree) /\ n.decorators \in Seq(Tree)
  <2>1. t = ClassDef(exec, s, n)
    BY <1>15 DEF Exec
  <2> QED
    BY <1>15, <2>1, ClassDefKeeps
<1>16. Shaped(n)
  BY NodeShape
<1> HIDE DEF t
<1> QED
  BY <1>1, <1>2, <1>3, <1>4, <1>5, <1>6, <1>7, <1>8, <1>9, <1>10, <1>11, <1>12, <1>13,
     <1>14, <1>15, <1>16, <1>17 DEF Shaped

\* The visitor on nodes one level deeper than those exec is for.
Deeper(exec) == [n \in Tree |-> [s \in State |-> Exec(exec, s, n)]]
Idle == [n \in Tree |-> [s \in State |-> s]]

LEMMA DeeperExecutes == ASSUME NEW exec, Executes(exec) PROVE Executes(Deeper(exec))
<1>1. \A n \in Tree, s \in State : Keeps(s, Exec(exec, s, n))
  BY TreeAssumption, ExecKeeps
<1>2. \A n \in Tree, s \in State : Exec(exec, s, n) \in State
  BY <1>1 DEF Keeps
<1> QED
  BY <1>1, <1>2 DEF Executes, Deeper

LEMMA VisitorUnfolds ==
  Visitor[0] = Idle /\ \A k \in Nat : Visitor[k + 1] = Deeper(Visitor[k])
<1> DEFINE V == {e \in [Tree -> [State -> State]] : Executes(e)}
           step == [i \in Nat |-> [e \in V |-> Deeper(e)]]
           Is(v) == v = [i \in Nat |-> [n \in Tree |-> [s \in State |->
                           IF i = 0 THEN s ELSE Exec(v[i - 1], s, n)]]]
<1>1. Idle \in V
  BY KeepsSelf DEF Idle, Executes
<1>2. step \in [Nat -> [V -> V]]
  <2>1. \A e \in V : Deeper(e) \in V
    BY DeeperExecutes DEF Executes
  <2> HIDE DEF V
  <2> QED
    BY <2>1
<1> HIDE DEF step
<1>3. PICK h : Solves(h, V, Idle, step)
  BY <1>1, <1>2, SolutionExists
<1>4. ASSUME NEW i \in Nat
      PROVE  h[i] = [n \in Tree |-> [s \in State |-> IF i = 0 THEN s ELSE Exec(h[i - 1], s, n)]]
  <2>1. CASE i = 0
    BY <1>3, <2>1 DEF Solves, Idle
  <2>2. CASE i # 0
    <3>1. i - 1 \in Nat /\ h[i - 1] \in V
      BY <1>3, <2>2 DEF Solves
    <3>2. h[i] = Deeper(h[i - 1])
      BY <1>3, <2>2, <3>1 DEF Solves, step
    <3> QED
      BY <2>2, <3>2 DEF Deeper
  <2> QED
    BY <2>1, <2>2
<1>5. h = [i \in Nat |-> h[i]]
  BY <1>3 DEF Solves
<1>6. Is(h)
  BY <1>4, <1>5
<1>7. Visitor = CHOOSE v : Is(v)
  BY DEF Visitor
<1>8. Is(Visitor)
  <2> HIDE DEF Is
  <2> QED
    BY <1>6, <1>7
<1>9. Visitor[0] = Idle
  BY <1>8 DEF Idle
<1>10. ASSUME NEW i \in Nat PROVE Visitor[i + 1] = Deeper(Visitor[i])
  <2>1. i + 1 \in Nat /\ i + 1 # 0 /\ (i + 1) - 1 = i
    OBVIOUS
  <2> QED
    BY <1>8, <2>1 DEF Deeper
<1> QED
  BY <1>9, <1>10

LEMMA VisitorKeeps == ASSUME NEW k \in Nat PROVE Executes(Visitor[k])
<1> DEFINE S == {i \in Nat : Executes(Visitor[i])}
<1>1. 0 \in S
  BY VisitorUnfolds, KeepsSelf DEF Idle, Executes
<1>2. ASSUME NEW i \in Nat, i \in S PROVE i + 1 \in S
  BY <1>2, VisitorUnfolds, DeeperExecutes
<1> HIDE DEF S
<1>3. Nat \subseteq S
  BY <1>1, <1>2, Climbs
<1> QED
  BY <1>3 DEF S

-----------------------------------------------------------------------------
(* The module                                                              *)

LEMMA EmptyState ==
  /\ Empty \in State /\ Empty.namespaces = <<>> /\ Len(Empty.contexts) = 1
  /\ Empty.cached = FALSE /\ Len(Empty.bindings) \in Nat
  /\ \A i \in 1 .. Len(Empty.bindings) : Empty.bindings[i].fun = "no"
<1> DEFINE b == [i \in DOMAIN Builtins |-> [name |-> <<Builtins[i]>>, fun |-> "no"]]
           l == Len(Builtins)
<1>1. Builtins \in Seq(STRING) /\ l \in Nat /\ DOMAIN Builtins = 1 .. l
  BY BuiltinsAssumption
<1>2. \A i \in 1 .. l : b[i] \in Binding /\ b[i].fun = "no"
  <2> TAKE i \in 1 .. l
  <2>1. Builtins[i] \in STRING
    BY <1>1
  <2>2. <<Builtins[i]>> \in Seq(STRING)
    BY <2>1, Single
  <2> QED
    BY <1>1, <2>2 DEF Binding
<1>3. b \in Seq(Binding) /\ Len(b) = l
  <2>1. b = [i \in 1 .. l |-> b[i]]
    BY <1>1
  <2> HIDE DEF b, l
  <2> QED
    BY <1>1, <1>2, <2>1
<1>4. Empty.bindings = b
  BY DEF Empty
<1>5. <<FALSE>> \in Seq(BOOLEAN) \ {<<>>} /\ Len(<<FALSE>>) = 1
  OBVIOUS
<1> HIDE DEF b, l
<1>6. Empty \in State
  <2>1. /\ Empty = [bindings |-> b, namespaces |-> <<>>, contexts |-> <<FALSE>>,
                    errors |-> {}, generators |-> {}, cached |-> FALSE]
    BY DEF Empty, b
  <2>2. <<>> \in Seq(STRING)
    OBVIOUS
  <2> QED
    BY <1>3, <1>5, <2>1, <2>2 DEF State
<1>7. Empty.namespaces = <<>> /\ Len(Empty.contexts) = 1 /\ Empty.cached = FALSE
  BY <1>5 DEF Empty
<1> QED
  BY <1>1, <1>2, <1>3, <1>4, <1>6, <1>7

LEMMA StartKeeps == Keeps(Empty, Start)
<1>1. Start = FunctionDef(Visitor[0], Empty, EntryPoint)
  BY DEF Start, Exec, EntryPoint
<1>2. /\ EntryPoint.id \in STRING /\ EntryPoint.args \in Arguments
      /\ EntryPoint.body \in Seq(Tree) /\ EntryPoint.decorators \in Seq(Tree)
  <2>1. \A T : <<>> \in Seq(T)
    OBVIOUS
  <2>2. EntryPoint.id = "__init__"
    BY DEF EntryPoint
  <2>3. EntryPoint.args = <<>> /\ EntryPoint.body = <<>> /\ EntryPoint.decorators = <<>>
    BY DEF EntryPoint
  <2>4. EntryPoint.id \in STRING
    BY <2>2, CtorAssumption
  <2> QED
    BY <2>1, <2>3, <2>4 DEF Arguments
<1>3. Executes(Visitor[0])
  BY VisitorKeeps
<1>4. Empty \in State
  BY EmptyState
<1>5. Keeps(Empty, FunctionDef(Visitor[0], Empty, EntryPoint))
  BY <1>2, <1>3, <1>4, FunctionDefKeeps
<1> QED
  BY <1>1, <1>5

\* A visit at the level of the module keeps the state between two statements.
LEMMA BetweenStatements ==
  ASSUME NEW s \in State, NEW t, Keeps(s, t),
         s.namespaces = <<>>, Len(s.contexts) = 1, s.cached = FALSE,
         DottedAreTyped(s.bindings)
  PROVE  /\ t \in State /\ t.namespaces = <<>> /\ Len(t.contexts) = 1 /\ t.cached = FALSE
         /\ DottedAreTyped(t.bindings)
<1>1. t \in State /\ t.namespaces = <<>> /\ Len(t.contexts) = 1 /\ t.cached = FALSE
  BY DEF Keeps, SameBelow
<1>2. ASSUME NEW i \in 1 .. Len(t.bindings), t.bindings[i].fun = "untyped"
      PROVE  Len(t.bindings[i].name) = 1
  <2>1. Grows(s.bindings, t.bindings, s.namespaces)
    BY DEF Keeps
  <2>2. Len(s.bindings) \in Nat /\ Len(t.bindings) \in Nat
    BY <1>1, StateFields
  <2>3. CASE i \in 1 .. Len(s.bindings)
    <3>1. t.bindings[i] = s.bindings[i]
      BY <2>1, <2>3 DEF Grows
    <3> QED
      BY <1>2, <2>3, <3>1 DEF DottedAreTyped
  <2>4. CASE i \notin 1 .. Len(s.bindings)
    <3>1. i \in Len(s.bindings) + 1 .. Len(t.bindings)
      BY <2>2, <2>4
    <3>2. Fresh(t.bindings[i], s.namespaces)
      BY <2>1, <3>1 DEF Grows
    <3> QED
      BY <1>2, <3>2 DEF Fresh
  <2> QED
    BY <2>3, <2>4
<1> QED
  BY <1>1, <1>2 DEF DottedAreTyped

LEMMA AnalyseKeeps ==
  ASSUME IInv, NEW n \in Statement, Analyse(n)
  PROVE  Keeps(sema, sema')
<1>1. n \in Tree /\ sema \in State
  BY TreeAssumption DEF IInv, TypeOK
<1>2. Executes(Visitor[MaxNesting])
  BY NestingAssumption, VisitorKeeps
<1>3. Keeps(sema, Visitor[MaxNesting][n][sema])
  BY <1>1, <1>2 DEF Executes
<1> QED
  BY <1>3 DEF Analyse

LEMMA KeepsNothingLeaks ==
  ASSUME NEW s \in State, NEW t, Keeps(s, t)
  PROVE  NothingLeaks(s, t)
<1> DEFINE b == s.bindings
           c == t.bindings
           l == Len(b)
<1>1. t \in State
  BY DEF Keeps
<1>2. b \in Seq(Binding) /\ c \in Seq(Binding) /\ l \in Nat
  BY <1>1, StateFields
<1>3. l <= Len(c) /\ \A i \in 1 .. l : c[i] = b[i]
  BY DEF Keeps, Grows
<1> HIDE DEF b, c
<1>4. SubSeq(b, 1, l) = SubSeq(c, 1, l)
  <2> DEFINE x == SubSeq(b, 1, l)
             y == SubSeq(c, 1, l)
  <2>1. x \in Seq(Binding) /\ Len(x) = l /\ \A i \in 1 .. l : x[i] = b[i]
    BY <1>2, Cut
  <2>2. y \in Seq(Binding) /\ Len(y) = l /\ \A i \in 1 .. l : y[i] = c[i]
    BY <1>2, <1>3, Cut
  <2> HIDE DEF x, y
  <2>3. Len(x) = Len(y) /\ \A i \in 1 .. Len(x) : x[i] = y[i]
    BY <1>3, <2>1, <2>2
  <2>4. x = y
    BY <2>1, <2>2, <2>3, SeqEqual
  <2> QED
    BY <2>4 DEF x, y
<1>5. IsPrefix(s.bindings, t.bindings)
  BY <1>3, <1>4 DEF IsPrefix, b, c
<1> QED
  BY <1>5 DEF Keeps, SameBelow, NothingLeaks

\* Whatever program is analysed, and to whatever depth its statements are
\* nested, the analyser is between two of them in a state as it was made.
THEOREM Invariance == Spec => []IInv
<1>1. Init => IInv
  <2> SUFFICES ASSUME Init PROVE IInv
    OBVIOUS
  <2>1. DottedAreTyped(Empty.bindings)
    BY EmptyState DEF DottedAreTyped
  <2>2. Empty \in State /\ Empty.namespaces = <<>> /\ Len(Empty.contexts) = 1 /\ Empty.cached = FALSE
    BY EmptyState
  <2>3. /\ Start \in State /\ Start.namespaces = <<>> /\ Len(Start.contexts) = 1
        /\ Start.cached = FALSE
        /\ DottedAreTyped(Start.bindings)
    BY <2>1, <2>2, StartKeeps, BetweenStatements
  <2>4. program \in Seq(Statement) /\ sema = Start
    BY DEF Init
  <2> QED
    BY <2>3, <2>4 DEF IInv, TypeOK
<1>2. IInv /\ [Next]_vars => IInv'
  <2> SUFFICES ASSUME IInv, [Next]_vars PROVE IInv'
    OBVIOUS
  <2>1. CASE UNCHANGED vars
    BY <2>1 DEF IInv, TypeOK, vars
  <2>2. ASSUME NEW n \in Statement, Analyse(n) PROVE IInv'
    <3>1. Keeps(sema, sema')
      BY <2>2, AnalyseKeeps
    <3>2. /\ sema \in State /\ sema.namespaces = <<>> /\ Len(sema.contexts) = 1
          /\ sema.cached = FALSE
          /\ DottedAreTyped(sema.bindings)
      BY DEF IInv, TypeOK
    <3>3. /\ sema' \in State /\ sema'.namespaces = <<>> /\ Len(sema'.contexts) = 1
          /\ sema'.cached = FALSE
          /\ DottedAreTyped(sema'.bindings)
      BY <3>1, <3>2, BetweenStatements
    <3>4. program' \in Seq(Statement)
      <4>1. program \in Seq(Statement) /\ program' = Append(program, n)
        BY <2>2 DEF IInv, TypeOK, Analyse
      <4> QED
        BY <4>1, AppendProperties
    <3> QED
      BY <3>3, <3>4 DEF IInv, TypeOK
  <2> QED
    BY <2>1, <2>2 DEF Next
<1> QED
  BY <1>1, <1>2, PTL DEF Spec

\* Between two statements no namespace is entered, one context is open, and the
\* flag is off that makes functiondef return what it already has.
THEOREM TypeCorrect == Spec => []TypeOK
<1>1. IInv => TypeOK
  BY DEF IInv
<1> QED
  BY <1>1, Invariance, PTL

\* Whatever functions, classes, comprehensions and handlers a statement nests,
\* to whatever depth, every scope, namespace, context and flag its visit has set
\* is undone, and no binding from before it moves or changes.
THEOREM EveryScopeIsClosed == Spec => ScopesAreClosed
<1>1. IInv /\ [Next]_vars => [NothingLeaks(sema, sema')]_vars
  <2> SUFFICES ASSUME IInv, NEW n \in Statement, Analyse(n) PROVE NothingLeaks(sema, sema')
    BY DEF Next
  <2>1. sema \in State
    BY DEF IInv, TypeOK
  <2> QED
    BY <2>1, AnalyseKeeps, KeepsNothingLeaks
<1> QED
  BY <1>1, Invariance, PTL DEF Spec, ScopesAreClosed

\* The entry of a method, whose dotted name stays in the bindings after its
\* class, always has its type, which calls of it need: only a function of the
\* module itself can lose it, to a parameter of its name.
THEOREM DottedNamesAreTyped == Spec => []DottedAreTyped(sema.bindings)
<1>1. IInv => DottedAreTyped(sema.bindings)
  BY DEF IInv
<1> QED
  BY <1>1, Invariance, PTL

-----------------------------------------------------------------------------
(* What a visit means                                                      *)

Names(s) == {s.bindings[i].name : i \in 1 .. Len(s.bindings)}
Flag(s) == Last(s.contexts)
Needed(s, m) == {id \in m.needs : <<id>> \notin Names(s)}

\* All that m promises is there after the visit ...
AtLeast(s, t, m) ==
  /\ m.gives \subseteq Names(t)
  /\ Needed(s, m) \subseteq t.errors
  /\ m.generators \subseteq t.generators
  /\ m.yields => Flag(t)

\* ... and nothing more.
AtMost(s, t, m) ==
  /\ t.errors \subseteq s.errors \union Needed(s, m)
  /\ t.generators \subseteq s.generators \union m.generators
  /\ Flag(t) => Flag(s) \/ m.yields

\* A visit that passes over functions does what m says if there are none, and
\* no more than that if what m gives is there already.
Means(s, t, m) ==
  /\ Names(s) \subseteq Names(t) /\ Names(t) \subseteq Names(s) \union m.gives
  /\ s.errors \subseteq t.errors /\ s.generators \subseteq t.generators
  /\ Flag(s) => Flag(t)
  /\ t.cached = s.cached
  /\ m.plain /\ (s.cached => ~m.defs) => AtLeast(s, t, m)
  /\ m.plain /\ (s.cached => ~m.defs \/ (m.again /\ m.gives \subseteq Names(s))) => AtMost(s, t, m)

\* The entries that are new are those of m.
Enters(s, t, m) ==
  \A i \in Len(s.bindings) + 1 .. Len(t.bindings) :
    /\ t.bindings[i].name \in m.gives
    /\ t.bindings[i].fun = "untyped" => t.bindings[i].name \in m.masked

Does(s, t, m) == Keeps(s, t) /\ Enters(s, t, m) /\ Means(s, t, m)

\* exec does what mean says.
Understands(exec, mean) ==
  /\ Executes(exec)
  /\ \A n \in Tree, s \in State : Does(s, exec[n][s], mean[s.namespaces][n])

-----------------------------------------------------------------------------
(* Meanings in turn                                                        *)

LEMMA ThenFields ==
  ASSUME NEW p, NEW q
  PROVE  /\ Then(p, q).needs = p.needs \union {id \in q.needs : <<id>> \notin p.gives}
         /\ Then(p, q).gives = p.gives \union q.gives
         /\ Then(p, q).masked = p.masked \union q.masked
         /\ Then(p, q).generators = p.generators \union q.generators
         /\ Then(p, q).yields = (p.yields \/ q.yields)
         /\ Then(p, q).defs = (p.defs \/ q.defs)
         /\ Then(p, q).again = (p.again /\ q.again)
         /\ Then(p, q).plain = (p.plain /\ q.plain)
BY DEF Then

IsThen(m, p, q) ==
  /\ m.needs = p.needs \union {id \in q.needs : <<id>> \notin p.gives}
  /\ m.gives = p.gives \union q.gives
  /\ m.masked = p.masked \union q.masked
  /\ m.generators = p.generators \union q.generators
  /\ m.yields = (p.yields \/ q.yields)
  /\ m.defs = (p.defs \/ q.defs)
  /\ m.again = (p.again /\ q.again)
  /\ m.plain = (p.plain /\ q.plain)

LEMMA ThenIs == ASSUME NEW p, NEW q PROVE IsThen(Then(p, q), p, q)
  BY ThenFields DEF IsThen

LEMMA NothingFields ==
  /\ Nothing.needs = {} /\ Nothing.gives = {} /\ Nothing.masked = {} /\ Nothing.generators = {}
  /\ Nothing.yields = FALSE /\ Nothing.defs = FALSE
  /\ Nothing.again = TRUE /\ Nothing.plain = TRUE
BY DEF Nothing

LEMMA MeansOn ==
  ASSUME NEW s, NEW t, NEW u, NEW p, NEW q, Means(s, t, p), Means(t, u, q)
  PROVE  Means(s, u, Then(p, q))
<1> DEFINE m == Then(p, q)
<1>1. /\ m.needs = p.needs \union {id \in q.needs : <<id>> \notin p.gives}
      /\ m.gives = p.gives \union q.gives /\ m.generators = p.generators \union q.generators
      /\ m.yields = (p.yields \/ q.yields) /\ m.defs = (p.defs \/ q.defs)
      /\ m.again = (p.again /\ q.again) /\ m.plain = (p.plain /\ q.plain)
  BY ThenFields
<1> HIDE DEF m
<1>2. /\ Names(s) \subseteq Names(t) /\ Names(t) \subseteq Names(s) \union p.gives
      /\ Names(t) \subseteq Names(u) /\ Names(u) \subseteq Names(t) \union q.gives
      /\ s.errors \subseteq t.errors /\ s.generators \subseteq t.generators
      /\ t.errors \subseteq u.errors /\ t.generators \subseteq u.generators
      /\ (Flag(s) => Flag(t)) /\ (Flag(t) => Flag(u))
      /\ t.cached = s.cached /\ u.cached = t.cached
  BY DEF Means
<1>3. Needed(s, m) \subseteq Needed(s, p) \union Needed(t, q)
  BY <1>1, <1>2 DEF Needed
<1>4. ASSUME m.plain, s.cached => ~m.defs PROVE AtLeast(s, u, m)
  <2>1. AtLeast(s, t, p) /\ AtLeast(t, u, q)
    BY <1>1, <1>2, <1>4 DEF Means
  <2> QED
    BY <1>1, <1>2, <1>3, <2>1 DEF AtLeast
<1>5. ASSUME m.plain, s.cached => ~m.defs \/ (m.again /\ m.gives \subseteq Names(s))
      PROVE  AtMost(s, u, m)
  <2>1. AtMost(s, t, p) /\ AtMost(t, u, q)
    BY <1>1, <1>2, <1>5 DEF Means
  <2>2. p.gives \subseteq Names(t)
    <3>1. CASE s.cached => ~m.defs
      <4>1. AtLeast(s, t, p)
        BY <1>1, <1>2, <1>5, <3>1 DEF Means
      <4> QED
        BY <4>1 DEF AtLeast
    <3>2. CASE m.gives \subseteq Names(s)
      BY <1>1, <1>2, <3>2
    <3> QED
      BY <1>5, <3>1, <3>2
  <2>3. Needed(s, p) \subseteq Needed(s, m) /\ Needed(t, q) \subseteq Needed(s, m)
    BY <1>1, <1>2, <2>2 DEF Needed
  <2> QED
    BY <1>1, <2>1, <2>3 DEF AtMost
<1>6. Names(s) \subseteq Names(u) /\ Names(u) \subseteq Names(s) \union m.gives
  BY <1>1, <1>2
<1> QED
  BY <1>2, <1>4, <1>5, <1>6 DEF Means, m

LEMMA EntersOn ==
  ASSUME NEW s \in State, NEW t \in State, NEW u \in State, NEW p, NEW q,
         NEW ns, Len(s.bindings) <= Len(t.bindings), Grows(t.bindings, u.bindings, ns),
         Enters(s, t, p), Enters(t, u, q)
  PROVE  Enters(s, u, Then(p, q))
<1> DEFINE b == s.bindings
           c == t.bindings
           d == u.bindings
           m == Then(p, q)
<1>1. m.gives = p.gives \union q.gives /\ m.masked = p.masked \union q.masked
  BY ThenFields
<1> HIDE DEF m
<1>2. Len(b) \in Nat /\ Len(c) \in Nat /\ Len(d) \in Nat
  BY StateFields
<1>3. ASSUME NEW i \in Len(b) + 1 .. Len(d)
      PROVE  d[i].name \in m.gives /\ (d[i].fun = "untyped" => d[i].name \in m.masked)
  <2>1. CASE i <= Len(c)
    <3>1. d[i] = c[i] /\ i \in Len(b) + 1 .. Len(c)
      BY <1>2, <1>3, <2>1 DEF Grows
    <3> QED
      BY <1>1, <3>1 DEF Enters
  <2>2. CASE ~ (i <= Len(c))
    <3>1. i \in Len(c) + 1 .. Len(d)
      BY <1>2, <1>3, <2>2
    <3> QED
      BY <1>1, <3>1 DEF Enters
  <2> QED
    BY <2>1, <2>2
<1> QED
  BY <1>3 DEF Enters, m

LEMMA DoesOn ==
  ASSUME NEW s \in State, NEW t, NEW u, NEW p, NEW q, Does(s, t, p), Does(t, u, q)
  PROVE  Does(s, u, Then(p, q))
<1>1. Keeps(s, t) /\ Keeps(t, u) /\ Means(s, t, p) /\ Means(t, u, q)
      /\ Enters(s, t, p) /\ Enters(t, u, q)
  BY DEF Does
<1>2. /\ t \in State /\ u \in State /\ Len(s.bindings) <= Len(t.bindings)
      /\ Grows(t.bindings, u.bindings, t.namespaces)
  BY <1>1 DEF Keeps, Grows
<1>3. Keeps(s, u)
  BY <1>1, KeepsOn
<1>4. Means(s, u, Then(p, q))
  BY <1>1, MeansOn
<1>5. Enters(s, u, Then(p, q))
  BY <1>1, <1>2, EntersOn
<1> QED
  BY <1>3, <1>4, <1>5 DEF Does

LEMMA MeansNothing == ASSUME NEW s PROVE Means(s, s, Nothing)
BY NothingFields DEF Means, AtLeast, AtMost, Needed

LEMMA DoesNothing == ASSUME NEW s \in State PROVE Does(s, s, Nothing)
<1>1. Len(s.bindings) \in Nat
  BY StateFields
<1>2. Enters(s, s, Nothing)
  BY <1>1 DEF Enters
<1> QED
  BY <1>2, KeepsSelf, MeansNothing DEF Does

\* r is w but for the order of things that do not see each other.
Within(r, w) ==
  /\ r.gives \subseteq w.gives /\ r.masked \subseteq w.masked
  /\ w.plain => /\ r.plain
                /\ r.needs = w.needs /\ r.gives = w.gives /\ r.generators = w.generators
                /\ r.yields <=> w.yields
                /\ w.again => r.again
                /\ r.defs => w.defs

LEMMA MeansWithin ==
  ASSUME NEW s, NEW t, NEW r, NEW w, Means(s, t, r), Within(r, w)
  PROVE  Means(s, t, w)
<1>1. CASE ~w.plain
  BY <1>1 DEF Means, Within
<1>2. CASE w.plain
  <2>1. /\ r.plain /\ r.needs = w.needs /\ r.gives = w.gives /\ r.generators = w.generators
        /\ r.yields <=> w.yields
        /\ w.again => r.again
        /\ r.defs => w.defs
    BY <1>2 DEF Within
  <2>2. Needed(s, r) = Needed(s, w)
    BY <2>1 DEF Needed
  <2>3. AtLeast(s, t, r) => AtLeast(s, t, w)
    BY <2>1, <2>2 DEF AtLeast
  <2>4. AtMost(s, t, r) => AtMost(s, t, w)
    BY <2>1, <2>2 DEF AtMost
  <2> QED
    BY <1>2, <2>1, <2>3, <2>4 DEF Means
<1> QED
  BY <1>1, <1>2

LEMMA DoesWithin ==
  ASSUME NEW s, NEW t, NEW r, NEW w, Does(s, t, r), Within(r, w)
  PROVE  Does(s, t, w)
<1>1. Enters(s, t, w)
  BY DEF Does, Enters, Within
<1> QED
  BY <1>1, MeansWithin DEF Does

-----------------------------------------------------------------------------
(* Single bindings                                                         *)

LEMMA FindIs ==
  ASSUME NEW s \in State, NEW name
  PROVE  Find(s, name) # 0 <=> name \in Names(s)
<1> DEFINE b == s.bindings
           found == {i \in DOMAIN b : b[i].name = name}
<1>1. Len(b) \in Nat /\ DOMAIN b = 1 .. Len(b)
  BY StateFields
<1>2. Find(s, name) = IF found = {} THEN 0 ELSE Max(found)
  BY DEF Find
<1>3. name \in Names(s) <=> found # {}
  BY <1>1 DEF Names
<1>4. found \in SUBSET (0 .. Len(b)) /\ 0 \notin found
  BY <1>1
<1> HIDE DEF found, b
<1>5. ASSUME found # {} PROVE Max(found) # 0
  <2>1. Max(found) \in found
    BY <1>1, <1>4, <1>5, Largest
  <2> QED
    BY <1>4, <2>1
<1> QED
  BY <1>2, <1>3, <1>5

LEMMA AddNames ==
  ASSUME NEW s \in State, NEW t, NEW e, t.bindings = Append(s.bindings, e), e \in Binding
  PROVE  Names(t) = Names(s) \union {e.name}
<1> DEFINE b == s.bindings
           c == Append(b, e)
<1>1. b \in Seq(Binding) /\ Len(b) \in Nat
  BY StateFields
<1>2. Len(c) = Len(b) + 1 /\ c[Len(b) + 1] = e /\ \A i \in 1 .. Len(b) : c[i] = b[i]
  BY <1>1, AppendProperties
<1>3. t.bindings = c
  OBVIOUS
<1> HIDE DEF b, c
<1>4. Names(s) = {b[i].name : i \in 1 .. Len(b)}
  BY DEF Names, b
<1>5. Names(t) = {c[i].name : i \in 1 .. Len(c)}
  BY <1>3 DEF Names
<1>6. \A i \in 1 .. Len(c) : i \in 1 .. Len(b) \/ i = Len(b) + 1
  BY <1>1, <1>2
<1>7. Len(b) + 1 \in 1 .. Len(c) /\ \A i \in 1 .. Len(b) : i \in 1 .. Len(c)
  BY <1>1, <1>2
<1>8. Names(s) \subseteq Names(t)
  BY <1>2, <1>4, <1>5, <1>7
<1>9. e.name \in Names(t)
  BY <1>2, <1>5, <1>7
<1>10. Names(t) \subseteq Names(s) \union {e.name}
  BY <1>2, <1>4, <1>5, <1>6
<1> QED
  BY <1>8, <1>9, <1>10

\* Nothing but an entry is new.
LEMMA AddMeans ==
  ASSUME NEW s \in State, NEW t, NEW e, NEW m,
         t.bindings = Append(s.bindings, e), e \in Binding, t.contexts = s.contexts,
         t.errors = s.errors, t.generators = s.generators, t.cached = s.cached,
         m.needs = {}, m.gives = {e.name}, m.generators = {}, m.yields = FALSE
  PROVE  Means(s, t, m)
<1>1. Names(t) = Names(s) \union {e.name}
  BY AddNames
<1>2. Needed(s, m) = {}
  BY DEF Needed
<1>3. AtLeast(s, t, m)
  BY <1>1, <1>2 DEF AtLeast
<1>4. AtMost(s, t, m)
  BY DEF AtMost, Flag
<1> QED
  BY <1>1, <1>3, <1>4 DEF Means, Flag

LEMMA GivingFields ==
  ASSUME NEW name
  PROVE  /\ Giving(name).needs = {} /\ Giving(name).gives = {name} /\ Giving(name).masked = {}
         /\ Giving(name).generators = {} /\ Giving(name).yields = FALSE
         /\ Giving(name).defs = FALSE /\ Giving(name).again = TRUE /\ Giving(name).plain = TRUE
BY DEF Giving, Nothing

LEMMA UsingFields ==
  ASSUME NEW id
  PROVE  /\ Using(id).needs = {id} /\ Using(id).gives = {} /\ Using(id).masked = {}
         /\ Using(id).generators = {} /\ Using(id).yields = FALSE
         /\ Using(id).defs = FALSE /\ Using(id).again = TRUE /\ Using(id).plain = TRUE
BY DEF Using, Nothing

LEMMA BindDoes ==
  ASSUME NEW s \in State, NEW id \in STRING
  PROVE  Does(s, Bind(s, id), Giving(<<id>>))
<1> DEFINE e == [name |-> <<id>>, fun |-> "no"]
           t == Bind(s, id)
           m == Giving(<<id>>)
<1>1. e \in Binding
  BY Single DEF Binding
<1>2. t = [s EXCEPT !.bindings = Append(s.bindings, e)]
  BY DEF Bind, Add
<1>3. e.name = <<id>> /\ e.fun # "untyped"
  OBVIOUS
<1>4. Keeps(s, t)
  BY BindKeeps
<1> HIDE DEF e, t
<1>5. /\ t.bindings = Append(s.bindings, e) /\ t.contexts = s.contexts
      /\ t.errors = s.errors /\ t.generators = s.generators /\ t.cached = s.cached
  BY <1>2 DEF State
<1>6. m.needs = {} /\ m.gives = {e.name} /\ m.generators = {} /\ m.yields = FALSE
  BY <1>3, GivingFields
<1> HIDE DEF m
<1>7. Means(s, t, m)
  BY <1>1, <1>5, <1>6, AddMeans
<1>8. Enters(s, t, m)
  <2>1. s.bindings \in Seq(Binding) /\ Len(s.bindings) \in Nat
    BY StateFields
  <2>2. Len(t.bindings) = Len(s.bindings) + 1 /\ t.bindings[Len(s.bindings) + 1] = e
    BY <1>1, <1>5, <2>1, AppendProperties
  <2>3. \A i \in Len(s.bindings) + 1 .. Len(t.bindings) : i = Len(s.bindings) + 1
    BY <2>1, <2>2
  <2> QED
    BY <1>3, <1>6, <2>2, <2>3 DEF Enters
<1> QED
  BY <1>4, <1>7, <1>8 DEF Does, t, m

LEMMA LoadDoes ==
  ASSUME NEW s \in State, NEW id \in STRING
  PROVE  Does(s, Load(s, id), Using(id))
<1> DEFINE m == Using(id)
           t == Load(s, id)
<1>1. m.needs = {id} /\ m.gives = {} /\ m.generators = {} /\ m.yields = FALSE
  BY UsingFields
<1>2. Find(s, <<id>>) # 0 <=> <<id>> \in Names(s)
  BY FindIs
<1>3. Keeps(s, t)
  BY LoadKeeps
<1>4. /\ t.bindings = s.bindings /\ t.contexts = s.contexts /\ t.generators = s.generators
      /\ t.cached = s.cached
      /\ t.errors = IF <<id>> \in Names(s) THEN s.errors ELSE s.errors \union {id}
  BY <1>2 DEF Load, State
<1> HIDE DEF m, t
<1>5. Names(t) = Names(s) /\ Flag(t) = Flag(s)
  BY <1>4 DEF Names, Flag
<1>6. t.errors = s.errors \union Needed(s, m)
  BY <1>1, <1>4 DEF Needed
<1>7. AtLeast(s, t, m) /\ AtMost(s, t, m)
  BY <1>1, <1>4, <1>5, <1>6 DEF AtLeast, AtMost
<1>8. Means(s, t, m)
  BY <1>1, <1>4, <1>5, <1>6, <1>7 DEF Means
<1>9. Enters(s, t, m)
  <2>1. Len(s.bindings) \in Nat
    BY StateFields
  <2> QED
    BY <1>4, <2>1 DEF Enters
<1> QED
  BY <1>3, <1>8, <1>9 DEF Does, t, m

LEMMA StoreDoes ==
  ASSUME NEW s \in State, NEW id \in STRING
  PROVE  Does(s, Store(s, id), Giving(<<id>>))
<1>1. CASE Find(s, <<id>>) = 0
  BY <1>1, BindDoes DEF Store
<1>2. CASE Find(s, <<id>>) # 0
  <2> DEFINE m == Giving(<<id>>)
  <2>1. m.needs = {} /\ m.gives = {<<id>>} /\ m.generators = {} /\ m.yields = FALSE
    BY GivingFields
  <2>2. Store(s, id) = s /\ <<id>> \in Names(s)
    BY <1>2, FindIs DEF Store
  <2>3. Len(s.bindings) \in Nat
    BY StateFields
  <2> HIDE DEF m
  <2>4. Enters(s, s, m)
    BY <2>3 DEF Enters
  <2>5. Means(s, s, m)
    BY <2>1, <2>2 DEF Means, AtLeast, AtMost, Needed
  <2>6. Does(s, s, m)
    BY <2>4, <2>5, KeepsSelf DEF Does
  <2> QED
    BY <2>2, <2>6 DEF m
<1> QED
  BY <1>1, <1>2

LEMMA CloseDoes ==
  ASSUME NEW s \in State, NEW t, NEW p, Does(s, t, p)
  PROVE  Does(s, Close(s, t), Local(p))
<1> DEFINE m == Local(p)
           u == Close(s, t)
<1>1. Keeps(s, t) /\ Means(s, t, p)
  BY DEF Does
<1>2. /\ m.needs = p.needs /\ m.gives = {} /\ m.generators = p.generators
      /\ m.yields = p.yields /\ m.defs = p.defs /\ m.again = ~p.defs /\ m.plain = p.plain
  BY DEF Local
<1>3. u = [t EXCEPT !.bindings = s.bindings] /\ t \in State
  BY <1>1, CloseGives DEF Keeps
<1>4. Keeps(s, u)
  BY <1>1, CloseKeeps
<1> HIDE DEF m, u
<1>5. /\ u.bindings = s.bindings /\ u.contexts = t.contexts /\ u.errors = t.errors
      /\ u.generators = t.generators /\ u.cached = t.cached
  BY <1>3 DEF State
<1>6. Names(u) = Names(s) /\ Flag(u) = Flag(t)
  BY <1>5 DEF Names, Flag
<1>7. Needed(s, m) = Needed(s, p)
  BY <1>2 DEF Needed
<1>8. ASSUME m.plain, s.cached => ~m.defs PROVE AtLeast(s, u, m)
  <2>1. AtLeast(s, t, p)
    BY <1>1, <1>2, <1>8 DEF Means
  <2> QED
    BY <1>2, <1>5, <1>6, <1>7, <2>1 DEF AtLeast
<1>9. ASSUME m.plain, s.cached => ~m.defs \/ (m.again /\ m.gives \subseteq Names(s))
      PROVE  AtMost(s, u, m)
  <2>1. AtMost(s, t, p)
    BY <1>1, <1>2, <1>9 DEF Means
  <2> QED
    BY <1>2, <1>5, <1>6, <1>7, <2>1 DEF AtMost
<1>10. /\ s.errors \subseteq u.errors /\ s.generators \subseteq u.generators
       /\ Flag(s) => Flag(u)
       /\ u.cached = s.cached
  BY <1>1, <1>5, <1>6 DEF Means
<1>11. Names(s) \subseteq Names(u) /\ Names(u) \subseteq Names(s) \union m.gives
  BY <1>6
<1>12. Means(s, u, m)
  BY <1>8, <1>9, <1>10, <1>11 DEF Means
<1>13. Enters(s, u, m)
  <2>1. Len(s.bindings) \in Nat
    BY StateFields
  <2> QED
    BY <1>5, <2>1 DEF Enters
<1> QED
  BY <1>4, <1>12, <1>13 DEF Does, m, u

-----------------------------------------------------------------------------
(* Sequences of visits, and of their meanings                              *)

Accumulates(a, n, m) ==
  a[0] = Nothing /\ \A i \in 1 .. n : a[i] = Then(a[i - 1], m[i])

LEMMA AllOfUnfolds ==
  ASSUME NEW seq, NEW m, Len(seq) \in Nat
  PROVE  \E a : Accumulates(a, Len(seq), m) /\ AllOf(seq, m) = a[Len(seq)]
<1> DEFINE n == Len(seq)
           Is(a, k) == a = [i \in 0 .. k |-> IF i = 0 THEN Nothing ELSE Then(a[i - 1], m[i])]
           S == {k \in Nat : \E a : Is(a, k)}
<1>1. 0 \in S
  <2> DEFINE a == [i \in 0 .. 0 |-> Nothing]
  <2>1. \A i \in 0 .. 0 : i = 0
    OBVIOUS
  <2>2. Is(a, 0)
    BY <2>1
  <2> QED
    BY <2>2
<1>2. ASSUME NEW k \in Nat, k \in S PROVE k + 1 \in S
  <2>1. PICK a : Is(a, k)
    BY <1>2
  <2> DEFINE c == [i \in 0 .. k + 1 |-> IF i = k + 1 THEN Then(a[k], m[k + 1]) ELSE a[i]]
  <2>2. ASSUME NEW i \in 0 .. k + 1
        PROVE  c[i] = IF i = 0 THEN Nothing ELSE Then(c[i - 1], m[i])
    <3>1. CASE i = k + 1
      <4>1. c[i] = Then(a[k], m[k + 1]) /\ i # 0 /\ i - 1 = k /\ k \in 0 .. k + 1 /\ k # k + 1
        BY <3>1
      <4>2. c[i - 1] = a[k]
        BY <4>1
      <4> HIDE DEF c
      <4> QED
        BY <3>1, <4>1, <4>2
    <3>2. CASE i # k + 1
      <4>1. i \in 0 .. k /\ c[i] = a[i]
        BY <3>2
      <4>2. i # 0 => i - 1 \in 0 .. k + 1 /\ i - 1 # k + 1
        BY <4>1
      <4>3. i # 0 => c[i - 1] = a[i - 1]
        BY <4>2
      <4>4. a[i] = IF i = 0 THEN Nothing ELSE Then(a[i - 1], m[i])
        BY <2>1, <4>1
      <4> HIDE DEF c
      <4> QED
        BY <4>1, <4>3, <4>4
    <3> QED
      BY <3>1, <3>2
  <2>3. c = [i \in 0 .. k + 1 |-> c[i]]
    OBVIOUS
  <2> HIDE DEF c
  <2>4. Is(c, k + 1)
    BY <2>2, <2>3
  <2> QED
    BY <2>4
<1> HIDE DEF S
<1>3. n \in S
  BY <1>1, <1>2, Climbs
<1> DEFINE upto == CHOOSE a : Is(a, n)
<1>4. Is(upto, n)
  BY <1>3 DEF S
<1>5. AllOf(seq, m) = upto[n]
  BY DEF AllOf
<1> HIDE DEF upto
<1>6. /\ 0 \in 0 .. n
      /\ \A i \in 1 .. n : i \in 0 .. n /\ i # 0
  OBVIOUS
<1>7. Accumulates(upto, n, m)
  BY <1>4, <1>6 DEF Accumulates
<1> QED
  BY <1>5, <1>7

SameUpto(n, m, l) == \A i \in 1 .. n : m[i] = l[i]

LEMMA AccumulatesAgree ==
  ASSUME NEW n \in Nat, NEW k \in Nat, n <= k, NEW m, NEW l, SameUpto(n, m, l),
         NEW a, NEW c, Accumulates(a, n, m), Accumulates(c, k, l)
  PROVE  a[n] = c[n]
<1> USE DEF SameUpto
<1> DEFINE S == {i \in Nat : i <= n => a[i] = c[i]}
<1>1. 0 \in S
  BY DEF Accumulates
<1>2. ASSUME NEW i \in Nat, i \in S PROVE i + 1 \in S
  <2> SUFFICES ASSUME i + 1 <= n PROVE a[i + 1] = c[i + 1]
    OBVIOUS
  <2>1. i + 1 \in 1 .. n /\ i + 1 \in 1 .. k /\ (i + 1) - 1 = i /\ i <= n
    OBVIOUS
  <2>2. a[i + 1] = Then(a[i], m[i + 1]) /\ c[i + 1] = Then(c[i], l[i + 1])
    BY <2>1 DEF Accumulates
  <2> QED
    BY <1>2, <2>1, <2>2
<1> HIDE DEF S
<1>3. n \in S
  BY <1>1, <1>2, Climbs
<1> QED
  BY <1>3 DEF S

LEMMA DoesState ==
  ASSUME NEW s, NEW t, NEW m, Does(s, t, m)
  PROVE  t \in State /\ t.namespaces = s.namespaces
BY DEF Does, Keeps

\* In the namespace ns, f does what m says.
Acts(f, m, ns) ==
  /\ f \in [State -> State]
  /\ \A t \in State : t.namespaces = ns => Does(t, f[t], m)

LEMMA InTurnDoes ==
  ASSUME NEW T, NEW seq \in Seq(T), NEW f, f = [i \in DOMAIN seq |-> f[i]], NEW m,
         NEW s \in State, \A i \in DOMAIN seq : Acts(f[i], m[i], s.namespaces)
  PROVE  Does(s, InTurn(f, s), AllOf(seq, m))
<1> DEFINE n == Len(seq)
<1>1. DOMAIN seq = 1 .. n /\ n \in Nat
  OBVIOUS
<1>2. \A i \in 1 .. n : f[i] \in [State -> State]
  BY <1>1 DEF Acts
<1>3. f \in Seq([State -> State]) /\ Len(f) = n
  BY <1>1, <1>2
<1>4. PICK a : Unfolds(a, f, s)
  BY <1>3, InTurnUnfolds
<1>5. PICK c : Accumulates(c, n, m) /\ AllOf(seq, m) = c[n]
  BY <1>1, AllOfUnfolds
<1> DEFINE S == {i \in Nat : i <= n => Does(s, a[i], c[i])}
<1>6. 0 \in S
  BY <1>4, <1>5, DoesNothing DEF Unfolds, Accumulates
<1>7. ASSUME NEW k \in Nat, k \in S PROVE k + 1 \in S
  <2> SUFFICES ASSUME k + 1 <= n PROVE Does(s, a[k + 1], c[k + 1])
    OBVIOUS
  <2>1. k + 1 \in 1 .. n /\ (k + 1) - 1 = k /\ k <= n
    BY <1>1
  <2>2. a[k + 1] = f[k + 1][a[k]]
    BY <1>3, <1>4, <2>1 DEF Unfolds
  <2>3. c[k + 1] = Then(c[k], m[k + 1])
    BY <1>5, <2>1 DEF Accumulates
  <2>4. Does(s, a[k], c[k])
    BY <1>7, <2>1
  <2>5. a[k] \in State /\ a[k].namespaces = s.namespaces
    BY <2>4, DoesState
  <2>6. Does(a[k], a[k + 1], m[k + 1])
    BY <1>1, <2>1, <2>2, <2>5 DEF Acts
  <2>7. Does(s, a[k + 1], Then(c[k], m[k + 1]))
    BY <2>4, <2>6, DoesOn
  <2> QED
    BY <2>3, <2>7
<1> HIDE DEF S
<1>8. n \in S
  BY <1>1, <1>6, <1>7, Climbs
<1>9. Does(s, a[n], c[n])
  BY <1>1, <1>8 DEF S
<1> QED
  BY <1>3, <1>4, <1>5, <1>9 DEF Unfolds

LEMMA IsAct ==
  ASSUME NEW f, NEW m, NEW ns, f = [t \in State |-> f[t]], Step(f),
         \A t \in State : t.namespaces = ns => Does(t, f[t], m)
  PROVE  Acts(f, m, ns)
BY DEF Acts, Step

LEMMA BlockDoes ==
  ASSUME NEW exec, NEW mean, Understands(exec, mean), NEW s \in State, NEW nodes \in Seq(Tree),
         NEW ns, s.namespaces = ns
  PROVE  Does(s, ExecAll(exec, s, nodes), All(mean, ns, nodes))
<1> DEFINE f == [i \in DOMAIN nodes |-> exec[nodes[i]]]
           m == [i \in DOMAIN nodes |-> mean[ns][nodes[i]]]
<1>1. ASSUME NEW i \in DOMAIN nodes PROVE Acts(f[i], m[i], ns)
  <2>1. nodes[i] \in Tree /\ f[i] = exec[nodes[i]] /\ m[i] = mean[ns][nodes[i]]
    BY Element
  <2>2. f[i] \in [State -> State]
    BY <2>1 DEF Understands, Executes
  <2>3. \A t \in State : t.namespaces = ns => Does(t, exec[nodes[i]][t], mean[ns][nodes[i]])
    BY <2>1 DEF Understands
  <2> QED
    BY <2>1, <2>2, <2>3 DEF Acts
<1>2. f = [i \in DOMAIN nodes |-> f[i]]
  OBVIOUS
<1> HIDE DEF f, m
<1>3. Does(s, InTurn(f, s), AllOf(nodes, m))
  BY <1>1, <1>2, InTurnDoes
<1> QED
  BY <1>3 DEF ExecAll, All, f, m

LEMMA ThenBlockDoes ==
  ASSUME NEW exec, NEW mean, Understands(exec, mean), NEW s \in State, NEW ns, s.namespaces = ns,
         NEW t, NEW p, Does(s, t, p), NEW nodes \in Seq(Tree)
  PROVE  Does(s, ExecAll(exec, t, nodes), Then(p, All(mean, ns, nodes)))
<1>1. t \in State /\ t.namespaces = ns
  BY DoesState
<1>2. Does(t, ExecAll(exec, t, nodes), All(mean, ns, nodes))
  BY <1>1, BlockDoes
<1> QED
  BY <1>2, DoesOn

LEMMA ThenBindDoes ==
  ASSUME NEW s \in State, NEW t, NEW p, Does(s, t, p), NEW id \in STRING
  PROVE  Does(s, Bind(t, id), Then(p, Giving(<<id>>)))
BY DoesState, BindDoes, DoesOn

LEMMA ThenLoadDoes ==
  ASSUME NEW s \in State, NEW t, NEW p, Does(s, t, p), NEW id \in STRING
  PROVE  Does(s, Load(t, id), Then(p, Using(id)))
BY DoesState, LoadDoes, DoesOn

LEMMA ProvidedFields ==
  ASSUME NEW p, NEW q, NEW c
  PROVE  LET m == Then(p, q)
             w == Provided(m, c)
         IN  /\ w.needs = m.needs /\ w.gives = m.gives /\ w.masked = m.masked
             /\ w.generators = m.generators /\ w.yields = m.yields /\ w.defs = m.defs
             /\ w.again = m.again /\ w.plain = (m.plain /\ c)
BY DEF Provided, Then

\* What is meant only under a condition.
LEMMA ProvidedWithin ==
  ASSUME NEW r, NEW p, NEW q, NEW c, r.gives \subseteq Then(p, q).gives,
         r.masked \subseteq Then(p, q).masked, c => Within(r, Then(p, q))
  PROVE  Within(r, Provided(Then(p, q), c))
<1> DEFINE m == Then(p, q)
           w == Provided(m, c)
<1>1. /\ w.needs = m.needs /\ w.gives = m.gives /\ w.masked = m.masked
      /\ w.generators = m.generators /\ w.yields = m.yields /\ w.defs = m.defs
      /\ w.again = m.again /\ w.plain = (m.plain /\ c)
  BY ProvidedFields
<1> HIDE DEF m, w
<1>2. r.gives \subseteq w.gives /\ r.masked \subseteq w.masked
  BY <1>1 DEF m
<1>3. ASSUME w.plain PROVE Within(r, m) /\ m.plain
  BY <1>1, <1>3 DEF m
<1> QED
  BY <1>1, <1>2, <1>3 DEF Within, m, w

LEMMA WithinSelf == ASSUME NEW r PROVE Within(r, r)
BY DEF Within

\* What n meanings in turn come to; only for needs the order matters.
Gathers(w, n, m) ==
  /\ \A name : name \in w.gives <=> \E i \in 1 .. n : name \in m[i].gives
  /\ \A name : name \in w.masked <=> \E i \in 1 .. n : name \in m[i].masked
  /\ \A name : name \in w.generators <=> \E i \in 1 .. n : name \in m[i].generators
  /\ w.yields <=> \E i \in 1 .. n : m[i].yields
  /\ w.defs <=> \E i \in 1 .. n : m[i].defs
  /\ w.again <=> \A i \in 1 .. n : m[i].again
  /\ w.plain <=> \A i \in 1 .. n : m[i].plain
  /\ \A id \in w.needs : \E i \in 1 .. n : id \in m[i].needs
  /\ \A i \in 1 .. n : \A id \in m[i].needs :
       id \in w.needs \/ \E j \in 1 .. i - 1 : <<id>> \in m[j].gives

LEMMA GathersMore ==
  ASSUME NEW k \in Nat, NEW m, NEW p, NEW q, Gathers(p, k, m), IsThen(q, p, m[k + 1])
  PROVE  Gathers(q, k + 1, m)
<1> DEFINE l == k + 1
<1>1. 1 .. l = (1 .. k) \union {l}
  OBVIOUS
<1>2. IsThen(q, p, m[l]) /\ l - 1 = k
  OBVIOUS
<1> HIDE DEF l
<1>3. /\ \A name : name \in q.gives <=> \E i \in 1 .. l : name \in m[i].gives
      /\ \A name : name \in q.masked <=> \E i \in 1 .. l : name \in m[i].masked
      /\ \A name : name \in q.generators <=> \E i \in 1 .. l : name \in m[i].generators
  BY <1>1, <1>2 DEF Gathers, IsThen
<1>4. (q.yields <=> \E i \in 1 .. l : m[i].yields) /\ (q.defs <=> \E i \in 1 .. l : m[i].defs)
  BY <1>1, <1>2 DEF Gathers, IsThen
<1>5. (q.again <=> \A i \in 1 .. l : m[i].again) /\ (q.plain <=> \A i \in 1 .. l : m[i].plain)
  BY <1>1, <1>2 DEF Gathers, IsThen
<1>6. \A id \in q.needs : \E i \in 1 .. l : id \in m[i].needs
  BY <1>1, <1>2 DEF Gathers, IsThen
<1>7. ASSUME NEW i \in 1 .. l, NEW id \in m[i].needs
      PROVE  id \in q.needs \/ \E j \in 1 .. i - 1 : <<id>> \in m[j].gives
  <2>1. CASE i \in 1 .. k
    BY <1>2, <1>7, <2>1 DEF Gathers, IsThen
  <2>2. CASE i = l
    <3>1. id \in q.needs \/ <<id>> \in p.gives
      BY <1>2, <1>7, <2>2 DEF IsThen
    <3> QED
      BY <1>2, <2>2, <3>1 DEF Gathers
  <2> QED
    BY <1>1, <2>1, <2>2
<1> QED
  BY <1>3, <1>4, <1>5, <1>6, <1>7 DEF Gathers, l

LEMMA AllOfGathers ==
  ASSUME NEW seq, NEW m, Len(seq) \in Nat
  PROVE  Gathers(AllOf(seq, m), Len(seq), m)
<1> DEFINE n == Len(seq)
<1>1. PICK c : Accumulates(c, n, m) /\ AllOf(seq, m) = c[n]
  BY AllOfUnfolds
<1> DEFINE S == {i \in Nat : i <= n => Gathers(c[i], i, m)}
<1>2. 0 \in S
  <2>1. c[0] = Nothing /\ 1 .. 0 = {}
    BY <1>1 DEF Accumulates
  <2> QED
    BY <2>1, NothingFields DEF Gathers
<1>3. ASSUME NEW k \in Nat, k \in S PROVE k + 1 \in S
  <2> SUFFICES ASSUME k + 1 <= n PROVE Gathers(c[k + 1], k + 1, m)
    OBVIOUS
  <2>1. k + 1 \in 1 .. n /\ (k + 1) - 1 = k /\ k <= n
    OBVIOUS
  <2>2. c[k + 1] = Then(c[k], m[k + 1])
    BY <1>1, <2>1 DEF Accumulates
  <2>3. IsThen(c[k + 1], c[k], m[k + 1])
    BY <2>2, ThenIs
  <2> QED
    BY <1>3, <2>1, <2>3, GathersMore
<1> HIDE DEF S
<1>4. n \in S
  BY <1>2, <1>3, Climbs
<1> QED
  BY <1>1, <1>4 DEF S

-----------------------------------------------------------------------------
(* The meaning of expressions                                              *)

\* What the analyser makes of one parameter.
Parameter(mean, ns, a) ==
  Provided(Then(All(mean, ns, a.default), Giving(<<a.id>>)), ~a.variadic)

LEMMA ArgumentActs ==
  ASSUME NEW exec, NEW mean, Understands(exec, mean), NEW ns,
         NEW a, a.id \in STRING, a.default \in Seq(Tree)
  PROVE  Acts(Argument(exec, a), Parameter(mean, ns, a), ns)
<1> DEFINE g == Argument(exec, a)
           r == Then(All(mean, ns, a.default), Giving(<<a.id>>))
           w == Parameter(mean, ns, a)
<1>1. ASSUME NEW t \in State, t.namespaces = ns PROVE Does(t, g[t], w)
  <2>1. g[t] = IF a.variadic THEN t ELSE Bind(ExecAll(exec, t, a.default), a.id)
    BY DEF Argument
  <2>2. w = Provided(r, ~a.variadic)
    BY DEF Parameter
  <2>3. CASE a.variadic
    <3>1. Within(Nothing, w)
      <4> DEFINE default == All(mean, ns, a.default)
                 here == Giving(<<a.id>>)
      <4>1. w = Provided(Then(default, here), ~a.variadic)
        BY <2>2
      <4> HIDE DEF w, default, here
      <4>2. ~w.plain
        BY <2>3, <4>1, ProvidedFields
      <4> QED
        BY <4>2, NothingFields DEF Within
    <3>2. Does(t, t, w)
      BY <3>1, DoesNothing, DoesWithin
    <3> QED
      BY <2>1, <2>3, <3>2
  <2>4. CASE ~a.variadic
    <3>1. Does(t, ExecAll(exec, t, a.default), All(mean, ns, a.default))
      BY <1>1, BlockDoes
    <3>2. Does(t, Bind(ExecAll(exec, t, a.default), a.id), r)
      BY <3>1, ThenBindDoes
    <3>3. Within(r, w)
      BY <2>2, <2>4, WithinSelf, ProvidedWithin DEF Within
    <3> HIDE DEF r, w
    <3>4. Does(t, Bind(ExecAll(exec, t, a.default), a.id), w)
      BY <3>2, <3>3, DoesWithin
    <3> QED
      BY <2>1, <2>4, <3>4
  <2> QED
    BY <2>3, <2>4
<1>2. Step(g)
  BY ArgumentStep DEF Understands
<1>3. g = [t \in State |-> g[t]]
  BY DEF Argument
<1> HIDE DEF g, w
<1>4. Acts(g, w, ns)
  BY <1>1, <1>2, <1>3, IsAct
<1> QED
  BY <1>4 DEF g, w

\* The parameters one by one are the default values and then the names, if no
\* default value sees a parameter.
LEMMA ParametersWithin ==
  ASSUME NEW mean, NEW ns, NEW args, Len(args) \in Nat, DOMAIN args = 1 .. Len(args)
  PROVE  Within(AllOf(args, [i \in DOMAIN args |-> Parameter(mean, ns, args[i])]),
                Parameters(mean, ns, args))
<1> DEFINE n == Len(args)
           D(i) == All(mean, ns, args[i].default)
           m == [i \in DOMAIN args |-> Parameter(mean, ns, args[i])]
           d == [i \in DOMAIN args |-> D(i)]
           g == [i \in DOMAIN args |-> Giving(<<args[i].id>>)]
           c == /\ \A i \in DOMAIN args : ~args[i].variadic
                /\ \A i, j \in DOMAIN args : j < i => args[j].id \notin D(i).needs
                /\ AllOf(args, d).gives = {}
           r == AllOf(args, m)
           p == AllOf(args, d)
           q == AllOf(args, g)
           w == Parameters(mean, ns, args)
<1>1. /\ w.needs = Then(p, q).needs /\ w.gives = Then(p, q).gives
      /\ w.masked = Then(p, q).masked /\ w.generators = Then(p, q).generators
      /\ w.yields = Then(p, q).yields /\ w.defs = Then(p, q).defs
      /\ w.again = Then(p, q).again /\ w.plain = (Then(p, q).plain /\ c)
  <2>1. w = Provided(Then(p, q), c)
    BY DEF Parameters
  <2> HIDE DEF p, q, w, c
  <2> QED
    BY <2>1, ProvidedFields
<1>2. IsThen(Then(p, q), p, q)
  BY ThenIs
<1>3. Gathers(r, n, m) /\ Gathers(p, n, d) /\ Gathers(q, n, g)
  BY AllOfGathers
<1>4. ASSUME NEW i \in 1 .. n
      PROVE  /\ m[i].needs = d[i].needs /\ m[i].gives = d[i].gives \union {<<args[i].id>>}
             /\ m[i].masked = d[i].masked /\ m[i].generators = d[i].generators
             /\ (m[i].yields <=> d[i].yields) /\ (m[i].defs <=> d[i].defs)
             /\ (m[i].again <=> d[i].again)
             /\ (m[i].plain <=> d[i].plain /\ ~args[i].variadic)
             /\ g[i].needs = {} /\ g[i].gives = {<<args[i].id>>} /\ g[i].masked = {}
             /\ g[i].generators = {} /\ ~g[i].yields /\ ~g[i].defs /\ g[i].again /\ g[i].plain
  <2> DEFINE e == D(i)
             h == Giving(<<args[i].id>>)
             u == ~args[i].variadic
  <2>1. d[i] = e /\ g[i] = h /\ m[i] = Provided(Then(e, h), u)
    BY <1>4 DEF Parameter
  <2>2. h.needs = {} /\ h.gives = {<<args[i].id>>} /\ h.masked = {}
        /\ h.generators = {} /\ ~h.yields /\ ~h.defs /\ h.again /\ h.plain
    BY GivingFields
  <2> HIDE DEF e, h, d, g, m, u
  <2> DEFINE v == Then(e, h)
             x == Provided(v, u)
  <2>3. IsThen(v, e, h)
    BY ThenIs
  <2>4. /\ x.needs = v.needs /\ x.gives = v.gives /\ x.masked = v.masked
        /\ x.generators = v.generators /\ x.yields = v.yields /\ x.defs = v.defs
        /\ x.again = v.again /\ x.plain = (v.plain /\ u)
    BY ProvidedFields
  <2>5. m[i] = x
    BY <2>1
  <2> HIDE DEF v, x
  <2>6. /\ m[i].needs = d[i].needs /\ m[i].gives = d[i].gives \union {<<args[i].id>>}
        /\ m[i].masked = d[i].masked /\ m[i].generators = d[i].generators
    BY <2>1, <2>2, <2>3, <2>4, <2>5 DEF IsThen
  <2>7. /\ (m[i].yields <=> d[i].yields) /\ (m[i].defs <=> d[i].defs)
        /\ (m[i].again <=> d[i].again) /\ (m[i].plain <=> d[i].plain /\ u)
    BY <2>1, <2>2, <2>3, <2>4, <2>5 DEF IsThen
  <2> QED
    BY <2>1, <2>2, <2>6, <2>7 DEF u
<1>5. c => /\ \A i \in 1 .. n : ~args[i].variadic
           /\ \A i, j \in 1 .. n : j < i => args[j].id \notin d[i].needs
  OBVIOUS
<1>6. PICK a : Accumulates(a, n, m) /\ r = a[n]
  BY AllOfUnfolds
<1>7. PICK b : Accumulates(b, n, d) /\ p = b[n]
  BY AllOfUnfolds
<1> HIDE DEF c, m, d, g, r, p, q, w
<1>8. r.gives = w.gives /\ r.masked = w.masked /\ r.generators = w.generators
  <2>1. w.gives = p.gives \union q.gives /\ w.masked = p.masked \union q.masked
        /\ w.generators = p.generators \union q.generators
    BY <1>1, <1>2 DEF IsThen
  <2>2. /\ \A x : x \in r.gives <=> \E i \in 1 .. n : x \in m[i].gives
        /\ \A x : x \in p.gives <=> \E i \in 1 .. n : x \in d[i].gives
        /\ \A x : x \in q.gives <=> \E i \in 1 .. n : x \in g[i].gives
    BY <1>3 DEF Gathers
  <2>3. /\ \A x : x \in r.masked <=> \E i \in 1 .. n : x \in m[i].masked
        /\ \A x : x \in p.masked <=> \E i \in 1 .. n : x \in d[i].masked
        /\ \A x : x \in q.masked <=> \E i \in 1 .. n : x \in g[i].masked
    BY <1>3 DEF Gathers
  <2>4. /\ \A x : x \in r.generators <=> \E i \in 1 .. n : x \in m[i].generators
        /\ \A x : x \in p.generators <=> \E i \in 1 .. n : x \in d[i].generators
        /\ \A x : x \in q.generators <=> \E i \in 1 .. n : x \in g[i].generators
    BY <1>3 DEF Gathers
  <2>5. \A i \in 1 .. n : m[i].gives = d[i].gives \union g[i].gives
    BY <1>4
  <2>6. \A i \in 1 .. n : /\ m[i].masked = d[i].masked /\ g[i].masked = {}
                          /\ m[i].generators = d[i].generators /\ g[i].generators = {}
    BY <1>4
  <2>7. r.gives = w.gives
    BY <2>1, <2>2, <2>5
  <2> QED
    BY <2>1, <2>3, <2>4, <2>6, <2>7
<1>9. (r.yields <=> w.yields) /\ (r.defs <=> w.defs) /\ (r.again <=> w.again)
  <2>1. /\ w.yields <=> p.yields \/ q.yields
        /\ w.defs <=> p.defs \/ q.defs
        /\ w.again <=> p.again /\ q.again
    BY <1>1, <1>2 DEF IsThen
  <2>2. \A i \in 1 .. n : /\ (m[i].yields <=> d[i].yields) /\ ~g[i].yields
                          /\ (m[i].defs <=> d[i].defs) /\ ~g[i].defs
                          /\ (m[i].again <=> d[i].again) /\ g[i].again
    BY <1>4
  <2>3. /\ r.yields <=> \E i \in 1 .. n : m[i].yields
        /\ p.yields <=> \E i \in 1 .. n : d[i].yields
        /\ q.yields <=> \E i \in 1 .. n : g[i].yields
    BY <1>3 DEF Gathers
  <2>4. /\ r.defs <=> \E i \in 1 .. n : m[i].defs
        /\ p.defs <=> \E i \in 1 .. n : d[i].defs
        /\ q.defs <=> \E i \in 1 .. n : g[i].defs
    BY <1>3 DEF Gathers
  <2>5. /\ r.again <=> \A i \in 1 .. n : m[i].again
        /\ p.again <=> \A i \in 1 .. n : d[i].again
        /\ q.again <=> \A i \in 1 .. n : g[i].again
    BY <1>3 DEF Gathers
  <2>6. r.yields <=> w.yields
    BY <2>1, <2>2, <2>3
  <2>7. r.defs <=> w.defs
    BY <2>1, <2>2, <2>4
  <2>8. r.again <=> w.again
    BY <2>1, <2>2, <2>5
  <2> QED
    BY <2>6, <2>7, <2>8
<1>10. ASSUME w.plain PROVE r.plain
  <2>1. p.plain /\ c
    BY <1>1, <1>2, <1>10 DEF IsThen
  <2>2. (r.plain <=> \A i \in 1 .. n : m[i].plain) /\ (p.plain <=> \A i \in 1 .. n : d[i].plain)
    BY <1>3 DEF Gathers
  <2>3. \A i \in 1 .. n : m[i].plain <=> d[i].plain /\ ~args[i].variadic
    BY <1>4
  <2>4. \A i \in 1 .. n : ~args[i].variadic
    BY <1>5, <2>1
  <2> QED
    BY <2>1, <2>2, <2>3, <2>4
<1>11. w.needs = p.needs
  <2>1. \A id \in q.needs : \E i \in 1 .. n : id \in g[i].needs
    BY <1>3 DEF Gathers
  <2>2. q.needs = {}
    BY <1>4, <2>1
  <2>3. w.needs = p.needs \union {id \in q.needs : <<id>> \notin p.gives}
    BY <1>1, <1>2 DEF IsThen
  <2> QED
    BY <2>2, <2>3
<1>12. ASSUME c PROVE r.needs = p.needs
  <2> DEFINE Same(k) == /\ a[k].needs = b[k].needs
                        /\ \A x : x \in a[k].gives <=>
                             x \in b[k].gives \/ \E j \in 1 .. k : x = <<args[j].id>>
             S == {k \in Nat : k <= n => Same(k)}
  <2>1. 0 \in S
    BY <1>6, <1>7 DEF Accumulates
  <2>2. ASSUME NEW k \in Nat, k \in S PROVE k + 1 \in S
    <3> SUFFICES ASSUME k + 1 <= n PROVE Same(k + 1)
      OBVIOUS
    <3> DEFINE l == k + 1
    <3>1. l \in 1 .. n /\ l - 1 = k /\ k <= n /\ 1 .. l = (1 .. k) \union {l}
          /\ \A j \in 1 .. k : j \in 1 .. n /\ j < l
      OBVIOUS
    <3>2. a[l] = Then(a[k], m[l]) /\ b[l] = Then(b[k], d[l])
      BY <1>6, <1>7, <3>1 DEF Accumulates
    <3>3. IsThen(a[l], a[k], m[l]) /\ IsThen(b[l], b[k], d[l])
      BY <3>2, ThenIs
    <3>4. Same(k)
      BY <2>2, <3>1
    <3>5. m[l].needs = d[l].needs /\ m[l].gives = d[l].gives \union {<<args[l].id>>}
      BY <1>4, <3>1
    <3>6. \A j \in 1 .. k : args[j].id \notin d[l].needs
      BY <1>5, <1>12, <3>1
    <3> HIDE DEF l
    <3>7. a[l].needs = b[l].needs
      <4>1. ASSUME NEW id \in d[l].needs PROVE <<id>> \in a[k].gives <=> <<id>> \in b[k].gives
        <5>1. \A j \in 1 .. k : <<id>> # <<args[j].id>>
          BY <3>6, <4>1
        <5> QED
          BY <3>4, <5>1
      <4>2. /\ a[l].needs = a[k].needs \union {id \in m[l].needs : <<id>> \notin a[k].gives}
            /\ b[l].needs = b[k].needs \union {id \in d[l].needs : <<id>> \notin b[k].gives}
        BY <3>3 DEF IsThen
      <4> QED
        BY <3>4, <3>5, <4>1, <4>2
    <3>8. \A x : x \in a[l].gives <=>
            x \in b[l].gives \/ \E j \in 1 .. l : x = <<args[j].id>>
      BY <3>1, <3>3, <3>4, <3>5 DEF IsThen
    <3> QED
      BY <3>7, <3>8 DEF l
  <2> HIDE DEF S
  <2>3. n \in S
    BY <2>1, <2>2, Climbs
  <2> QED
    BY <1>6, <1>7, <2>3 DEF S
<1>13. w.plain => c
  BY <1>1
<1>14. w.plain => r.needs = w.needs
  BY <1>11, <1>12, <1>13
<1> QED
  BY <1>8, <1>9, <1>10, <1>14 DEF Within, r, m, w

LEMMA ArgumentsDoes ==
  ASSUME NEW exec, NEW mean, Understands(exec, mean), NEW s \in State, NEW ns, s.namespaces = ns,
         NEW args \in Arguments
  PROVE  Does(s, AddArguments(exec, s, args), Parameters(mean, ns, args))
<1> DEFINE f == [i \in DOMAIN args |-> Argument(exec, args[i])]
           m == [i \in DOMAIN args |-> Parameter(mean, ns, args[i])]
<1>1. ASSUME NEW i \in DOMAIN args PROVE Acts(f[i], m[i], ns)
  <2>1. args[i].id \in STRING /\ args[i].default \in Seq(Tree)
    BY ArgumentFields
  <2>2. Acts(Argument(exec, args[i]), Parameter(mean, ns, args[i]), ns)
    BY <2>1, ArgumentActs
  <2> QED
    BY <2>2
<1>2. f = [i \in DOMAIN args |-> f[i]]
  OBVIOUS
<1> HIDE DEF f, m
<1>3. args \in Seq([id : STRING, default : Seq(Tree), variadic : BOOLEAN])
  BY DEF Arguments
<1>4. Does(s, InTurn(f, s), AllOf(args, m))
  BY <1>1, <1>2, <1>3, InTurnDoes
<1>5. Within(AllOf(args, m), Parameters(mean, ns, args))
  BY <1>3, ParametersWithin DEF m
<1>6. Does(s, InTurn(f, s), Parameters(mean, ns, args))
  BY <1>4, <1>5, DoesWithin
<1> QED
  BY <1>6 DEF AddArguments, f

\* The flag is that of the function around a lambda: hence the condition.
LEMMA LambdaDoes ==
  ASSUME NEW exec, NEW mean, Understands(exec, mean), NEW s \in State, NEW ns, s.namespaces = ns,
         NEW n, n.args \in Arguments, n.value \in Seq(Tree)
  PROVE  Does(s, Lambda(exec, s, n), LambdaMeaning(mean, ns, n))
<1> DEFINE p == Then(Parameters(mean, ns, n.args), All(mean, ns, n.value))
           w == LambdaMeaning(mean, ns, n)
<1>1. Does(s, AddArguments(exec, s, n.args), Parameters(mean, ns, n.args))
  BY ArgumentsDoes
<1>2. Does(s, ExecAll(exec, AddArguments(exec, s, n.args), n.value), p)
  BY <1>1, ThenBlockDoes
<1>3. Does(s, Lambda(exec, s, n), Local(p))
  BY <1>2, CloseDoes DEF Lambda
<1>4. w = Provided([Local(p) EXCEPT !.yields = FALSE], ~p.yields)
  BY DEF LambdaMeaning
<1> HIDE DEF p, w
<1>5. /\ w.needs = p.needs /\ w.gives = {} /\ w.masked = {} /\ w.generators = p.generators
      /\ w.yields = FALSE /\ w.defs = p.defs /\ w.again = ~p.defs
      /\ w.plain = (p.plain /\ ~p.yields)
  BY <1>4 DEF Local, Provided
<1>6. Within(Local(p), w)
  BY <1>5 DEF Local, Within
<1>7. Does(s, Lambda(exec, s, n), w)
  BY <1>3, <1>6, DoesWithin
<1> QED
  BY <1>7 DEF w

\* A name given before or after the visit of something that does not need it.
LEMMA ThenOtherOrder ==
  ASSUME NEW id, NEW p, NEW ifs
  PROVE  LET r == Then(Then(Giving(<<id>>), p), ifs)
             q == Then(Then(p, Giving(<<id>>)), ifs)
         IN  /\ id \notin p.needs => Within(r, q)
             /\ r.gives \subseteq q.gives /\ r.masked \subseteq q.masked
<1> DEFINE here == Giving(<<id>>)
           a == Then(here, p)
           c == Then(p, here)
           r == Then(a, ifs)
           q == Then(c, ifs)
<1>1. /\ here.needs = {} /\ here.gives = {<<id>>} /\ here.masked = {} /\ here.generators = {}
      /\ here.yields = FALSE /\ here.defs = FALSE /\ here.again = TRUE /\ here.plain = TRUE
  BY GivingFields
<1> HIDE DEF here
<1>2. /\ a.needs = here.needs \union {x \in p.needs : <<x>> \notin here.gives}
      /\ a.gives = here.gives \union p.gives /\ a.masked = here.masked \union p.masked
      /\ a.generators = here.generators \union p.generators
      /\ a.yields = (here.yields \/ p.yields) /\ a.defs = (here.defs \/ p.defs)
      /\ a.again = (here.again /\ p.again) /\ a.plain = (here.plain /\ p.plain)
  BY ThenFields
<1>3. /\ c.needs = p.needs \union {x \in here.needs : <<x>> \notin p.gives}
      /\ c.gives = p.gives \union here.gives /\ c.masked = p.masked \union here.masked
      /\ c.generators = p.generators \union here.generators
      /\ c.yields = (p.yields \/ here.yields) /\ c.defs = (p.defs \/ here.defs)
      /\ c.again = (p.again /\ here.again) /\ c.plain = (p.plain /\ here.plain)
  BY ThenFields
<1>4. /\ r.needs = a.needs \union {x \in ifs.needs : <<x>> \notin a.gives}
      /\ r.gives = a.gives \union ifs.gives /\ r.masked = a.masked \union ifs.masked
      /\ r.generators = a.generators \union ifs.generators
      /\ r.yields = (a.yields \/ ifs.yields) /\ r.defs = (a.defs \/ ifs.defs)
      /\ r.again = (a.again /\ ifs.again) /\ r.plain = (a.plain /\ ifs.plain)
  BY ThenFields
<1>5. /\ q.needs = c.needs \union {x \in ifs.needs : <<x>> \notin c.gives}
      /\ q.gives = c.gives \union ifs.gives /\ q.masked = c.masked \union ifs.masked
      /\ q.generators = c.generators \union ifs.generators
      /\ q.yields = (c.yields \/ ifs.yields) /\ q.defs = (c.defs \/ ifs.defs)
      /\ q.again = (c.again /\ ifs.again) /\ q.plain = (c.plain /\ ifs.plain)
  BY ThenFields
<1> HIDE DEF a, c
<1>6. a.gives = c.gives
  BY <1>2, <1>3
<1>7. ASSUME id \notin p.needs PROVE a.needs = c.needs
  <2>1. \A x \in p.needs : <<x>> # <<id>>
    BY <1>7
  <2>2. a.needs = p.needs
    BY <1>1, <1>2, <2>1
  <2>3. c.needs = p.needs
    BY <1>1, <1>3
  <2> QED
    BY <2>2, <2>3
<1> HIDE DEF r, q
<1>8. r.gives = q.gives /\ r.masked = q.masked /\ r.generators = q.generators
  BY <1>2, <1>3, <1>4, <1>5, <1>6
<1>9. ASSUME id \notin p.needs PROVE Within(r, q)
  <2>1. r.needs = q.needs
    BY <1>4, <1>5, <1>6, <1>7, <1>9
  <2>2. /\ r.yields <=> q.yields
        /\ r.defs <=> q.defs
        /\ r.again <=> q.again
        /\ r.plain <=> q.plain
    BY <1>1, <1>2, <1>3, <1>4, <1>5
  <2> QED
    BY <1>8, <2>1, <2>2 DEF Within
<1> QED
  BY <1>8, <1>9 DEF here, a, c, r, q

LEMMA GeneratorActs ==
  ASSUME NEW exec, NEW mean, Understands(exec, mean), NEW ns,
         NEW g, g.id \in STRING, g.iter \in Seq(Tree), g.ifs \in Seq(Tree)
  PROVE  Acts(Generator(exec, g), GeneratorMeaning(mean, ns, g), ns)
<1> DEFINE f == Generator(exec, g)
           iter == All(mean, ns, g.iter)
           ifs == All(mean, ns, g.ifs)
           r == Then(Then(Giving(<<g.id>>), iter), ifs)
           q == Then(Then(iter, Giving(<<g.id>>)), ifs)
           w == GeneratorMeaning(mean, ns, g)
<1>1. Within(r, w)
  <2>1. w = Provided(q, g.id \notin iter.needs)
    BY DEF GeneratorMeaning
  <2>2. (g.id \notin iter.needs => Within(r, q)) /\ r.gives \subseteq q.gives /\ r.masked \subseteq q.masked
    BY ThenOtherOrder
  <2>4. g.id \notin iter.needs => Within(r, q)
    BY <2>2
  <2> HIDE DEF w, r
  <2>5. Within(r, Provided(q, g.id \notin iter.needs))
    <3>1. r.gives \subseteq q.gives /\ r.masked \subseteq q.masked
      BY <2>2
    <3> QED
      BY <2>4, <3>1, ProvidedWithin
  <2> QED
    BY <2>1, <2>5
<1>2. ASSUME NEW t \in State, t.namespaces = ns PROVE Does(t, f[t], w)
  <2>1. f[t] = ExecAll(exec, ExecAll(exec, Store(t, g.id), g.iter), g.ifs)
    BY DEF Generator
  <2>2. Does(t, Store(t, g.id), Giving(<<g.id>>))
    BY StoreDoes
  <2>3. Does(t, ExecAll(exec, Store(t, g.id), g.iter), Then(Giving(<<g.id>>), iter))
    BY <1>2, <2>2, ThenBlockDoes
  <2>4. Does(t, ExecAll(exec, ExecAll(exec, Store(t, g.id), g.iter), g.ifs), r)
    BY <1>2, <2>3, ThenBlockDoes
  <2> HIDE DEF r, w
  <2>5. Does(t, ExecAll(exec, ExecAll(exec, Store(t, g.id), g.iter), g.ifs), w)
    BY <1>1, <2>4, DoesWithin
  <2> QED
    BY <2>1, <2>5
<1>3. Step(f)
  BY GeneratorStep DEF Understands
<1>4. f = [t \in State |-> f[t]]
  BY DEF Generator
<1> HIDE DEF f, w
<1>5. Acts(f, w, ns)
  BY <1>2, <1>3, <1>4, IsAct
<1> QED
  BY <1>5 DEF f, w

LEMMA ComprehensionDoes ==
  ASSUME NEW exec, NEW mean, Understands(exec, mean), NEW s \in State, NEW ns, s.namespaces = ns,
         NEW n, n.value \in Seq(Tree),
         n.gens \in Seq([id : STRING, iter : Seq(Tree), ifs : Seq(Tree)])
  PROVE  Does(s, Comprehension(exec, s, n), ComprehensionMeaning(mean, ns, n))
<1> DEFINE gens == n.gens
           f == [i \in DOMAIN gens |-> Generator(exec, gens[i])]
           m == [i \in DOMAIN gens |-> GeneratorMeaning(mean, ns, gens[i])]
<1>1. ASSUME NEW i \in DOMAIN gens PROVE Acts(f[i], m[i], ns)
  <2>1. gens[i] \in [id : STRING, iter : Seq(Tree), ifs : Seq(Tree)]
    BY Element
  <2>2. gens[i].id \in STRING /\ gens[i].iter \in Seq(Tree) /\ gens[i].ifs \in Seq(Tree)
    BY <2>1
  <2>3. Acts(Generator(exec, gens[i]), GeneratorMeaning(mean, ns, gens[i]), ns)
    BY <2>2, GeneratorActs
  <2> QED
    BY <2>3
<1>2. f = [i \in DOMAIN gens |-> f[i]]
  OBVIOUS
<1>3. gens \in Seq([id : STRING, iter : Seq(Tree), ifs : Seq(Tree)])
  OBVIOUS
<1> HIDE DEF f, m, gens
<1>4. Does(s, InTurn(f, s), AllOf(gens, m))
  BY <1>1, <1>2, <1>3, InTurnDoes
<1>5. Does(s, ExecAll(exec, InTurn(f, s), n.value), Then(AllOf(gens, m), All(mean, ns, n.value)))
  BY <1>4, ThenBlockDoes
<1>6. Does(s, Close(s, ExecAll(exec, InTurn(f, s), n.value)),
           Local(Then(AllOf(gens, m), All(mean, ns, n.value))))
  BY <1>5, CloseDoes
<1> QED
  BY <1>6 DEF Comprehension, ComprehensionMeaning, f, m, gens

LEMMA YieldingFields ==
  /\ Yielding.needs = {} /\ Yielding.gives = {} /\ Yielding.masked = {}
  /\ Yielding.generators = {} /\ Yielding.yields = TRUE
  /\ Yielding.defs = FALSE /\ Yielding.again = TRUE /\ Yielding.plain = TRUE
BY DEF Yielding, Nothing

LEMMA YieldDoes ==
  ASSUME NEW exec, NEW mean, Understands(exec, mean), NEW s \in State, NEW ns, s.namespaces = ns,
         NEW n, n.value \in Seq(Tree)
  PROVE  Does(s, Yield(exec, s, n), Then(Yielding, All(mean, ns, n.value)))
<1> DEFINE c == [s.contexts EXCEPT ![Len(s.contexts)] = TRUE]
           t == [s EXCEPT !.contexts[Len(s.contexts)] = TRUE]
<1>1. s.contexts \in Seq(BOOLEAN) /\ Len(s.contexts) \in Nat \ {0}
  BY StateFields
<1>2. t = [s EXCEPT !.contexts = c]
  BY DEF State
<1>3. Keeps(s, t)
  BY YieldStateKeeps
<1>4. c[Len(c)] = TRUE
  BY <1>1
<1> HIDE DEF c, t
<1>5. /\ t.bindings = s.bindings /\ t.contexts = c
      /\ t.errors = s.errors /\ t.generators = s.generators /\ t.cached = s.cached
  BY <1>2 DEF State
<1>6. Names(t) = Names(s) /\ Flag(t)
  BY <1>4, <1>5 DEF Names, Flag, Last
<1>7. Means(s, t, Yielding)
  BY <1>5, <1>6, YieldingFields DEF Means, AtLeast, AtMost, Needed
<1>8. Enters(s, t, Yielding)
  <2>1. Len(s.bindings) \in Nat
    BY StateFields
  <2> QED
    BY <1>5, <2>1 DEF Enters
<1>9. Does(s, t, Yielding)
  BY <1>3, <1>7, <1>8 DEF Does
<1>10. Does(s, ExecAll(exec, t, n.value), Then(Yielding, All(mean, ns, n.value)))
  BY <1>9, ThenBlockDoes
<1> QED
  BY <1>10 DEF Yield, t

-----------------------------------------------------------------------------
(* The meaning of simple statements                                        *)

LEMMA SimpleDoes ==
  ASSUME NEW exec, NEW mean, Understands(exec, mean), NEW s \in State, NEW ns, s.namespaces = ns,
         NEW n, n.id \in STRING, n.value \in Seq(Tree)
  PROVE  /\ Does(s, NamedExpr(exec, s, n), Then(All(mean, ns, n.value), Giving(<<n.id>>)))
         /\ Does(s, Assign(exec, s, n), Then(All(mean, ns, n.value), Giving(<<n.id>>)))
         /\ Does(s, AugAssign(exec, s, n), Then(Using(n.id), All(mean, ns, n.value)))
<1>1. Does(s, ExecAll(exec, s, n.value), All(mean, ns, n.value))
  BY BlockDoes
<1>2. Does(s, Bind(ExecAll(exec, s, n.value), n.id), Then(All(mean, ns, n.value), Giving(<<n.id>>)))
  BY <1>1, ThenBindDoes
<1>3. Does(s, Load(s, n.id), Using(n.id))
  BY LoadDoes
<1>4. Does(s, ExecAll(exec, Load(s, n.id), n.value), Then(Using(n.id), All(mean, ns, n.value)))
  BY <1>3, ThenBlockDoes
<1> QED
  BY <1>2, <1>4 DEF NamedExpr, Assign, AugAssign

LEMMA YieldFromDoes ==
  ASSUME NEW exec, NEW mean, Understands(exec, mean), NEW s \in State, NEW ns, s.namespaces = ns,
         NEW n, n.value \in Seq(Tree)
  PROVE  Does(s, ExecAll(exec, s, n.value), YieldFromMeaning(mean, ns, n))
<1> DEFINE p == All(mean, ns, n.value)
<1>1. Does(s, ExecAll(exec, s, n.value), p)
  BY BlockDoes
<1>2. YieldFromMeaning(mean, ns, n) = Provided(Then(Yielding, p), FALSE)
  BY DEF YieldFromMeaning
<1> HIDE DEF p
<1>3. p.gives \subseteq Then(Yielding, p).gives /\ p.masked \subseteq Then(Yielding, p).masked
  BY ThenFields
<1>4. Within(p, Provided(Then(Yielding, p), FALSE))
  BY <1>3, ProvidedWithin
<1> QED
  BY <1>1, <1>2, <1>4, DoesWithin

\* More errors are no harm where nothing is promised.
LEMMA ReportDoes ==
  ASSUME NEW s \in State, NEW t, NEW m, Does(s, t, m), NEW ids, ids \subseteq STRING,
         NEW u, u = [t EXCEPT !.errors = @ \union ids],
         NEW w, ~w.plain, m.gives \subseteq w.gives, m.masked \subseteq w.masked
  PROVE  Does(s, u, w)
<1>1. t \in State
  BY DoesState
<1>2. Keeps(s, u)
  BY ReportKeeps DEF Does
<1>3. /\ u.bindings = t.bindings /\ u.contexts = t.contexts /\ t.errors \subseteq u.errors
      /\ u.generators = t.generators /\ u.cached = t.cached
  BY <1>1 DEF State
<1>4. Names(u) = Names(t) /\ Flag(u) = Flag(t)
  BY <1>3 DEF Names, Flag
<1>5. Means(s, t, m) /\ Enters(s, t, m)
  BY DEF Does
<1>6. Means(s, u, w)
  BY <1>3, <1>4, <1>5 DEF Means
<1>7. Enters(s, u, w)
  BY <1>3, <1>5 DEF Enters
<1> QED
  BY <1>2, <1>6, <1>7 DEF Does

LEMMA SetAttributeDoes ==
  ASSUME NEW exec, NEW mean, Understands(exec, mean), NEW s \in State, NEW ns, s.namespaces = ns,
         NEW n, n.id \in STRING, n.unknown \in SUBSET STRING, n.value \in Seq(Tree)
  PROVE  Does(s, SetAttribute(exec, s, n), SetAttributeMeaning(mean, ns, n))
<1> DEFINE p == All(mean, ns, n.value)
           q == Using(n.id)
           m == Then(p, q)
           c == n.unknown = {}
           w == Provided(m, c)
           t == Load(ExecAll(exec, s, n.value), n.id)
           u == [t EXCEPT !.errors = @ \union n.unknown]
<1>1. Does(s, ExecAll(exec, s, n.value), p)
  BY BlockDoes
<1>2. Does(s, t, m)
  BY <1>1, ThenLoadDoes
<1>3. SetAttributeMeaning(mean, ns, n) = w
  BY DEF SetAttributeMeaning
<1>4. SetAttribute(exec, s, n) = u
  BY DEF SetAttribute
<1> HIDE DEF p, q, c, t
<1>5. w.gives = m.gives /\ w.masked = m.masked /\ w.plain = (m.plain /\ c)
  BY ProvidedFields
<1>6. c => Within(m, w)
  <2>1. Within(m, m) /\ m.gives \subseteq m.gives /\ m.masked \subseteq m.masked
    BY WithinSelf
  <2> QED
    BY <2>1, ProvidedWithin
<1> HIDE DEF m, w
<1>7. CASE c
  <2>1. t \in State
    BY <1>2, DoesState
  <2>2. u = t
    BY <1>7, <2>1 DEF State, c
  <2> QED
    BY <1>2, <1>3, <1>4, <1>6, <1>7, <2>2, DoesWithin
<1>8. CASE ~c
  BY <1>2, <1>3, <1>4, <1>5, <1>8, ReportDoes
<1> QED
  BY <1>7, <1>8

LEMMA AllOfNone == ASSUME NEW m PROVE AllOf(<<>>, m) = Nothing
<1>1. Len(<<>>) = 0
  OBVIOUS
<1>2. PICK a : Accumulates(a, 0, m) /\ AllOf(<<>>, m) = a[0]
  BY <1>1, AllOfUnfolds
<1> QED
  BY <1>2 DEF Accumulates

\* A part that is not visited, when nothing is there.
LEMMA UnvisitedWithin ==
  ASSUME NEW p, NEW x, NEW c, c => x = Nothing
  PROVE  Within(p, Provided(Then(p, x), c))
<1> DEFINE m == Then(p, x)
<1>1. /\ m.needs = p.needs \union {id \in x.needs : <<id>> \notin p.gives}
      /\ m.gives = p.gives \union x.gives /\ m.masked = p.masked \union x.masked
      /\ m.generators = p.generators \union x.generators
      /\ m.yields = (p.yields \/ x.yields) /\ m.defs = (p.defs \/ x.defs)
      /\ m.again = (p.again /\ x.again) /\ m.plain = (p.plain /\ x.plain)
  BY ThenFields
<1>2. p.gives \subseteq m.gives /\ p.masked \subseteq m.masked
  BY <1>1
<1>3. ASSUME c PROVE Within(p, m)
  <2>1. /\ x.needs = {} /\ x.gives = {} /\ x.generators = {}
        /\ x.yields = FALSE /\ x.defs = FALSE /\ x.again = TRUE /\ x.plain = TRUE
    BY <1>3, NothingFields
  <2> HIDE DEF m
  <2>2. m.needs = p.needs /\ m.gives = p.gives /\ m.generators = p.generators
    BY <1>1, <2>1
  <2> QED
    BY <1>1, <1>2, <2>1, <2>2 DEF Within
<1>4. c => Within(p, Then(p, x))
  BY <1>3
<1>5. p.gives \subseteq Then(p, x).gives /\ p.masked \subseteq Then(p, x).masked
  BY <1>2
<1> HIDE DEF m
<1> QED
  BY <1>4, <1>5, ProvidedWithin

LEMMA UnpackDoes ==
  ASSUME NEW exec, NEW mean, Understands(exec, mean), NEW s \in State, NEW ns, s.namespaces = ns,
         NEW n, n.value \in Seq(Tree)
  PROVE  Does(s, Unpack(exec, s, n), UnpackMeaning(mean, ns, n))
<1> DEFINE p == All(mean, ns, n.value)
           x == GivingAll(n.ids)
           c == n.ids = <<>>
<1>1. Does(s, ExecAll(exec, s, n.value), p)
  BY BlockDoes
<1>2. c => x = Nothing
  BY AllOfNone DEF GivingAll
<1>3. UnpackMeaning(mean, ns, n) = Provided(Then(p, x), c)
  BY DEF UnpackMeaning
<1> HIDE DEF p, x, c
<1>4. Within(p, Provided(Then(p, x), c))
  BY <1>2, UnvisitedWithin
<1>5. Does(s, ExecAll(exec, s, n.value), Provided(Then(p, x), c))
  BY <1>1, <1>4, DoesWithin
<1> QED
  BY <1>3, <1>5 DEF Unpack

LEMMA GlobalDoes ==
  ASSUME NEW s \in State, NEW n, n.ids \in Seq(STRING)
  PROVE  Does(s, Global(s, n), UsingAll(n.ids))
<1> DEFINE ids == n.ids
           g(i) == [t \in State |-> Load(t, ids[i])]
           f == [i \in DOMAIN ids |-> g(i)]
           m == [i \in DOMAIN ids |-> Using(ids[i])]
<1>1. ASSUME NEW i \in DOMAIN ids PROVE Acts(f[i], m[i], s.namespaces)
  <2>1. ids[i] \in STRING
    BY Element
  <2>2. \A t \in State : g(i)[t] = Load(t, ids[i])
    OBVIOUS
  <2>3. \A t \in State : Does(t, g(i)[t], Using(ids[i])) /\ Keeps(t, g(i)[t])
    BY <2>1, <2>2, LoadDoes DEF Does
  <2>4. g(i) = [t \in State |-> g(i)[t]]
    OBVIOUS
  <2> HIDE DEF g
  <2>5. Step(g(i))
    BY <2>3, <2>4, IsStep
  <2>6. Acts(g(i), Using(ids[i]), s.namespaces)
    BY <2>3, <2>4, <2>5, IsAct
  <2> QED
    BY <2>6
<1>2. f = [i \in DOMAIN ids |-> f[i]]
  OBVIOUS
<1>3. ids \in Seq(STRING)
  OBVIOUS
<1>4. Global(s, n) = InTurn(f, s) /\ UsingAll(n.ids) = AllOf(ids, m)
  BY DEF Global, UsingAll
<1> HIDE DEF f, m, ids
<1>5. Does(s, InTurn(f, s), AllOf(ids, m))
  BY <1>1, <1>2, <1>3, InTurnDoes
<1> QED
  BY <1>4, <1>5

LEMMA ImportDoes ==
  ASSUME NEW s \in State, NEW n, n.ids \in Seq(STRING)
  PROVE  Does(s, Import(s, n), GivingAll(n.ids))
<1> DEFINE ids == n.ids
           g(i) == [t \in State |-> Bind(t, ids[i])]
           f == [i \in DOMAIN ids |-> g(i)]
           m == [i \in DOMAIN ids |-> Giving(<<ids[i]>>)]
<1>1. ASSUME NEW i \in DOMAIN ids PROVE Acts(f[i], m[i], s.namespaces)
  <2>1. ids[i] \in STRING
    BY Element
  <2>2. \A t \in State : g(i)[t] = Bind(t, ids[i])
    OBVIOUS
  <2>3. \A t \in State : Does(t, g(i)[t], Giving(<<ids[i]>>)) /\ Keeps(t, g(i)[t])
    BY <2>1, <2>2, BindDoes DEF Does
  <2>4. g(i) = [t \in State |-> g(i)[t]]
    OBVIOUS
  <2> HIDE DEF g
  <2>5. Step(g(i))
    BY <2>3, <2>4, IsStep
  <2>6. Acts(g(i), Giving(<<ids[i]>>), s.namespaces)
    BY <2>3, <2>4, <2>5, IsAct
  <2> QED
    BY <2>6
<1>2. f = [i \in DOMAIN ids |-> f[i]]
  OBVIOUS
<1>3. ids \in Seq(STRING)
  OBVIOUS
<1>4. Import(s, n) = InTurn(f, s) /\ GivingAll(n.ids) = AllOf(ids, m)
  BY DEF Import, GivingAll
<1> HIDE DEF f, m, ids
<1>5. Does(s, InTurn(f, s), AllOf(ids, m))
  BY <1>1, <1>2, <1>3, InTurnDoes
<1> QED
  BY <1>4, <1>5

-----------------------------------------------------------------------------
(* The meaning of compound statements                                      *)

LEMMA ForDoes ==
  ASSUME NEW exec, NEW mean, Understands(exec, mean), NEW s \in State, NEW ns, s.namespaces = ns,
         NEW n, n.id \in STRING, n.iter \in Seq(Tree), n.body \in Seq(Tree), n.orelse \in Seq(Tree)
  PROVE  Does(s, For(exec, s, n), ForMeaning(mean, ns, n))
<1> DEFINE t == Bind(ExecAll(exec, s, n.iter), n.id)
           p == Then(All(mean, ns, n.iter), Giving(<<n.id>>))
<1>1. Does(s, ExecAll(exec, s, n.iter), All(mean, ns, n.iter))
  BY BlockDoes
<1>2. Does(s, t, p)
  BY <1>1, ThenBindDoes
<1> HIDE DEF t, p
<1>3. Does(s, ExecAll(exec, t, n.body), Then(p, All(mean, ns, n.body)))
  BY <1>2, ThenBlockDoes
<1>4. Does(s, ExecAll(exec, ExecAll(exec, t, n.body), n.orelse),
           Then(Then(p, All(mean, ns, n.body)), All(mean, ns, n.orelse)))
  BY <1>3, ThenBlockDoes
<1> QED
  BY <1>4 DEF For, ForMeaning, t, p

LEMMA ClausesDoes ==
  ASSUME NEW exec, NEW mean, Understands(exec, mean), NEW s \in State, NEW ns, s.namespaces = ns,
         NEW test \in Seq(Tree), NEW body \in Seq(Tree)
  PROVE  Does(s, ExecAll(exec, ExecAll(exec, s, test), body), Clauses(mean, ns, test, body))
<1>1. Does(s, ExecAll(exec, s, test), All(mean, ns, test))
  BY BlockDoes
<1>2. Does(s, ExecAll(exec, ExecAll(exec, s, test), body),
           Then(All(mean, ns, test), All(mean, ns, body)))
  BY <1>1, ThenBlockDoes
<1> QED
  BY <1>2 DEF Clauses

LEMMA WhileDoes ==
  ASSUME NEW exec, NEW mean, Understands(exec, mean), NEW s \in State, NEW ns, s.namespaces = ns,
         NEW n, n.test \in Seq(Tree), n.body \in Seq(Tree), n.orelse \in Seq(Tree)
  PROVE  Does(s, While(exec, s, n), WhileMeaning(mean, ns, n))
<1>1. Does(s, ExecAll(exec, ExecAll(exec, s, n.test), n.body), Clauses(mean, ns, n.test, n.body))
  BY ClausesDoes
<1>2. Does(s, ExecAll(exec, ExecAll(exec, ExecAll(exec, s, n.test), n.body), n.orelse),
           Then(Clauses(mean, ns, n.test, n.body), All(mean, ns, n.orelse)))
  BY <1>1, ThenBlockDoes
<1> QED
  BY <1>2 DEF While, WhileMeaning

LEMMA BranchActs ==
  ASSUME NEW exec, NEW mean, Understands(exec, mean), NEW ns,
         NEW b, b.test \in Seq(Tree), b.body \in Seq(Tree)
  PROVE  Acts(Branch(exec, b), Clauses(mean, ns, b.test, b.body), ns)
<1> DEFINE f == Branch(exec, b)
<1>1. \A t \in State : f[t] = ExecAll(exec, ExecAll(exec, t, b.test), b.body)
  BY DEF Branch
<1>2. \A t \in State : t.namespaces = ns => Does(t, f[t], Clauses(mean, ns, b.test, b.body))
  BY <1>1, ClausesDoes
<1>3. Step(f)
  BY BranchStep DEF Understands
<1>4. f = [t \in State |-> f[t]]
  BY DEF Branch
<1> HIDE DEF f
<1>5. Acts(f, Clauses(mean, ns, b.test, b.body), ns)
  BY <1>2, <1>3, <1>4, IsAct
<1> QED
  BY <1>5 DEF f

\* One visit, then those of a sequence of clauses.
LEMMA ThenInTurnDoes ==
  ASSUME NEW s \in State, NEW t, NEW p, Does(s, t, p), NEW T, NEW seq \in Seq(T),
         NEW f, f = [i \in DOMAIN seq |-> f[i]], NEW m,
         \A i \in DOMAIN seq : Acts(f[i], m[i], s.namespaces)
  PROVE  Does(s, InTurn(f, t), Then(p, AllOf(seq, m)))
<1>1. t \in State /\ t.namespaces = s.namespaces
  BY DoesState
<1>2. \A i \in DOMAIN seq : Acts(f[i], m[i], t.namespaces)
  BY <1>1
<1>3. Does(t, InTurn(f, t), AllOf(seq, m))
  BY <1>1, <1>2, InTurnDoes
<1> QED
  BY <1>3, DoesOn

LEMMA IfDoes ==
  ASSUME NEW exec, NEW mean, Understands(exec, mean), NEW s \in State, NEW ns, s.namespaces = ns,
         NEW n, n.test \in Seq(Tree), n.body \in Seq(Tree),
         n.elifs \in Seq([test : Seq(Tree), body : Seq(Tree)])
  PROVE  Does(s, If(exec, s, n), IfMeaning(mean, ns, n))
<1> DEFINE elifs == n.elifs
           t == Branch(exec, n)[s]
           first == Clauses(mean, ns, n.test, n.body)
           f == [i \in DOMAIN elifs |-> Branch(exec, elifs[i])]
           m == [i \in DOMAIN elifs |-> Clauses(mean, ns, elifs[i].test, elifs[i].body)]
           p == Then(first, AllOf(elifs, m))
           x == All(mean, ns, n.orelse)
           c == n.orelse = <<>>
<1>1. ASSUME NEW i \in DOMAIN elifs PROVE Acts(f[i], m[i], ns)
  <2>1. elifs[i] \in [test : Seq(Tree), body : Seq(Tree)]
    BY Element
  <2>2. elifs[i].test \in Seq(Tree) /\ elifs[i].body \in Seq(Tree)
    BY <2>1
  <2>3. Acts(Branch(exec, elifs[i]), Clauses(mean, ns, elifs[i].test, elifs[i].body), ns)
    BY <2>2, BranchActs
  <2> QED
    BY <2>3
<1>2. f = [i \in DOMAIN elifs |-> f[i]]
  OBVIOUS
<1>3. elifs \in Seq([test : Seq(Tree), body : Seq(Tree)])
  OBVIOUS
<1>4. If(exec, s, n) = InTurn(f, t)
  BY DEF If
<1>5. IfMeaning(mean, ns, n) = Provided(Then(p, x), c)
  BY DEF IfMeaning
<1>6. Does(s, t, first)
  BY BranchActs DEF Acts
<1>7. c => x = Nothing
  BY AllOfNone DEF All
<1> HIDE DEF f, m, elifs, t, first
<1>8. Does(s, InTurn(f, t), p)
  BY <1>1, <1>2, <1>3, <1>6, ThenInTurnDoes
<1> HIDE DEF p, x, c
<1>9. Within(p, Provided(Then(p, x), c))
  BY <1>7, UnvisitedWithin
<1>10. Does(s, InTurn(f, t), Provided(Then(p, x), c))
  BY <1>8, <1>9, DoesWithin
<1> QED
  BY <1>4, <1>5, <1>10

\* The same of a part between two others.
LEMMA BetweenWithin ==
  ASSUME NEW p, NEW x, NEW q, NEW c, c => x = Nothing
  PROVE  Within(Then(p, q), Provided(Then(Then(p, x), q), c))
<1> DEFINE y == Then(p, x)
           r == Then(p, q)
           m == Then(y, q)
<1>1. /\ y.needs = p.needs \union {id \in x.needs : <<id>> \notin p.gives}
      /\ y.gives = p.gives \union x.gives /\ y.masked = p.masked \union x.masked
      /\ y.generators = p.generators \union x.generators
      /\ y.yields = (p.yields \/ x.yields) /\ y.defs = (p.defs \/ x.defs)
      /\ y.again = (p.again /\ x.again) /\ y.plain = (p.plain /\ x.plain)
  BY ThenFields
<1>2. /\ r.needs = p.needs \union {id \in q.needs : <<id>> \notin p.gives}
      /\ r.gives = p.gives \union q.gives /\ r.masked = p.masked \union q.masked
      /\ r.generators = p.generators \union q.generators
      /\ r.yields = (p.yields \/ q.yields) /\ r.defs = (p.defs \/ q.defs)
      /\ r.again = (p.again /\ q.again) /\ r.plain = (p.plain /\ q.plain)
  BY ThenFields
<1>3. /\ m.needs = y.needs \union {id \in q.needs : <<id>> \notin y.gives}
      /\ m.gives = y.gives \union q.gives /\ m.masked = y.masked \union q.masked
      /\ m.generators = y.generators \union q.generators
      /\ m.yields = (y.yields \/ q.yields) /\ m.defs = (y.defs \/ q.defs)
      /\ m.again = (y.again /\ q.again) /\ m.plain = (y.plain /\ q.plain)
  BY ThenFields
<1> HIDE DEF y, r, m
<1>4. r.gives \subseteq m.gives /\ r.masked \subseteq m.masked
  BY <1>1, <1>2, <1>3
<1>5. ASSUME c PROVE Within(r, m)
  <2>1. /\ x.needs = {} /\ x.gives = {} /\ x.generators = {}
        /\ x.yields = FALSE /\ x.defs = FALSE /\ x.again = TRUE /\ x.plain = TRUE
    BY <1>5, NothingFields
  <2>2. y.needs = p.needs /\ y.gives = p.gives /\ y.generators = p.generators
    BY <1>1, <2>1
  <2>3. r.needs = m.needs /\ r.gives = m.gives /\ r.generators = m.generators
    BY <1>2, <1>3, <2>2
  <2> QED
    BY <1>1, <1>2, <1>3, <1>4, <2>1, <2>3 DEF Within
<1>6. c => Within(r, Then(y, q))
  BY <1>5 DEF m
<1>7. r.gives \subseteq Then(y, q).gives /\ r.masked \subseteq Then(y, q).masked
  BY <1>4 DEF m
<1>8. Within(r, Provided(Then(y, q), c))
  BY <1>6, <1>7, ProvidedWithin
<1> QED
  BY <1>8 DEF y, r

LEMMA WithDoes ==
  ASSUME NEW exec, NEW mean, Understands(exec, mean), NEW s \in State, NEW ns, s.namespaces = ns,
         NEW n, n.value \in Seq(Tree), n.body \in Seq(Tree)
  PROVE  Does(s, With(exec, s, n), WithMeaning(mean, ns, n))
<1> DEFINE p == All(mean, ns, n.value)
           q == All(mean, ns, n.body)
           x == Naming(n.id)
           c == n.id = ""
           t == ExecAll(exec, ExecAll(exec, s, n.value), n.body)
<1>1. Does(s, ExecAll(exec, s, n.value), p)
  BY BlockDoes
<1>2. Does(s, t, Then(p, q))
  BY <1>1, ThenBlockDoes
<1>3. x = IF c THEN Nothing ELSE Giving(<<n.id>>)
  BY DEF Naming
<1>4. WithMeaning(mean, ns, n) = Provided(Then(Then(p, x), q), c)
  BY DEF WithMeaning
<1>5. With(exec, s, n) = t
  BY DEF With
<1> HIDE DEF p, q, x, c, t
<1>6. Within(Then(p, q), Provided(Then(Then(p, x), q), c))
  BY <1>3, BetweenWithin
<1>7. Does(s, t, Provided(Then(Then(p, x), q), c))
  BY <1>2, <1>6, DoesWithin
<1> QED
  BY <1>4, <1>5, <1>7

LEMMA HandlerActs ==
  ASSUME NEW exec, NEW mean, Understands(exec, mean), NEW ns,
         NEW h, h.test \in Seq(Tree), h.id \in STRING, h.body \in Seq(Tree)
  PROVE  Acts(Handler(exec, h), HandlerMeaning(mean, ns, h), ns)
<1> DEFINE f == Handler(exec, h)
           w == HandlerMeaning(mean, ns, h)
<1>1. ASSUME NEW t \in State, t.namespaces = ns PROVE Does(t, f[t], w)
  <2> DEFINE tested == ExecAll(exec, t, h.test)
             unnamed == h.id = ""
             bound == IF unnamed THEN tested ELSE Bind(tested, h.id)
             p == All(mean, ns, h.test)
             x == Naming(h.id)
  <2>1. f[t] = Close(t, ExecAll(exec, bound, h.body))
    BY DEF Handler
  <2>2. w = Local(Then(Then(p, x), All(mean, ns, h.body)))
    BY DEF HandlerMeaning
  <2>3. x = IF unnamed THEN Nothing ELSE Giving(<<h.id>>)
    BY DEF Naming
  <2>4. Does(t, tested, p)
    BY <1>1, BlockDoes
  <2> HIDE DEF tested, unnamed, p, x
  <2>5. Does(t, bound, Then(p, x))
    <3>1. CASE unnamed
      <4>1. tested \in State
        BY <2>4, DoesState
      <4>2. Does(tested, tested, Nothing)
        BY <4>1, DoesNothing
      <4>3. Does(t, tested, Then(p, Nothing))
        BY <2>4, <4>2, DoesOn
      <4> QED
        BY <2>3, <3>1, <4>3
    <3>2. CASE ~unnamed
      <4>1. Does(t, Bind(tested, h.id), Then(p, Giving(<<h.id>>)))
        BY <2>4, ThenBindDoes
      <4> QED
        BY <2>3, <3>2, <4>1
    <3> QED
      BY <3>1, <3>2
  <2> HIDE DEF bound
  <2>6. Does(t, ExecAll(exec, bound, h.body), Then(Then(p, x), All(mean, ns, h.body)))
    BY <1>1, <2>5, ThenBlockDoes
  <2> HIDE DEF f, w
  <2> QED
    BY <2>1, <2>2, <2>6, CloseDoes
<1>2. Step(f)
  BY HandlerStep DEF Understands
<1>3. f = [t \in State |-> f[t]]
  BY DEF Handler
<1> HIDE DEF f, w
<1>4. Acts(f, w, ns)
  BY <1>1, <1>2, <1>3, IsAct
<1> QED
  BY <1>4 DEF f, w

\* A second visit, that passes over functions, of what was just visited.
LEMMA AgainMeans ==
  ASSUME NEW s, NEW once, NEW known, NEW again, NEW left, NEW p, NEW q, NEW w,
         Means(s, once, Then(p, q)), Means(known, again, q),
         SameButCached(once, known), known.cached = TRUE,
         SameButCached(again, left), left.cached = s.cached,
         w = Provided(Then(p, q), q.again)
  PROVE  Means(s, left, w)
<1> DEFINE m == Then(p, q)
<1>1. /\ m.needs = p.needs \union {id \in q.needs : <<id>> \notin p.gives}
      /\ m.gives = p.gives \union q.gives /\ m.generators = p.generators \union q.generators
      /\ m.yields = (p.yields \/ q.yields) /\ m.plain = (p.plain /\ q.plain)
  BY ThenFields
<1>2. /\ w.needs = m.needs /\ w.gives = m.gives
      /\ w.generators = m.generators /\ w.yields = m.yields /\ w.defs = m.defs
      /\ w.again = m.again /\ w.plain = (m.plain /\ q.again)
  BY ProvidedFields
<1> HIDE DEF m
<1>3. Means(s, once, m)
  BY DEF m
<1>4. Names(known) = Names(once) /\ Names(left) = Names(again)
  BY DEF SameButCached, Names
<1>5. Flag(known) = Flag(once) /\ Flag(left) = Flag(again)
  BY DEF SameButCached, Flag
<1>6. /\ known.errors = once.errors /\ known.generators = once.generators
      /\ left.errors = again.errors /\ left.generators = again.generators
  BY DEF SameButCached
<1>7. /\ Names(s) \subseteq Names(once) /\ Names(once) \subseteq Names(s) \union m.gives
      /\ s.errors \subseteq once.errors /\ s.generators \subseteq once.generators
      /\ (Flag(s) => Flag(once)) /\ once.cached = s.cached
  BY <1>3 DEF Means
<1>8. /\ Names(once) \subseteq Names(left) /\ Names(left) \subseteq Names(once) \union q.gives
      /\ once.errors \subseteq left.errors /\ once.generators \subseteq left.generators
      /\ (Flag(once) => Flag(left))
  BY <1>4, <1>5, <1>6 DEF Means
<1>9. Needed(s, w) = Needed(s, m)
  BY <1>2 DEF Needed
<1>10. ASSUME w.plain, s.cached => ~w.defs PROVE AtLeast(s, left, w)
  <2>1. AtLeast(s, once, m)
    BY <1>2, <1>3, <1>10 DEF Means
  <2> QED
    BY <1>2, <1>8, <1>9, <2>1 DEF AtLeast
<1>11. ASSUME w.plain, s.cached => ~w.defs \/ (w.again /\ w.gives \subseteq Names(s))
       PROVE  AtMost(s, left, w)
  <2>1. AtMost(s, once, m)
    BY <1>2, <1>3, <1>11 DEF Means
  <2>2. m.gives \subseteq Names(once)
    <3>1. CASE s.cached => ~w.defs
      <4>1. AtLeast(s, once, m)
        BY <1>2, <1>3, <1>11, <3>1 DEF Means
      <4> QED
        BY <4>1 DEF AtLeast
    <3>2. CASE w.gives \subseteq Names(s)
      BY <1>2, <1>7, <3>2
    <3> QED
      BY <1>11, <3>1, <3>2
  <2>3. q.plain /\ q.again /\ q.gives \subseteq Names(known)
    BY <1>1, <1>2, <1>4, <1>11, <2>2
  <2>4. AtMost(known, again, q)
    BY <2>3 DEF Means
  <2>5. Needed(known, q) \subseteq Needed(s, m)
    BY <1>1, <1>4, <1>7, <2>2 DEF Needed
  <2>6. AtMost(once, left, q) /\ Needed(once, q) = Needed(known, q)
    BY <1>4, <1>5, <1>6, <2>4 DEF AtMost, Needed
  <2> QED
    BY <1>1, <1>2, <1>9, <2>1, <2>5, <2>6 DEF AtMost
<1>12. Names(s) \subseteq Names(left) /\ Names(left) \subseteq Names(s) \union w.gives
  BY <1>1, <1>2, <1>7, <1>8
<1> QED
  BY <1>7, <1>8, <1>10, <1>11, <1>12 DEF Means

LEMMA TryDoes ==
  ASSUME NEW exec, NEW mean, Understands(exec, mean), NEW s \in State, NEW ns, s.namespaces = ns,
         NEW n, n.body \in Seq(Tree), n.orelse \in Seq(Tree),
         n.handlers \in Seq([test : Seq(Tree), id : STRING, body : Seq(Tree)])
  PROVE  Does(s, Try(exec, s, n), TryMeaning(mean, ns, n))
<1> DEFINE handlers == n.handlers
           f == [i \in DOMAIN handlers |-> Handler(exec, handlers[i])]
           m == [i \in DOMAIN handlers |-> HandlerMeaning(mean, ns, handlers[i])]
           handled == InTurn(f, ExecAll(exec, s, n.body))
           once    == ExecAll(exec, handled, n.orelse)
           known   == [once EXCEPT !.cached = TRUE]
           again   == ExecAll(exec, known, n.orelse)
           left    == [again EXCEPT !.cached = s.cached]
           p == Then(All(mean, ns, n.body), AllOf(handlers, m))
           q == All(mean, ns, n.orelse)
           x == All(mean, ns, n.finalbody)
           none == n.finalbody = <<>>
           w == TryMeaning(mean, ns, n)
<1>1. ASSUME NEW i \in DOMAIN handlers PROVE Acts(f[i], m[i], ns)
  <2>1. handlers[i] \in [test : Seq(Tree), id : STRING, body : Seq(Tree)]
    BY Element
  <2>2. /\ handlers[i].test \in Seq(Tree) /\ handlers[i].id \in STRING
        /\ handlers[i].body \in Seq(Tree)
    BY <2>1
  <2>3. Acts(Handler(exec, handlers[i]), HandlerMeaning(mean, ns, handlers[i]), ns)
    BY <2>2, HandlerActs
  <2> QED
    BY <2>3
<1>2. f = [i \in DOMAIN handlers |-> f[i]]
  OBVIOUS
<1>3. handlers \in Seq([test : Seq(Tree), id : STRING, body : Seq(Tree)])
  OBVIOUS
<1>4. Try(exec, s, n) = left
  BY DEF Try
<1>5. w = Provided(Then(Then(p, q), x), q.again /\ none)
  BY DEF TryMeaning
<1>6. none => x = Nothing
  BY AllOfNone DEF All
<1>7. Keeps(s, Try(exec, s, n))
  BY TryKeeps DEF Understands
<1> HIDE DEF f, m, handlers, w, x, none
<1>8. Does(s, ExecAll(exec, s, n.body), All(mean, ns, n.body))
  BY BlockDoes
<1>9. Does(s, handled, p)
  BY <1>1, <1>2, <1>3, <1>8, ThenInTurnDoes
<1> HIDE DEF handled, p
<1>10. Does(s, once, Then(p, q))
  BY <1>9, ThenBlockDoes
<1> HIDE DEF once
<1>11. once \in State /\ once.namespaces = ns
  BY <1>10, DoesState
<1>12. known \in State /\ known.cached = TRUE /\ SameButCached(once, known)
  BY <1>11 DEF State, SameButCached
<1> HIDE DEF known
<1>13. Does(known, again, q)
  <2>1. known.namespaces = ns
    BY <1>11, <1>12 DEF SameButCached
  <2> QED
    BY <1>12, <2>1, BlockDoes
<1> HIDE DEF again, q
<1>14. again \in State /\ s.cached \in BOOLEAN
  BY <1>13, DoesState, StateFields
<1>15. left \in State /\ left.cached = s.cached /\ SameButCached(again, left)
  BY <1>14 DEF State, SameButCached
<1> HIDE DEF left
<1> DEFINE r == Provided(Then(p, q), q.again)
<1>16. Means(s, left, r)
  BY <1>10, <1>12, <1>13, <1>15, AgainMeans DEF Does
<1>17. r.gives = p.gives \union q.gives /\ r.masked = p.masked \union q.masked
  <2>1. r.gives = Then(p, q).gives /\ r.masked = Then(p, q).masked
    BY ProvidedFields
  <2> HIDE DEF r
  <2> QED
    BY <2>1, ThenFields
<1>18. Enters(s, left, r)
  <2>1. Enters(s, once, Then(p, q)) /\ Keeps(s, once)
    BY <1>10 DEF Does
  <2>2. Enters(known, again, q) /\ Keeps(known, again)
    BY <1>13 DEF Does
  <2>3. Enters(once, left, q)
    BY <1>12, <1>15, <2>2 DEF Enters, SameButCached
  <2>4. Grows(once.bindings, left.bindings, once.namespaces)
    BY <1>12, <1>15, <2>2 DEF Keeps, SameButCached
  <2>5. Len(s.bindings) <= Len(once.bindings)
    BY <2>1 DEF Keeps, Grows
  <2>6. Enters(s, left, Then(Then(p, q), q))
    BY <1>11, <1>15, <2>1, <2>3, <2>4, <2>5, EntersOn
  <2>7. /\ Then(Then(p, q), q).gives = (p.gives \union q.gives) \union q.gives
        /\ Then(Then(p, q), q).masked = (p.masked \union q.masked) \union q.masked
    BY ThenFields
  <2>8. Then(Then(p, q), q).gives = r.gives /\ Then(Then(p, q), q).masked = r.masked
    BY <1>17, <2>7
  <2> HIDE DEF r
  <2> QED
    BY <2>6, <2>8 DEF Enters
<1>19. Does(s, left, r)
  BY <1>4, <1>7, <1>16, <1>18 DEF Does
<1>20. Within(r, w)
  <2> DEFINE y == Then(p, q)
             z == Then(y, x)
             c == q.again /\ none
  <2>1. /\ r.needs = y.needs /\ r.gives = y.gives /\ r.masked = y.masked
        /\ r.generators = y.generators /\ r.yields = y.yields /\ r.defs = y.defs
        /\ r.again = y.again /\ r.plain = (y.plain /\ q.again)
    BY ProvidedFields
  <2> HIDE DEF y, r
  <2>2. /\ z.needs = y.needs \union {id \in x.needs : <<id>> \notin y.gives}
        /\ z.gives = y.gives \union x.gives /\ z.masked = y.masked \union x.masked
        /\ z.generators = y.generators \union x.generators
        /\ z.yields = (y.yields \/ x.yields) /\ z.defs = (y.defs \/ x.defs)
        /\ z.again = (y.again /\ x.again) /\ z.plain = (y.plain /\ x.plain)
    BY ThenFields
  <2>3. /\ w.needs = z.needs /\ w.gives = z.gives /\ w.masked = z.masked
        /\ w.generators = z.generators /\ w.yields = z.yields /\ w.defs = z.defs
        /\ w.again = z.again /\ w.plain = (z.plain /\ c)
    <3>1. w = Provided(Then(y, x), c)
      BY <1>5 DEF y
    <3> HIDE DEF c
    <3> QED
      BY <3>1, ProvidedFields
  <2> HIDE DEF z
  <2>4. r.gives \subseteq w.gives /\ r.masked \subseteq w.masked
    BY <2>1, <2>2, <2>3
  <2>5. ASSUME none PROVE y.needs = z.needs /\ y.gives = z.gives /\ y.generators = z.generators
    BY <1>6, <2>2, <2>5, NothingFields
  <2>6. ASSUME none PROVE (y.yields <=> z.yields) /\ (y.defs <=> z.defs) /\ (z.again => y.again)
    BY <1>6, <2>2, <2>6, NothingFields
  <2> QED
    BY <2>1, <2>2, <2>3, <2>4, <2>5, <2>6 DEF Within
<1>21. Does(s, left, w)
  BY <1>19, <1>20, DoesWithin
<1> QED
  BY <1>4, <1>21 DEF w

LEMMA MatchCaseActs ==
  ASSUME NEW exec, NEW mean, Understands(exec, mean), NEW ns,
         NEW c, c.pattern \in Seq(Tree), c.guard \in Seq(Tree), c.body \in Seq(Tree)
  PROVE  Acts(MatchCase(exec, c), CaseMeaning(mean, ns, c), ns)
<1> DEFINE f == MatchCase(exec, c)
           w == CaseMeaning(mean, ns, c)
<1>1. ASSUME NEW t \in State, t.namespaces = ns PROVE Does(t, f[t], w)
  <2>1. f[t] = ExecAll(exec, ExecAll(exec, ExecAll(exec, t, c.pattern), c.guard), c.body)
    BY DEF MatchCase
  <2>2. Does(t, ExecAll(exec, t, c.pattern), All(mean, ns, c.pattern))
    BY <1>1, BlockDoes
  <2>3. Does(t, ExecAll(exec, ExecAll(exec, t, c.pattern), c.guard),
             Then(All(mean, ns, c.pattern), All(mean, ns, c.guard)))
    BY <1>1, <2>2, ThenBlockDoes
  <2>4. Does(t, ExecAll(exec, ExecAll(exec, ExecAll(exec, t, c.pattern), c.guard), c.body),
             Then(Then(All(mean, ns, c.pattern), All(mean, ns, c.guard)), All(mean, ns, c.body)))
    BY <1>1, <2>3, ThenBlockDoes
  <2> HIDE DEF f
  <2> QED
    BY <2>1, <2>4 DEF CaseMeaning
<1>2. Step(f)
  BY MatchCaseStep DEF Understands
<1>3. f = [t \in State |-> f[t]]
  BY DEF MatchCase
<1> HIDE DEF f, w
<1>4. Acts(f, w, ns)
  BY <1>1, <1>2, <1>3, IsAct
<1> QED
  BY <1>4 DEF f, w

LEMMA MatchDoes ==
  ASSUME NEW exec, NEW mean, Understands(exec, mean), NEW s \in State, NEW ns, s.namespaces = ns,
         NEW n, n.value \in Seq(Tree),
         n.cases \in Seq([pattern : Seq(Tree), guard : Seq(Tree), body : Seq(Tree)])
  PROVE  Does(s, Match(exec, s, n), MatchMeaning(mean, ns, n))
<1> DEFINE cases == n.cases
           f == [i \in DOMAIN cases |-> MatchCase(exec, cases[i])]
           m == [i \in DOMAIN cases |-> CaseMeaning(mean, ns, cases[i])]
<1>1. ASSUME NEW i \in DOMAIN cases PROVE Acts(f[i], m[i], ns)
  <2>1. cases[i] \in [pattern : Seq(Tree), guard : Seq(Tree), body : Seq(Tree)]
    BY Element
  <2>2. /\ cases[i].pattern \in Seq(Tree) /\ cases[i].guard \in Seq(Tree)
        /\ cases[i].body \in Seq(Tree)
    BY <2>1
  <2>3. Acts(MatchCase(exec, cases[i]), CaseMeaning(mean, ns, cases[i]), ns)
    BY <2>2, MatchCaseActs
  <2> QED
    BY <2>3
<1>2. f = [i \in DOMAIN cases |-> f[i]]
  OBVIOUS
<1>3. cases \in Seq([pattern : Seq(Tree), guard : Seq(Tree), body : Seq(Tree)])
  OBVIOUS
<1>4. Does(s, ExecAll(exec, s, n.value), All(mean, ns, n.value))
  BY BlockDoes
<1> HIDE DEF f, m, cases
<1>5. Does(s, InTurn(f, ExecAll(exec, s, n.value)), Then(All(mean, ns, n.value), AllOf(cases, m)))
  BY <1>1, <1>2, <1>3, <1>4, ThenInTurnDoes
<1> QED
  BY <1>5 DEF Match, MatchMeaning, f, m, cases

-----------------------------------------------------------------------------
(* The meaning of functions                                                *)

\* Of two states, all but the namespaces and the contexts under the innermost.
SameView(s, t) ==
  /\ Names(t) = Names(s) /\ Flag(t) = Flag(s) /\ t.cached = s.cached
  /\ t.errors = s.errors /\ t.generators = s.generators

LEMMA MeansSame ==
  ASSUME NEW s, NEW t, NEW u, NEW v, NEW m, Means(s, t, m), SameView(s, u), SameView(t, v)
  PROVE  Means(u, v, m)
<1>1. Needed(u, m) = Needed(s, m)
  BY DEF SameView, Needed
<1>2. AtLeast(s, t, m) => AtLeast(u, v, m)
  BY <1>1 DEF AtLeast, SameView
<1>3. AtMost(s, t, m) => AtMost(u, v, m)
  BY <1>1 DEF AtMost, SameView
<1>4. /\ Names(s) \subseteq Names(t) /\ Names(t) \subseteq Names(s) \union m.gives
      /\ s.errors \subseteq t.errors /\ s.generators \subseteq t.generators
      /\ (Flag(s) => Flag(t)) /\ t.cached = s.cached
      /\ ((m.plain /\ (s.cached => ~m.defs)) => AtLeast(s, t, m))
      /\ ((m.plain /\ (s.cached => ~m.defs \/ (m.again /\ m.gives \subseteq Names(s)))) => AtMost(s, t, m))
  BY DEF Means
<1>5. /\ Names(u) \subseteq Names(v) /\ Names(v) \subseteq Names(u) \union m.gives
      /\ u.errors \subseteq v.errors /\ u.generators \subseteq v.generators
      /\ (Flag(u) => Flag(v)) /\ v.cached = u.cached
  BY <1>4 DEF SameView
<1>6. ASSUME m.plain, u.cached => ~m.defs PROVE AtLeast(u, v, m)
  BY <1>2, <1>4, <1>6 DEF SameView
<1>7. ASSUME m.plain, u.cached => ~m.defs \/ (m.again /\ m.gives \subseteq Names(u))
      PROVE  AtMost(u, v, m)
  <2>1. s.cached => ~m.defs \/ (m.again /\ m.gives \subseteq Names(s))
    BY <1>7 DEF SameView
  <2> QED
    BY <1>3, <1>4, <1>7, <2>1
<1> QED
  BY <1>5, <1>6, <1>7 DEF Means

\* A meaning that keeps its yields to itself.
Hushed(p) ==
  [needs |-> p.needs, gives |-> p.gives, masked |-> p.masked, generators |-> p.generators,
   yields |-> FALSE, defs |-> p.defs, again |-> p.again, plain |-> p.plain]

\* A visit in a context of its own.
LEMMA MeansHushed ==
  ASSUME NEW s, NEW t, NEW u, NEW v, NEW p, Means(s, t, p),
         Names(u) = Names(s), u.cached = s.cached, u.errors = s.errors,
         u.generators = s.generators, v.contexts = u.contexts,
         Names(v) = Names(t), v.cached = t.cached, v.errors = t.errors,
         v.generators = t.generators
  PROVE  Means(u, v, Hushed(p))
<1> DEFINE m == Hushed(p)
<1>1. /\ m.needs = p.needs /\ m.gives = p.gives /\ m.generators = p.generators
      /\ m.yields = FALSE /\ m.defs = p.defs /\ m.again = p.again /\ m.plain = p.plain
  BY DEF Hushed
<1> HIDE DEF m
<1>2. Flag(v) = Flag(u)
  BY DEF Flag
<1>3. /\ Names(s) \subseteq Names(t) /\ Names(t) \subseteq Names(s) \union p.gives
      /\ s.errors \subseteq t.errors /\ s.generators \subseteq t.generators
      /\ t.cached = s.cached
  BY DEF Means
<1>4. Needed(u, m) = Needed(s, p)
  BY <1>1 DEF Needed
<1>5. ASSUME m.plain, u.cached => ~m.defs PROVE AtLeast(u, v, m)
  <2>1. AtLeast(s, t, p)
    BY <1>1, <1>5 DEF Means
  <2> QED
    BY <1>1, <1>4, <2>1 DEF AtLeast
<1>6. ASSUME m.plain, u.cached => ~m.defs \/ (m.again /\ m.gives \subseteq Names(u))
      PROVE  AtMost(u, v, m)
  <2>1. AtMost(s, t, p)
    BY <1>1, <1>6 DEF Means
  <2> QED
    BY <1>1, <1>2, <1>4, <2>1 DEF AtMost
<1>7. Names(u) \subseteq Names(v) /\ Names(v) \subseteq Names(u) \union m.gives
  BY <1>1, <1>3
<1> QED
  BY <1>2, <1>3, <1>5, <1>6, <1>7 DEF Means, m

\* The end of a scope.
LEMMA MeansLocal ==
  ASSUME NEW s, NEW t, NEW u, NEW p, Means(s, t, p),
         Names(u) = Names(s), Flag(u) = Flag(t), u.cached = t.cached, u.errors = t.errors,
         u.generators = t.generators
  PROVE  Means(s, u, Local(p))
<1> DEFINE m == Local(p)
<1>1. /\ m.needs = p.needs /\ m.gives = {} /\ m.generators = p.generators
      /\ m.yields = p.yields /\ m.defs = p.defs /\ m.again = ~p.defs /\ m.plain = p.plain
  BY DEF Local
<1> HIDE DEF m
<1>2. Needed(s, m) = Needed(s, p)
  BY <1>1 DEF Needed
<1>3. ASSUME m.plain, s.cached => ~m.defs PROVE AtLeast(s, u, m)
  <2>1. AtLeast(s, t, p)
    BY <1>1, <1>3 DEF Means
  <2> QED
    BY <1>1, <1>2, <2>1 DEF AtLeast
<1>4. ASSUME m.plain, s.cached => ~m.defs \/ (m.again /\ m.gives \subseteq Names(s))
      PROVE  AtMost(s, u, m)
  <2>1. AtMost(s, t, p)
    BY <1>1, <1>4 DEF Means
  <2> QED
    BY <1>1, <1>2, <2>1 DEF AtMost
<1>5. /\ s.errors \subseteq u.errors /\ s.generators \subseteq u.generators
      /\ Flag(s) => Flag(u)
      /\ u.cached = s.cached
  BY DEF Means
<1> QED
  BY <1>3, <1>4, <1>5 DEF Means, m

\* A fresh context has no yield.
LEMMA PushedFlag == ASSUME NEW s \in State PROVE Flag(Pushed(s)) = FALSE
<1> DEFINE c == Append(s.contexts, FALSE)
<1>1. s.contexts \in Seq(BOOLEAN) /\ FALSE \in BOOLEAN /\ Len(s.contexts) \in Nat
  BY StateFields
<1>2. Len(c) = Len(s.contexts) + 1 /\ c[Len(s.contexts) + 1] = FALSE
  BY <1>1, AppendProperties
<1>3. Pushed(s) = [s EXCEPT !.contexts = c]
  BY DEF Pushed, NewContext
<1> HIDE DEF c
<1>4. Pushed(s).contexts = c
  BY <1>3 DEF State
<1> QED
  BY <1>2, <1>4 DEF Flag, Last

LEMMA SameNames ==
  ASSUME NEW s, NEW t, Len(t.bindings) = Len(s.bindings),
         \A i \in 1 .. Len(t.bindings) : t.bindings[i].name = s.bindings[i].name
  PROVE  Names(t) = Names(s)
BY DEF Names

\* What the visit of a function, its entry made, has found at the end of the
\* scope, and whether its own context has seen a yield.
LEMMA FunctionMeans ==
  ASSUME NEW exec, NEW mean, Understands(exec, mean), NEW s \in State,
         NEW n, n.id \in STRING, n.args \in Arguments, n.body \in Seq(Tree),
         n.decorators \in Seq(Tree)
  PROVE  LET name == NameOf(s, n)
             p == Parameters(mean, name, n.args)
             q == Then(All(mean, name, n.body), All(mean, name, n.decorators))
         IN  /\ Means(s, Left(exec, s, n), Then(Giving(name), Local(Then(Hushed(p), Hushed(q)))))
             /\ (q.plain /\ ~s.cached) => (Flag(Done(exec, s, n)) <=> q.yields)
             /\ Left(exec, s, n).bindings[Len(s.bindings) + 1].fun = "untyped" => name \in p.gives
             /\ Left(exec, s, n).bindings[Len(s.bindings) + 1].name = name
<1> DEFINE name    == NameOf(s, n)
           opened  == Opened(s, n)
           pushed  == Pushed(opened)
           added   == AddArguments(exec, pushed, n.args)
           arrowed == Arrowed(exec, s, n)
           typed   == Typed(exec, s, n)
           inside  == Pushed(typed)
           body    == ExecAll(exec, inside, n.body)
           done    == Done(exec, s, n)
           left    == Left(exec, s, n)
           p == Parameters(mean, name, n.args)
           q == Then(All(mean, name, n.body), All(mean, name, n.decorators))
           k == Len(s.bindings) + 1
<1>1. Executes(exec)
  BY DEF Understands
<1>2. /\ opened \in State /\ opened.bindings = Append(s.bindings, EntryOf(s, n))
      /\ opened.namespaces = name /\ opened.contexts = s.contexts /\ opened.errors = s.errors
      /\ opened.generators = s.generators /\ opened.cached = s.cached
      /\ EntryOf(s, n) \in Binding /\ s.bindings \in Seq(Binding) /\ Len(s.bindings) \in Nat
      /\ Len(Append(s.bindings, EntryOf(s, n))) = k
  BY OpenedGives
<1>3. EntryOf(s, n).name = name
  BY DEF EntryOf
<1>4. arrowed = Popped(added)
  BY DEF Arrowed, FunctionArrow, Pushed, Popped
<1>5. EntryTyped(s, n, arrowed, typed)
  BY <1>1, TypedGives
<1>6. Keeps(inside, done) /\ done \in State /\ typed.contexts = s.contexts
  BY <1>1, DoneGives
<1>7. ScopeLeft(s, typed, done, left)
  BY <1>1, LeftGives
<1>8. arrowed.contexts = s.contexts
  BY <1>1, ArrowedGives
<1>9. done = ExecAll(exec, body, n.decorators)
  BY DEF Done
<1> HIDE DEF name, opened, arrowed, typed, done, left
<1>10. Means(s, opened, Giving(name)) /\ Names(opened) = Names(s) \union {name}
  <2> DEFINE e == EntryOf(s, n)
             g == Giving(name)
  <2>1. g.needs = {} /\ g.gives = {e.name} /\ g.generators = {} /\ g.yields = FALSE
    BY <1>3, GivingFields
  <2>2. e \in Binding
    BY <1>2
  <2>3. opened.bindings = Append(s.bindings, e)
    BY <1>2
  <2>4. /\ opened.contexts = s.contexts /\ opened.errors = s.errors
        /\ opened.generators = s.generators /\ opened.cached = s.cached
    BY <1>2
  <2> HIDE DEF e, g
  <2>5. Means(s, opened, g)
    BY <2>1, <2>2, <2>3, <2>4, AddMeans
  <2>6. Names(opened) = Names(s) \union {e.name}
    BY <2>2, <2>3, AddNames
  <2> QED
    BY <1>3, <2>5, <2>6 DEF e, g
<1>11. /\ pushed \in State /\ pushed.bindings = opened.bindings /\ pushed.namespaces = name
       /\ pushed.errors = opened.errors /\ pushed.generators = opened.generators
       /\ pushed.cached = opened.cached
  BY <1>2, PushedState
<1>12. Does(pushed, added, p)
  BY <1>11, ArgumentsDoes
<1>13. /\ arrowed.bindings = added.bindings /\ arrowed.errors = added.errors
       /\ arrowed.generators = added.generators /\ arrowed.cached = added.cached
  BY <1>2, <1>4, <1>12, PoppedState DEF Does
<1> HIDE DEF added, pushed, p
<1>14. Means(opened, arrowed, Hushed(p))
  <2>1. Names(opened) = Names(pushed) /\ Names(arrowed) = Names(added)
    BY <1>11, <1>13 DEF Names
  <2>2. Means(pushed, added, p)
    BY <1>12 DEF Does
  <2> QED
    BY <1>2, <1>8, <1>11, <1>13, <2>1, <2>2, MeansHushed
<1>15. /\ typed \in State /\ Names(typed) = Names(arrowed) /\ typed.cached = arrowed.cached
       /\ typed.errors = arrowed.errors /\ typed.generators = arrowed.generators
       /\ typed.contexts = arrowed.contexts /\ typed.namespaces = arrowed.namespaces
  BY <1>5, SameNames DEF EntryTyped
<1>16. Means(opened, typed, Hushed(p))
  BY <1>14, <1>15, MeansSame DEF SameView, Flag
<1>17. arrowed.namespaces = name
  BY <1>1, ArrowedGives DEF arrowed, name
<1>18. /\ inside \in State /\ inside.bindings = typed.bindings /\ inside.namespaces = name
       /\ inside.errors = typed.errors /\ inside.generators = typed.generators
       /\ inside.cached = typed.cached /\ Flag(inside) = FALSE
  BY <1>15, <1>17, PushedState, PushedFlag
<1>19. Does(inside, done, q)
  <2>1. Does(inside, body, All(mean, name, n.body))
    BY <1>18, BlockDoes
  <2> QED
    BY <1>9, <1>18, <2>1, ThenBlockDoes
<1> HIDE DEF inside, body, q
<1> DEFINE popped == Popped(done)
<1>20. /\ popped.contexts = typed.contexts /\ popped.bindings = done.bindings
       /\ popped.errors = done.errors /\ popped.generators = done.generators
       /\ popped.cached = done.cached
  BY <1>6, <1>15, PoppedState DEF inside
<1> HIDE DEF popped
<1>21. Means(typed, popped, Hushed(q))
  <2>1. Names(typed) = Names(inside) /\ Names(popped) = Names(done)
    BY <1>18, <1>20 DEF Names
  <2>2. Means(inside, done, q)
    BY <1>19 DEF Does
  <2> QED
    BY <1>18, <1>20, <2>1, <2>2, MeansHushed
<1>22. Means(opened, popped, Then(Hushed(p), Hushed(q)))
  BY <1>16, <1>21, MeansOn
<1>23. Names(left) = Names(opened)
  <2>1. /\ Len(left.bindings) = k /\ k <= Len(typed.bindings)
        /\ \A i \in 1 .. k : left.bindings[i] = typed.bindings[i]
        /\ Len(typed.bindings) = Len(arrowed.bindings)
        /\ \A i \in 1 .. Len(typed.bindings) : typed.bindings[i].name = arrowed.bindings[i].name
    BY <1>2, <1>5, <1>7, <1>15, StateFields DEF ScopeLeft, EntryTyped
  <2>2. \A i \in 1 .. k : arrowed.bindings[i] = opened.bindings[i]
    BY <1>2, <1>11, <1>12, <1>13 DEF Does, Keeps, Grows
  <2>3. \A i \in 1 .. k : i \in 1 .. Len(typed.bindings)
    <3>1. Len(typed.bindings) \in Nat /\ k \in Nat
      BY <1>2, <1>15, StateFields
    <3> QED
      BY <2>1, <3>1
  <2> HIDE DEF k
  <2>4. \A i \in 1 .. k : left.bindings[i].name = opened.bindings[i].name
    BY <2>1, <2>2, <2>3
  <2> QED
    BY <1>2, <2>1, <2>4, SameNames
<1>24. /\ left.contexts = s.contexts /\ left.cached = s.cached
       /\ left.errors = popped.errors /\ left.generators = popped.generators
  BY <1>7, <1>20 DEF ScopeLeft
<1>25. Flag(left) = Flag(popped) /\ left.cached = popped.cached
  <2>1. popped.contexts = s.contexts
    BY <1>6, <1>20
  <2>2. popped.cached = opened.cached
    BY <1>22 DEF Means
  <2> QED
    BY <1>2, <1>24, <2>1, <2>2 DEF Flag
<1>26. Means(opened, left, Local(Then(Hushed(p), Hushed(q))))
  BY <1>22, <1>23, <1>24, <1>25, MeansLocal
<1>27. Means(s, left, Then(Giving(name), Local(Then(Hushed(p), Hushed(q)))))
  BY <1>10, <1>26, MeansOn
<1>28. ASSUME q.plain, ~s.cached PROVE Flag(done) <=> q.yields
  <2>1. Means(inside, done, q) /\ ~inside.cached
    <3>1. inside.cached = opened.cached
      BY <1>16, <1>18 DEF Means
    <3> QED
      BY <1>2, <1>19, <1>28, <3>1 DEF Does
  <2>2. AtLeast(inside, done, q) /\ AtMost(inside, done, q)
    BY <1>28, <2>1 DEF Means
  <2> QED
    BY <1>18, <2>2 DEF AtLeast, AtMost
<1>29. left.bindings[k] = typed.bindings[k] /\ k \in 1 .. Len(left.bindings)
  <2>1. k \in 1 .. k
    BY <1>2
  <2>2. Len(left.bindings) = k
    BY <1>7 DEF ScopeLeft
  <2> HIDE DEF k
  <2> QED
    BY <1>7, <2>1, <2>2 DEF ScopeLeft
<1>30. left.bindings[k].name = name
  <2>1. /\ typed.bindings[k].name = arrowed.bindings[k].name
        /\ arrowed.bindings[k] = opened.bindings[k]
    <3>1. k \in 1 .. Len(typed.bindings)
      BY <1>2, <1>5, <1>15, StateFields DEF EntryTyped
    <3>2. k \in 1 .. Len(pushed.bindings)
      BY <1>2, <1>11
    <3> HIDE DEF k
    <3> QED
      BY <1>5, <1>11, <1>12, <1>13, <3>1, <3>2 DEF EntryTyped, Does, Keeps, Grows
  <2>2. opened.bindings[k] = EntryOf(s, n)
    BY <1>2, AppendProperties
  <2> QED
    BY <1>3, <1>29, <2>1, <2>2
<1>31. ASSUME left.bindings[k].fun = "untyped" PROVE name \in p.gives
  <2>1. PICK i \in Len(s.bindings) + 2 .. Len(arrowed.bindings) : arrowed.bindings[i].name = name
    BY <1>5, <1>29, <1>31 DEF EntryTyped, name
  <2>2. i \in Len(pushed.bindings) + 1 .. Len(added.bindings)
    BY <1>2, <1>11, <1>13, <2>1
  <2> QED
    BY <1>12, <1>13, <2>1, <2>2 DEF Does, Enters
<1> QED
  BY <1>27, <1>28, <1>30, <1>31 DEF name, p, q, done, left

\* The fields of what a function means, and of what a visit of it does.
FunctionHasFields(mean, ns, n, name) ==
  LET around == All(mean, name, n.decorators)
      params == Parameters(mean, name, n.args)
      body   == All(mean, name, n.body)
      inner  == Then(params, body)
      w      == FunctionMeaning(mean, ns, n)
  IN  /\ w.plain => w.needs = around.needs
           \union {x \in inner.needs : <<x>> \notin around.gives \union {name}}
      /\ w.gives = around.gives \union {name}
      /\ w.masked = IF name \in params.gives THEN {name} ELSE {}
      /\ w.generators = (around.generators \union inner.generators)
                          \union (IF body.yields THEN {name} ELSE {})
      /\ w.yields = (around.yields \/ params.yields) /\ w.defs = TRUE /\ w.again = TRUE
      /\ w.plain <=> /\ around.plain /\ params.plain /\ body.plain
                     /\ ~params.yields /\ ~around.yields
                     /\ Apart(params.needs, {name})
                     /\ around.gives = {}
                     /\ Apart(around.needs, {name} \union params.gives \union body.gives)

LEMMA FunctionMeaningFields ==
  ASSUME NEW mean, NEW ns, NEW n, NEW name, name = Append(ns, n.id)
  PROVE  FunctionHasFields(mean, ns, n, name)
<1> DEFINE around == All(mean, name, n.decorators)
           params == Parameters(mean, name, n.args)
           body   == All(mean, name, n.body)
           inner  == Then(params, body)
           header == Local(params)
           start  == Then(around, header)
           first  == Then(start, Giving(name))
           second == Local(inner)
           whole  == Then(first, second)
           masked == IF name \in params.gives THEN {name} ELSE {}
           itself == IF body.yields THEN {name} ELSE {}
           c      == /\ ~params.yields /\ ~around.yields
                     /\ Apart(params.needs, {name})
                     /\ around.gives = {}
                     /\ Apart(around.needs, {name} \union params.gives \union body.gives)
           w      == FunctionMeaning(mean, ns, n)
<1>1. w = Provided([whole EXCEPT !.masked = masked, !.generators = @ \union itself,
                                 !.yields = around.yields \/ params.yields,
                                 !.defs = TRUE, !.again = TRUE], c)
  BY DEF FunctionMeaning
<1> HIDE DEF around, params, body, header, start, first, second, masked, itself, c, w
<1>2. /\ w.needs = whole.needs /\ w.gives = whole.gives /\ w.masked = masked
      /\ w.generators = whole.generators \union itself
      /\ w.yields = (around.yields \/ params.yields) /\ w.defs = TRUE /\ w.again = TRUE
      /\ w.plain = (whole.plain /\ c)
  BY <1>1 DEF Provided, Then
<1>3. /\ whole.needs = first.needs \union {x \in second.needs : <<x>> \notin first.gives}
      /\ whole.gives = first.gives \union second.gives
      /\ whole.generators = first.generators \union second.generators
      /\ whole.plain = (first.plain /\ second.plain)
  BY ThenFields
<1> DEFINE g == Giving(name)
<1>4. g.needs = {} /\ g.gives = {name} /\ g.generators = {} /\ g.plain = TRUE
  BY GivingFields
<1> HIDE DEF g, whole
<1>5. /\ first.needs = start.needs \union {x \in g.needs : <<x>> \notin start.gives}
      /\ first.gives = start.gives \union g.gives
      /\ first.generators = start.generators \union g.generators
      /\ first.plain = (start.plain /\ g.plain)
  BY ThenFields DEF first, g
<1>13. /\ start.needs = around.needs \union {x \in header.needs : <<x>> \notin around.gives}
       /\ start.gives = around.gives \union header.gives
       /\ start.generators = around.generators \union header.generators
       /\ start.plain = (around.plain /\ header.plain)
  BY ThenFields DEF start
<1>14. /\ header.needs = params.needs /\ header.gives = {}
       /\ header.generators = params.generators /\ header.plain = params.plain
  BY DEF Local, header
<1>6. first.needs = around.needs \union {x \in params.needs : <<x>> \notin around.gives}
      /\ first.gives = around.gives \union {name}
      /\ first.generators = around.generators \union params.generators
  BY <1>4, <1>5, <1>13, <1>14
<1>7. /\ second.needs = inner.needs /\ second.gives = {} /\ second.generators = inner.generators
      /\ second.plain = inner.plain
  BY DEF Local, second
<1>15. IsThen(inner, params, body)
  BY ThenIs
<1> HIDE DEF inner
<1>8. inner.plain = (params.plain /\ body.plain) /\ params.needs \subseteq inner.needs
      /\ params.generators \subseteq inner.generators
  BY <1>15 DEF IsThen
<1>9. ASSUME w.plain
      PROVE  w.needs = around.needs
               \union {x \in inner.needs : <<x>> \notin around.gives \union {name}}
  <2>1. c
    BY <1>2, <1>9
  <2>4. Apart(params.needs, {name})
    BY <2>1 DEF c
  <2>2. ASSUME NEW x \in params.needs PROVE <<x>> # name
    <3>1. <<x>> \notin {name}
      BY <2>4 DEF Apart
    <3> QED
      BY <3>1
  <2>3. w.needs = first.needs \union {x \in inner.needs : <<x>> \notin around.gives \union {name}}
    BY <1>2, <1>3, <1>6, <1>7
  <2> QED
    BY <1>6, <1>8, <2>2, <2>3
<1>10. w.gives = around.gives \union {name}
  BY <1>2, <1>3, <1>6, <1>7
<1>11. w.generators = (around.generators \union inner.generators) \union itself
  BY <1>2, <1>3, <1>6, <1>7, <1>8
<1>12. w.plain <=> c /\ around.plain /\ params.plain /\ body.plain
  BY <1>2, <1>3, <1>4, <1>5, <1>7, <1>8, <1>13, <1>14
<1> QED
  BY <1>2, <1>9, <1>10, <1>11, <1>12
     DEF around, params, body, inner, masked, itself, c, w, FunctionHasFields

LEMMA HushedFields ==
  ASSUME NEW p
  PROVE  /\ Hushed(p).needs = p.needs /\ Hushed(p).gives = p.gives
         /\ Hushed(p).generators = p.generators /\ Hushed(p).yields = FALSE
         /\ Hushed(p).plain = p.plain
BY DEF Hushed

LEMMA ApartFromAll ==
  ASSUME NEW ids, NEW name, NEW a, NEW b, Apart(ids, {name} \union a \union b), NEW x \in ids
  PROVE  <<x>> # name /\ <<x>> \notin a /\ <<x>> \notin b
<1>1. <<x>> \notin {name} \union a \union b
  BY DEF Apart
<1> QED
  BY <1>1

\* Decorators that need no name of the function are as good after it as before.
LEMMA FunctionNeeds ==
  ASSUME NEW name, NEW around, NEW params, NEW body, around.gives = {},
         Apart(around.needs, {name} \union params.gives \union body.gives)
  PROVE  LET y == Then(Giving(name), Local(Then(Hushed(params), Hushed(Then(body, around)))))
             inner == Then(params, body)
         IN  /\ y.needs = around.needs
                            \union {x \in inner.needs : <<x>> \notin around.gives \union {name}}
             /\ y.gives = {name}
             /\ y.generators = around.generators \union inner.generators
             /\ y.yields = FALSE
             /\ (around.plain /\ params.plain /\ body.plain) => y.plain
<1> DEFINE g == Giving(name)
           q == Then(body, around)
           hp == Hushed(params)
           hq == Hushed(q)
           h == Then(hp, hq)
           l == Local(h)
           y == Then(g, l)
           inner == Then(params, body)
<1>1. /\ g.needs = {} /\ g.gives = {name} /\ g.generators = {} /\ g.yields = FALSE
      /\ g.plain = TRUE
  BY GivingFields
<1>2. /\ q.needs = body.needs \union {x \in around.needs : <<x>> \notin body.gives}
      /\ q.generators = body.generators \union around.generators
      /\ q.plain = (body.plain /\ around.plain)
  BY ThenFields
<1>3. /\ inner.needs = params.needs \union {x \in body.needs : <<x>> \notin params.gives}
      /\ inner.generators = params.generators \union body.generators
  BY ThenFields
<1> HIDE DEF g, q, inner
<1>4. /\ hp.needs = params.needs /\ hp.gives = params.gives
      /\ hp.generators = params.generators /\ hp.yields = FALSE /\ hp.plain = params.plain
  BY HushedFields
<1>5. /\ hq.needs = q.needs /\ hq.generators = q.generators /\ hq.yields = FALSE
      /\ hq.plain = q.plain
  BY HushedFields
<1> HIDE DEF hp, hq
<1>6. /\ h.needs = hp.needs \union {x \in hq.needs : <<x>> \notin hp.gives}
      /\ h.generators = hp.generators \union hq.generators
      /\ h.yields = (hp.yields \/ hq.yields)
      /\ h.plain = (hp.plain /\ hq.plain)
  BY ThenFields
<1> HIDE DEF h
<1>7. /\ l.needs = h.needs /\ l.gives = {} /\ l.generators = h.generators
      /\ l.yields = h.yields /\ l.plain = h.plain
  BY DEF Local
<1> HIDE DEF l
<1>8. /\ y.needs = g.needs \union {x \in l.needs : <<x>> \notin g.gives}
      /\ y.gives = g.gives \union l.gives
      /\ y.generators = g.generators \union l.generators
      /\ y.yields = (g.yields \/ l.yields)
      /\ y.plain = (g.plain /\ l.plain)
  BY ThenFields
<1> HIDE DEF y
<1>9. ASSUME NEW x \in around.needs
      PROVE  <<x>> # name /\ <<x>> \notin params.gives /\ <<x>> \notin body.gives
  BY ApartFromAll
<1>10. ASSUME NEW x
       PROVE  x \in y.needs <=> x \in around.needs \/ (x \in inner.needs /\ <<x>> # name)
  <2>1. x \in y.needs <=> x \in h.needs /\ <<x>> # name
    BY <1>1, <1>7, <1>8
  <2>2. x \in h.needs <=> x \in params.needs \/ (x \in q.needs /\ <<x>> \notin params.gives)
    BY <1>4, <1>5, <1>6
  <2>3. x \in q.needs <=> x \in body.needs \/ (x \in around.needs /\ <<x>> \notin body.gives)
    BY <1>2
  <2>4. x \in inner.needs <=> x \in params.needs \/ (x \in body.needs /\ <<x>> \notin params.gives)
    BY <1>3
  <2> QED
    BY <1>9, <2>1, <2>2, <2>3, <2>4
<1>11. y.needs = around.needs \union {x \in inner.needs : <<x>> \notin around.gives \union {name}}
  BY <1>10
<1>12. y.gives = {name}
  BY <1>1, <1>7, <1>8
<1>13. y.generators = around.generators \union inner.generators
  BY <1>1, <1>2, <1>3, <1>4, <1>5, <1>6, <1>7, <1>8
<1>14. y.yields = FALSE /\ ((around.plain /\ params.plain /\ body.plain) => y.plain)
  BY <1>1, <1>2, <1>4, <1>5, <1>6, <1>7, <1>8
<1> QED
  BY <1>11, <1>12, <1>13, <1>14 DEF y, l, h, hp, hq, q, g, inner

LEMMA FunctionDefDoes ==
  ASSUME NEW exec, NEW mean, Understands(exec, mean), NEW s \in State, NEW ns, s.namespaces = ns,
         NEW n, n.id \in STRING, n.args \in Arguments, n.body \in Seq(Tree),
         n.decorators \in Seq(Tree)
  PROVE  Does(s, FunctionDef(exec, s, n), FunctionMeaning(mean, ns, n))
<1> DEFINE name   == NameOf(s, n)
           around == All(mean, name, n.decorators)
           params == Parameters(mean, name, n.args)
           body   == All(mean, name, n.body)
           inner  == Then(params, body)
           q      == Then(body, around)
           y      == Then(Giving(name), Local(Then(Hushed(params), Hushed(q))))
           w      == FunctionMeaning(mean, ns, n)
           left   == Left(exec, s, n)
           done   == Done(exec, s, n)
           itself == IF body.yields THEN {name} ELSE {}
           t      == FunctionDef(exec, s, n)
           k      == Len(s.bindings) + 1
<1> SUFFICES Does(s, t, w)
  OBVIOUS
<1>0. name = Append(ns, n.id)
  BY DEF NameOf
<1>1. Keeps(s, t)
  BY FunctionDefKeeps DEF Understands
<1>2. /\ w.plain => w.needs = around.needs
           \union {x \in inner.needs : <<x>> \notin around.gives \union {name}}
      /\ w.gives = around.gives \union {name}
      /\ w.masked = IF name \in params.gives THEN {name} ELSE {}
      /\ w.generators = (around.generators \union inner.generators) \union itself
      /\ w.yields = (around.yields \/ params.yields) /\ w.defs = TRUE /\ w.again = TRUE
      /\ w.plain => /\ around.plain /\ params.plain /\ body.plain
                    /\ ~params.yields /\ ~around.yields
                    /\ around.gives = {}
                    /\ Apart(around.needs, {name} \union params.gives \union body.gives)
  <2> HIDE DEF name
  <2>1. FunctionHasFields(mean, ns, n, name)
    BY <1>0, FunctionMeaningFields
  <2> QED
    BY <2>1 DEF FunctionHasFields
<1>3. /\ Means(s, left, y)
      /\ (q.plain /\ ~s.cached) => (Flag(done) <=> q.yields)
      /\ left.bindings[k].fun = "untyped" => name \in params.gives
      /\ left.bindings[k].name = name
  BY FunctionMeans
<1>4. ScopeLeft(s, Typed(exec, s, n), done, left)
  BY LeftGives DEF Understands
<1>5. t = IF s.cached THEN s
          ELSE IF Flag(done) THEN [left EXCEPT !.generators = @ \union {name}] ELSE left
  BY FunctionDefIs DEF Flag
<1>6. q.yields = (body.yields \/ around.yields) /\ q.plain = (body.plain /\ around.plain)
  BY ThenFields
<1> HIDE DEF name, around, params, body, w
<1>7. ASSUME w.plain
      PROVE  /\ y.needs = w.needs
             /\ y.gives = {name}
             /\ y.generators = around.generators \union inner.generators
             /\ y.yields = FALSE
             /\ y.plain
  <2>1. /\ around.gives = {}
        /\ Apart(around.needs, {name} \union params.gives \union body.gives)
        /\ around.plain /\ params.plain /\ body.plain
    BY <1>2, <1>7
  <2>2. /\ y.needs = around.needs
                       \union {x \in inner.needs : <<x>> \notin around.gives \union {name}}
        /\ y.gives = {name}
        /\ y.generators = around.generators \union inner.generators
        /\ y.yields = FALSE
        /\ (around.plain /\ params.plain /\ body.plain) => y.plain
    BY <2>1, FunctionNeeds
  <2> HIDE DEF y, inner
  <2>3. w.needs = around.needs
                    \union {x \in inner.needs : <<x>> \notin around.gives \union {name}}
    BY <1>2, <1>7
  <2> QED
    BY <2>1, <2>2, <2>3
<1>8. Len(s.bindings) \in Nat
  BY StateFields
<1> HIDE DEF inner, q, y, left, done, t, itself
<1>9. CASE s.cached
  <2>1. t = s
    BY <1>5, <1>9
  <2>2. Enters(s, s, w)
    BY <1>8 DEF Enters
  <2>3. Means(s, s, w)
    BY <1>2, <1>9 DEF Means, AtMost
  <2> QED
    BY <1>1, <2>1, <2>2, <2>3 DEF Does
<1>10. CASE ~s.cached
  <2> DEFINE new == IF Flag(done) THEN {name} ELSE {}
  <2>1. left \in State /\ left.contexts = s.contexts /\ Len(left.bindings) = k
    BY <1>4 DEF ScopeLeft
  <2>2. /\ t.bindings = left.bindings /\ t.contexts = s.contexts /\ t.errors = left.errors
        /\ t.generators = left.generators \union new /\ t.cached = left.cached
    BY <1>5, <1>10, <2>1 DEF State
  <2>3. Names(t) = Names(left) /\ Flag(t) = Flag(left) /\ Flag(t) = Flag(s)
    BY <2>1, <2>2 DEF Names, Flag
  <2>4. Enters(s, t, w)
    <3>1. \A i \in Len(s.bindings) + 1 .. Len(t.bindings) : i = k
      BY <1>8, <2>1, <2>2
    <3>2. t.bindings[k].name \in w.gives
      BY <1>2, <1>3, <2>2
    <3>3. t.bindings[k].fun = "untyped" => t.bindings[k].name \in w.masked
      BY <1>2, <1>3, <2>2
    <3> HIDE DEF k
    <3> QED
      BY <3>1, <3>2, <3>3 DEF Enters
  <2> HIDE DEF k
  <2>5. ASSUME w.plain PROVE AtLeast(s, t, w) /\ AtMost(s, t, w)
    <3>1. /\ y.needs = w.needs /\ y.gives = {name} /\ y.yields = FALSE /\ y.plain
          /\ y.generators = around.generators \union inner.generators
      BY <1>7, <2>5
    <3>2. AtLeast(s, left, y) /\ AtMost(s, left, y)
      BY <1>3, <1>10, <3>1 DEF Means
    <3>3. new = itself
      <4>1. q.plain /\ (q.yields <=> body.yields)
        BY <1>2, <1>6, <2>5
      <4>2. Flag(done) <=> body.yields
        BY <1>3, <1>10, <4>1
      <4> QED
        BY <4>2 DEF itself
    <3>4. w.gives = {name} /\ w.generators = y.generators \union itself
      BY <1>2, <2>5, <3>1
    <3>5. Needed(s, w) = Needed(s, y)
      BY <3>1 DEF Needed
    <3> HIDE DEF new
    <3>6. AtLeast(s, t, w)
      BY <1>2, <2>5, <2>2, <2>3, <3>1, <3>2, <3>3, <3>4, <3>5 DEF AtLeast
    <3>7. AtMost(s, t, w)
      BY <2>2, <2>3, <3>2, <3>3, <3>4, <3>5 DEF AtMost
    <3> QED
      BY <3>6, <3>7
  <2>6. y.gives \subseteq {name}
    <3> DEFINE g == Giving(name)
               l == Local(Then(Hushed(params), Hushed(q)))
    <3>1. g.gives = {name} /\ l.gives = {}
      BY GivingFields DEF Local
    <3>2. y = Then(g, l)
      BY DEF y
    <3> HIDE DEF g, l
    <3> QED
      BY <3>1, <3>2, ThenFields
  <2>7. /\ Names(s) \subseteq Names(t) /\ Names(t) \subseteq Names(s) \union w.gives
        /\ s.errors \subseteq t.errors /\ s.generators \subseteq t.generators
        /\ (Flag(s) => Flag(t)) /\ t.cached = s.cached
    <3> HIDE DEF new
    <3> QED
      BY <1>2, <1>3, <2>2, <2>3, <2>6 DEF Means
  <2>8. Means(s, t, w)
    BY <2>5, <2>7 DEF Means
  <2> QED
    BY <1>1, <2>4, <2>8 DEF Does
<1> QED
  BY <1>9, <1>10

-----------------------------------------------------------------------------
(* The meaning of classes                                                  *)

LEMMA AttributeActs ==
  ASSUME NEW exec, NEW mean, Understands(exec, mean), NEW ns, NEW m \in Tree
  PROVE  Acts(Attribute(exec, m), AttributeMeaning(mean, ns, m), ns)
<1> DEFINE f == Attribute(exec, m)
           w == AttributeMeaning(mean, ns, m)
           assigned == m.kind = "assign"
<1>1. ASSUME NEW t \in State, t.namespaces = ns PROVE Does(t, f[t], w)
  <2>1. f[t] = IF assigned THEN Close(t, ExecAll(exec, t, m.value)) ELSE t
    BY DEF Attribute
  <2>2. w = IF assigned THEN Local(All(mean, ns, m.value)) ELSE Nothing
    BY DEF AttributeMeaning
  <2>3. assigned => m.value \in Seq(Tree)
    BY FieldsOf
  <2> HIDE DEF f, w, assigned
  <2>4. CASE assigned
    <3>1. Does(t, ExecAll(exec, t, m.value), All(mean, ns, m.value))
      BY <1>1, <2>3, <2>4, BlockDoes
    <3>2. Does(t, Close(t, ExecAll(exec, t, m.value)), Local(All(mean, ns, m.value)))
      BY <3>1, CloseDoes
    <3> QED
      BY <2>1, <2>2, <2>4, <3>2
  <2>5. CASE ~assigned
    BY <2>1, <2>2, <2>5, DoesNothing
  <2> QED
    BY <2>4, <2>5
<1>2. Step(f)
  BY AttributeStep DEF Understands
<1>3. f = [t \in State |-> f[t]]
  BY DEF Attribute
<1> HIDE DEF f, w
<1>4. Acts(f, w, ns)
  BY <1>1, <1>2, <1>3, IsAct
<1> QED
  BY <1>4 DEF f, w

LEMMA CtorAttributeActs ==
  ASSUME NEW exec, NEW mean, Understands(exec, mean), NEW ns, NEW self, NEW m \in Tree
  PROVE  Acts(CtorAttribute(exec, self, m), CtorAttributeMeaning(mean, ns, self, m), ns)
<1> DEFINE f == CtorAttribute(exec, self, m)
           w == CtorAttributeMeaning(mean, ns, self, m)
           ofSelf == m.kind = "setattr" /\ m.id = self
<1>1. ASSUME NEW t \in State, t.namespaces = ns PROVE Does(t, f[t], w)
  <2>1. f[t] = IF ofSelf THEN ExecAll(exec, t, m.value) ELSE t
    BY DEF CtorAttribute
  <2>2. w = IF ofSelf THEN All(mean, ns, m.value) ELSE Nothing
    BY DEF CtorAttributeMeaning
  <2>3. ofSelf => m.value \in Seq(Tree)
    BY FieldsOf
  <2> HIDE DEF f, w, ofSelf
  <2>4. CASE ofSelf
    <3>1. Does(t, ExecAll(exec, t, m.value), All(mean, ns, m.value))
      BY <1>1, <2>3, <2>4, BlockDoes
    <3> QED
      BY <2>1, <2>2, <2>4, <3>1
  <2>5. CASE ~ofSelf
    BY <2>1, <2>2, <2>5, DoesNothing
  <2> QED
    BY <2>4, <2>5
<1>2. Step(f)
  BY CtorAttributeStep DEF Understands
<1>3. f = [t \in State |-> f[t]]
  BY DEF CtorAttribute
<1> HIDE DEF f, w
<1>4. Acts(f, w, ns)
  BY <1>1, <1>2, <1>3, IsAct
<1> QED
  BY <1>4 DEF f, w

LEMMA MethodActs ==
  ASSUME NEW exec, NEW mean, Understands(exec, mean), NEW ns, NEW m \in Tree
  PROVE  Acts(Method(exec, m), MethodMeaning(mean, ns, m), ns)
<1> DEFINE f == Method(exec, m)
           w == MethodMeaning(mean, ns, m)
           function == m.kind = "def"
<1>1. ASSUME NEW t \in State, t.namespaces = ns PROVE Does(t, f[t], w)
  <2>1. f[t] = IF function THEN exec[m][t] ELSE t
    BY DEF Method
  <2>2. w = IF function THEN mean[ns][m] ELSE Nothing
    BY DEF MethodMeaning
  <2> HIDE DEF f, w, function
  <2>3. Does(t, exec[m][t], mean[ns][m])
    BY <1>1 DEF Understands
  <2>4. CASE function
    BY <2>1, <2>2, <2>3, <2>4
  <2>5. CASE ~function
    BY <2>1, <2>2, <2>5, DoesNothing
  <2> QED
    BY <2>4, <2>5
<1>2. Step(f)
  BY MethodStep DEF Understands
<1>3. f = [t \in State |-> f[t]]
  BY DEF Method
<1> HIDE DEF f, w
<1>4. Acts(f, w, ns)
  BY <1>1, <1>2, <1>3, IsAct
<1> QED
  BY <1>4 DEF f, w

LEMMA CtorDoes ==
  ASSUME NEW exec, NEW mean, Understands(exec, mean), NEW s \in State, NEW ns, s.namespaces = ns,
         NEW ctor, ctor.args \in Arguments, ctor.body \in Seq(Tree)
  PROVE  Does(s, RecordCtorAttributes(exec, s, ctor), CtorMeaning(mean, ns, ctor))
<1> DEFINE body == ctor.body
           self == ctor.args[1].id
           f == [i \in DOMAIN body |-> CtorAttribute(exec, self, body[i])]
           m == [i \in DOMAIN body |-> CtorAttributeMeaning(mean, ns, self, body[i])]
           added == AddArguments(exec, s, ctor.args)
           params == Parameters(mean, ns, ctor.args)
           none == ctor.args = <<>>
           t == RecordCtorAttributes(exec, s, ctor)
           w == CtorMeaning(mean, ns, ctor)
<1> SUFFICES Does(s, t, w)
  OBVIOUS
<1>1. \A i \in DOMAIN body : Acts(CtorAttribute(exec, self, body[i]),
                                  CtorAttributeMeaning(mean, ns, self, body[i]), ns)
  BY Element, CtorAttributeActs
<1>2. f = [i \in DOMAIN body |-> f[i]] /\ \A i \in DOMAIN body : Acts(f[i], m[i], ns)
  BY <1>1
<1>3. body \in Seq(Tree)
  OBVIOUS
<1>4. t = IF none THEN s ELSE Close(s, InTurn(f, added))
  BY DEF RecordCtorAttributes
<1>5. w = IF none THEN Nothing ELSE Local(Then(params, AllOf(body, m)))
  BY DEF CtorMeaning
<1> HIDE DEF f, m, body, none, t, w
<1>6. Does(s, added, params)
  BY ArgumentsDoes
<1> HIDE DEF added, params
<1>7. Does(s, InTurn(f, added), Then(params, AllOf(body, m)))
  BY <1>2, <1>3, <1>6, ThenInTurnDoes
<1>8. Does(s, Close(s, InTurn(f, added)), Local(Then(params, AllOf(body, m))))
  BY <1>7, CloseDoes
<1> QED
  BY <1>4, <1>5, <1>8, DoesNothing

\* What is meant by the parts of a body that give no name.
LEMMA AllGiveNothing ==
  ASSUME NEW seq, Len(seq) \in Nat, NEW m,
         \A i \in 1 .. Len(seq) : m[i].gives = {} /\ m[i].masked = {}
  PROVE  AllOf(seq, m).gives = {} /\ AllOf(seq, m).masked = {}
<1> DEFINE n == Len(seq)
<1>1. PICK a : Accumulates(a, n, m) /\ AllOf(seq, m) = a[n]
  BY AllOfUnfolds
<1> DEFINE S == {i \in Nat : i <= n => a[i].gives = {} /\ a[i].masked = {}}
<1>2. 0 \in S
  BY <1>1, NothingFields DEF Accumulates
<1>3. ASSUME NEW k \in Nat, k \in S PROVE k + 1 \in S
  <2> SUFFICES ASSUME k + 1 <= n PROVE a[k + 1].gives = {} /\ a[k + 1].masked = {}
    OBVIOUS
  <2>1. k + 1 \in 1 .. n /\ (k + 1) - 1 = k /\ k <= n
    OBVIOUS
  <2>2. a[k + 1] = Then(a[k], m[k + 1])
    BY <1>1, <2>1 DEF Accumulates
  <2>3. a[k].gives = {} /\ a[k].masked = {} /\ m[k + 1].gives = {} /\ m[k + 1].masked = {}
    BY <1>3, <2>1
  <2> QED
    BY <2>2, <2>3, ThenFields
<1> HIDE DEF S
<1>4. n \in S
  BY <1>2, <1>3, Climbs
<1> QED
  BY <1>1, <1>4 DEF S

LEMMA AttributesGiveNothing ==
  ASSUME NEW mean, NEW ns, NEW body \in Seq(Tree)
  PROVE  LET m == AllOf(body, [i \in DOMAIN body |-> AttributeMeaning(mean, ns, body[i])])
         IN  m.gives = {} /\ m.masked = {}
<1> DEFINE m == [i \in DOMAIN body |-> AttributeMeaning(mean, ns, body[i])]
<1>1. ASSUME NEW i \in DOMAIN body PROVE m[i].gives = {} /\ m[i].masked = {}
  <2> DEFINE assigned == body[i].kind = "assign"
             l == Local(All(mean, ns, body[i].value))
  <2>1. m[i] = IF assigned THEN l ELSE Nothing
    BY DEF AttributeMeaning
  <2>2. l.gives = {} /\ l.masked = {}
    BY DEF Local
  <2> HIDE DEF assigned, l, m
  <2> QED
    BY <2>1, <2>2, NothingFields
<1>2. Len(body) \in Nat /\ DOMAIN body = 1 .. Len(body)
  OBVIOUS
<1> HIDE DEF m
<1>3. AllOf(body, m).gives = {} /\ AllOf(body, m).masked = {}
  BY <1>1, <1>2, AllGiveNothing
<1> QED
  BY <1>3 DEF m

LEMMA CtorGivesNothing ==
  ASSUME NEW mean, NEW ns, NEW ctor
  PROVE  CtorMeaning(mean, ns, ctor).gives = {} /\ CtorMeaning(mean, ns, ctor).masked = {}
<1> DEFINE l == Local(Then(Parameters(mean, ns, ctor.args),
                           AllOf(ctor.body, [i \in DOMAIN ctor.body |->
                                    CtorAttributeMeaning(mean, ns, ctor.args[1].id, ctor.body[i])])))
           none == ctor.args = <<>>
<1>1. l.gives = {} /\ l.masked = {}
  BY DEF Local
<1>2. CtorMeaning(mean, ns, ctor) = IF none THEN Nothing ELSE l
  BY DEF CtorMeaning
<1> HIDE DEF l, none
<1> QED
  BY <1>1, <1>2, NothingFields

\* The values of the attributes, each on its own, are all there is to a body.
ScopeIsSeen(scope, attributes) ==
  /\ scope.gives = {} /\ scope.needs = attributes.needs
  /\ scope.generators = attributes.generators
  /\ scope.yields <=> attributes.yields
  /\ scope.again => attributes.again
  /\ scope.plain => attributes.plain

\* ... if no statement is overlooked and no value needs a name of the body.
LEMMA ScopeSeen ==
  ASSUME NEW mean, NEW ns, NEW body \in Seq(Tree)
  PROVE  LET members    == AllOf(body, [i \in DOMAIN body |-> MemberMeaning(mean, ns, body[i])])
             attributes == AllOf(body, [i \in DOMAIN body |-> AttributeMeaning(mean, ns, body[i])])
         IN  /\ \A i \in DOMAIN body : ~Overlooked(mean, ns, body[i])
             /\ Apart(attributes.needs, members.gives)
             /\ Dotted(members.gives) = {}
             => ScopeIsSeen(ClassScope(members), attributes)
<1> DEFINE n  == Len(body)
           mm == [i \in DOMAIN body |-> MemberMeaning(mean, ns, body[i])]
           ma == [i \in DOMAIN body |-> AttributeMeaning(mean, ns, body[i])]
           members    == AllOf(body, mm)
           attributes == AllOf(body, ma)
           scope      == ClassScope(members)
<1> SUFFICES ASSUME \A i \in DOMAIN body : ~Overlooked(mean, ns, body[i]),
                    Apart(attributes.needs, members.gives),
                    Dotted(members.gives) = {}
             PROVE  ScopeIsSeen(scope, attributes)
  OBVIOUS
<1>1. n \in Nat /\ DOMAIN body = 1 .. n
  OBVIOUS
<1>2. Gathers(members, n, mm) /\ Gathers(attributes, n, ma)
  BY <1>1, AllOfGathers
<1>3. ASSUME NEW i \in 1 .. n
      PROVE  /\ mm[i].needs = ma[i].needs /\ mm[i].generators = ma[i].generators
             /\ (mm[i].yields <=> ma[i].yields) /\ (mm[i].plain <=> ma[i].plain)
             /\ (~mm[i].defs => ma[i].again) /\ ma[i].gives = {}
  <2> DEFINE m == body[i]
             v == All(mean, ns, m.value)
             g == Giving(<<m.id>>)
             p == Then(v, g)
             l == Local(v)
  <2>1. /\ g.needs = {} /\ g.generators = {} /\ g.yields = FALSE /\ g.defs = FALSE
        /\ g.again = TRUE /\ g.plain = TRUE
    BY GivingFields
  <2>2. /\ l.needs = v.needs /\ l.gives = {} /\ l.generators = v.generators
        /\ l.yields = v.yields /\ l.again = ~v.defs /\ l.plain = v.plain
    BY DEF Local
  <2>3. m.kind = "assign" => mm[i] = p /\ ma[i] = l
    BY <1>1 DEF MemberMeaning, AttributeMeaning
  <2>4. m.kind = "def" => mm[i] = g /\ ma[i] = Nothing
    BY <1>1 DEF MemberMeaning, AttributeMeaning
  <2>5. m.kind \notin {"assign", "def"} => mm[i] = Nothing /\ ma[i] = Nothing
    BY <1>1 DEF MemberMeaning, AttributeMeaning, Overlooked
  <2> HIDE DEF g, v, l
  <2>6. IsThen(p, v, g)
    BY ThenIs
  <2> HIDE DEF p, mm, ma
  <2>7. CASE m.kind = "assign"
    BY <2>1, <2>2, <2>3, <2>6, <2>7 DEF IsThen
  <2>8. CASE m.kind = "def"
    BY <2>1, <2>4, <2>8, NothingFields
  <2>9. CASE m.kind \notin {"assign", "def"}
    BY <2>5, <2>9, NothingFields
  <2> HIDE DEF m
  <2> QED
    BY <2>7, <2>8, <2>9
<1>4. /\ scope.needs = members.needs /\ scope.gives = Dotted(members.gives)
      /\ scope.generators = members.generators /\ scope.yields = members.yields
      /\ scope.again = ~members.defs /\ scope.plain = members.plain
  BY DEF ClassScope, Local
<1> HIDE DEF n, mm, ma, members, attributes, scope
<1>5. ASSUME NEW id PROVE id \in scope.needs <=> id \in attributes.needs
  <2>1. ASSUME id \in scope.needs PROVE id \in attributes.needs
    <3>1. PICK i \in 1 .. n : id \in ma[i].needs
      BY <1>2, <1>3, <1>4, <2>1 DEF Gathers
    <3>2. id \in attributes.needs \/ \E j \in 1 .. i - 1 : <<id>> \in ma[j].gives
      BY <1>2, <3>1 DEF Gathers
    <3>3. \A j \in 1 .. i - 1 : j \in 1 .. n
      BY <1>1
    <3> QED
      BY <1>3, <3>2, <3>3
  <2>2. ASSUME id \in attributes.needs PROVE id \in scope.needs
    <3>1. PICK i \in 1 .. n : id \in mm[i].needs
      BY <1>2, <1>3, <2>2 DEF Gathers
    <3>2. id \in members.needs \/ \E j \in 1 .. i - 1 : <<id>> \in mm[j].gives
      BY <1>2, <3>1 DEF Gathers
    <3>3. \A j \in 1 .. i - 1 : j \in 1 .. n
      BY <1>1
    <3>4. <<id>> \notin members.gives
      BY <2>2 DEF Apart
    <3> QED
      BY <1>2, <1>4, <3>2, <3>3, <3>4 DEF Gathers
  <2> QED
    BY <2>1, <2>2
<1>6. scope.generators = attributes.generators
  <2>1. /\ \A x : x \in members.generators <=> \E i \in 1 .. n : x \in mm[i].generators
        /\ \A x : x \in attributes.generators <=> \E i \in 1 .. n : x \in ma[i].generators
    BY <1>2 DEF Gathers
  <2> QED
    BY <1>3, <1>4, <2>1
<1>7. scope.yields <=> attributes.yields
  <2>1. /\ members.yields <=> \E i \in 1 .. n : mm[i].yields
        /\ attributes.yields <=> \E i \in 1 .. n : ma[i].yields
    BY <1>2 DEF Gathers
  <2>2. \A i \in 1 .. n : mm[i].yields <=> ma[i].yields
    BY <1>3
  <2> QED
    BY <1>4, <2>1, <2>2
<1>8. scope.plain => attributes.plain
  <2>1. /\ members.plain <=> \A i \in 1 .. n : mm[i].plain
        /\ attributes.plain <=> \A i \in 1 .. n : ma[i].plain
    BY <1>2 DEF Gathers
  <2>2. \A i \in 1 .. n : mm[i].plain <=> ma[i].plain
    BY <1>3
  <2> QED
    BY <1>4, <2>1, <2>2
<1>9. scope.again => attributes.again
  <2>1. /\ members.defs <=> \E i \in 1 .. n : mm[i].defs
        /\ attributes.again <=> \A i \in 1 .. n : ma[i].again
    BY <1>2 DEF Gathers
  <2>2. \A i \in 1 .. n : ~mm[i].defs => ma[i].again
    BY <1>3
  <2> QED
    BY <1>4, <2>1, <2>2
<1>10. scope.needs = attributes.needs
  BY <1>5
<1> QED
  BY <1>4, <1>6, <1>7, <1>8, <1>9, <1>10 DEF ScopeIsSeen

\* m's names are of no use to what follows it.
NothingGiven(m) == m.gives = {} /\ m.masked = {}

\* What is asked of the parts of a class for it to be analysed as it is meant.
ClassIsPlain(id, around, bases, scope, attributes, ahead, methods) ==
  /\ around.gives = {}
  /\ Apart(around.needs, {<<id>>} \union bases.gives \union methods.gives)
  /\ Apart(bases.needs, {<<id>>})
  /\ Apart(attributes.needs, {<<id>>})
  /\ ScopeIsSeen(scope, attributes)
  /\ ahead.plain /\ ~ahead.yields
  /\ ahead.needs \subseteq methods.needs
  /\ ahead.generators \subseteq methods.generators

\* w is the meaning of a class whose parts mean, in order, whole.
ClassOf(w, whole, ahead) ==
  /\ w.needs = whole.needs /\ w.gives = whole.gives /\ w.masked = whole.masked
  /\ w.generators = whole.generators /\ w.yields = whole.yields /\ w.defs = TRUE
  /\ w.again = (whole.again /\ ahead.again)
  /\ w.plain => whole.plain

\* The parts of a class in the order they are visited, and in that they are meant.
ClassVisited(r, id, bases, attributes, ahead, methods, around) ==
  \E r1, r2, r3, r4 :
    /\ IsThen(r1, bases, attributes) /\ IsThen(r2, r1, ahead) /\ IsThen(r3, r2, methods)
    /\ IsThen(r4, r3, around) /\ IsThen(r, Giving(<<id>>), r4)
ClassMeant(whole, id, bases, scope, methods, around) ==
  \E w1, w2, w3 :
    /\ IsThen(w1, around, bases) /\ IsThen(w2, w1, scope) /\ IsThen(w3, w2, Giving(<<id>>))
    /\ IsThen(whole, w3, methods)

\* The order in which the parts of a class are visited, and that in which they
\* are meant; what is visited ahead of the methods counts once.
LEMMA ClassOrder ==
  ASSUME NEW id, NEW bases, NEW scope, NEW attributes, NEW ahead, NEW methods, NEW around,
         NEW r, NEW whole, NEW w,
         NothingGiven(attributes), NothingGiven(ahead),
         ClassVisited(r, id, bases, attributes, ahead, methods, around),
         ClassMeant(whole, id, bases, scope, methods, around),
         ClassOf(w, whole, ahead),
         w.plain => ClassIsPlain(id, around, bases, scope, attributes, ahead, methods)
  PROVE  Within(r, w)
<1> DEFINE g == Giving(<<id>>)
<1>0. /\ g.needs = {} /\ g.gives = {<<id>>} /\ g.masked = {} /\ g.generators = {}
      /\ g.yields = FALSE /\ g.defs = FALSE /\ g.again = TRUE /\ g.plain = TRUE
  BY GivingFields
<1> HIDE DEF g
<1>1. PICK r1, r2, r3, r4 :
         /\ IsThen(r1, bases, attributes) /\ IsThen(r2, r1, ahead) /\ IsThen(r3, r2, methods)
         /\ IsThen(r4, r3, around) /\ IsThen(r, g, r4)
  BY DEF ClassVisited, g
<1>2. PICK w1, w2, w3 :
         /\ IsThen(w1, around, bases) /\ IsThen(w2, w1, scope) /\ IsThen(w3, w2, g)
         /\ IsThen(whole, w3, methods)
  BY DEF ClassMeant, g
<1>3. /\ w.needs = whole.needs /\ w.gives = whole.gives /\ w.masked = whole.masked
      /\ w.generators = whole.generators /\ w.yields = whole.yields /\ w.defs = TRUE
      /\ w.again = (whole.again /\ ahead.again)
      /\ w.plain => whole.plain
  BY DEF ClassOf
<1>4. /\ r.gives = {<<id>>} \union bases.gives \union methods.gives \union around.gives
      /\ r.masked = bases.masked \union methods.masked \union around.masked
      /\ r.generators = bases.generators \union attributes.generators \union ahead.generators
                          \union methods.generators \union around.generators
  BY <1>0, <1>1 DEF IsThen, NothingGiven
<1>5. /\ w.gives = {<<id>>} \union bases.gives \union scope.gives \union methods.gives
                     \union around.gives
      /\ w.masked = bases.masked \union scope.masked \union methods.masked \union around.masked
      /\ w.generators = bases.generators \union scope.generators
                          \union methods.generators \union around.generators
  BY <1>0, <1>2, <1>3 DEF IsThen
<1>6. /\ r.yields <=> \/ bases.yields \/ attributes.yields \/ ahead.yields \/ methods.yields
                      \/ around.yields
      /\ r.again <=> /\ bases.again /\ attributes.again /\ ahead.again /\ methods.again
                     /\ around.again
      /\ r.plain <=> /\ bases.plain /\ attributes.plain /\ ahead.plain /\ methods.plain
                     /\ around.plain
  BY <1>0, <1>1 DEF IsThen
<1>7. /\ w.yields <=> \/ bases.yields \/ scope.yields \/ methods.yields \/ around.yields
      /\ w.again <=> /\ bases.again /\ scope.again /\ ahead.again /\ methods.again
                     /\ around.again
      /\ w.plain => /\ bases.plain /\ scope.plain /\ methods.plain /\ around.plain
                    /\ ClassIsPlain(id, around, bases, scope, attributes, ahead, methods)
  BY <1>0, <1>2, <1>3 DEF IsThen
<1>10. ASSUME w.plain
       PROVE  /\ scope.gives = {} /\ scope.needs = attributes.needs
              /\ scope.generators = attributes.generators
              /\ (scope.yields <=> attributes.yields) /\ (scope.again => attributes.again)
              /\ attributes.plain /\ ahead.plain /\ ~ahead.yields
              /\ bases.plain /\ methods.plain /\ around.plain
  BY <1>7, <1>10 DEF ClassIsPlain, ScopeIsSeen
<1>8. ASSUME w.plain PROVE r.needs = w.needs
  <2>1. /\ around.gives = {}
        /\ Apart(around.needs, {<<id>>} \union bases.gives \union methods.gives)
        /\ Apart(bases.needs, {<<id>>}) /\ Apart(attributes.needs, {<<id>>})
        /\ ahead.needs \subseteq methods.needs
    BY <1>7, <1>8 DEF ClassIsPlain
  <2>5. scope.gives = {} /\ scope.needs = attributes.needs
    BY <1>8, <1>10
  <2>2. ASSUME NEW x \in around.needs
        PROVE  <<x>> # <<id>> /\ <<x>> \notin bases.gives /\ <<x>> \notin methods.gives
    BY <2>1, ApartFromAll
  <2>3. ASSUME NEW x \in bases.needs PROVE <<x>> \notin {<<id>>}
    BY <2>1 DEF Apart
  <2>6. ASSUME NEW x \in attributes.needs PROVE <<x>> \notin {<<id>>}
    BY <2>1 DEF Apart
  <2>4. ASSUME NEW x PROVE x \in r.needs <=> x \in w.needs
    <3> DEFINE name == <<x>>
               this == <<id>>
    <3>1. x \in r.needs <=> x \in r4.needs /\ name # this
      BY <1>0, <1>1 DEF IsThen, NothingGiven
    <3>2. x \in r4.needs <=> x \in r3.needs \/ (x \in around.needs /\ name \notin bases.gives \union methods.gives)
      BY <1>1 DEF IsThen, NothingGiven
    <3>3. x \in r3.needs <=> x \in r2.needs \/ (x \in methods.needs /\ name \notin bases.gives)
      BY <1>1 DEF IsThen, NothingGiven
    <3>4. x \in r2.needs <=> x \in r1.needs \/ (x \in ahead.needs /\ name \notin bases.gives)
      BY <1>1 DEF IsThen, NothingGiven
    <3>5. x \in r1.needs <=> x \in bases.needs \/ (x \in attributes.needs /\ name \notin bases.gives)
      BY <1>1 DEF IsThen, NothingGiven
    <3>6. x \in w.needs <=> x \in w3.needs \/ (x \in methods.needs /\ name \notin bases.gives \union {this})
      BY <1>0, <1>2, <1>3, <2>1, <2>5 DEF IsThen
    <3>7. x \in w3.needs <=> x \in w2.needs
      BY <1>0, <1>2 DEF IsThen
    <3>8. x \in w2.needs <=> x \in w1.needs \/ (x \in attributes.needs /\ name \notin bases.gives)
      BY <1>2, <2>1, <2>5 DEF IsThen
    <3>9. x \in w1.needs <=> x \in around.needs \/ x \in bases.needs
      BY <1>2, <2>1 DEF IsThen
    <3>10. x \in around.needs => name # this /\ name \notin bases.gives /\ name \notin methods.gives
      BY <2>2
    <3>11. x \in bases.needs \union attributes.needs => name # this
      BY <2>3, <2>6
    <3> HIDE DEF name, this
    <3> QED
      BY <2>1, <3>1, <3>2, <3>3, <3>4, <3>5, <3>6, <3>7, <3>8, <3>9, <3>10, <3>11
  <2> QED
    BY <2>4
<1>9. ASSUME w.plain PROVE r.generators = w.generators
  <2>1. ahead.generators \subseteq methods.generators
    BY <1>7, <1>9 DEF ClassIsPlain
  <2> QED
    BY <1>4, <1>5, <1>9, <1>10, <2>1
<1>11. ASSUME w.plain
       PROVE  /\ r.plain /\ r.gives = w.gives /\ (r.yields <=> w.yields)
              /\ (w.again => r.again) /\ (r.defs => w.defs)
  BY <1>3, <1>4, <1>5, <1>6, <1>7, <1>10, <1>11
<1>12. r.gives \subseteq w.gives /\ r.masked \subseteq w.masked
  BY <1>4, <1>5
<1> QED
  BY <1>8, <1>9, <1>11, <1>12 DEF Within

AsClass(whole, ahead, c) == Provided([whole EXCEPT !.defs = TRUE, !.again = @ /\ ahead.again], c)

\* The fields a class's meaning takes from that of its parts in order.
LEMMA ClassFields ==
  ASSUME NEW p, NEW q, NEW ahead, NEW c, NEW w,
         w = AsClass(Then(p, q), ahead, c)
  PROVE  ClassOf(w, Then(p, q), ahead) /\ (w.plain => c)
<1> DEFINE whole == Then(p, q)
<1>1. /\ w.needs = whole.needs /\ w.gives = whole.gives /\ w.masked = whole.masked
      /\ w.generators = whole.generators /\ w.yields = whole.yields /\ w.defs = TRUE
      /\ w.again = (whole.again /\ ahead.again) /\ w.plain = (whole.plain /\ c)
  BY DEF AsClass, Provided, Then
<1> HIDE DEF whole
<1>2. ClassOf(w, whole, ahead) /\ (w.plain => c)
  BY <1>1 DEF ClassOf
<1> QED
  BY <1>2 DEF whole

LEMMA ClassDefDoes ==
  ASSUME NEW exec, NEW mean, Understands(exec, mean), NEW s \in State, NEW ns, s.namespaces = ns,
         NEW n, n.id \in STRING, n.bases \in Seq(Tree), n.body \in Seq(Tree),
         n.decorators \in Seq(Tree)
  PROVE  Does(s, ClassDef(exec, s, n), ClassMeaning(mean, ns, n))
<1> DEFINE inner   == Append(ns, n.id)
           body    == n.body
           fa      == [i \in DOMAIN body |-> Attribute(exec, body[i])]
           ma      == [i \in DOMAIN body |-> AttributeMeaning(mean, inner, body[i])]
           fm      == [i \in DOMAIN body |-> Method(exec, body[i])]
           mm      == [i \in DOMAIN body |-> MethodMeaning(mean, inner, body[i])]
           last    == body[Max(Ctors(n))]
           none    == Ctors(n) = {}
           bound   == Bind(s, n.id)
           opened  == [Bind(s, n.id) EXCEPT !.namespaces = Append(@, n.id)]
           based   == ExecAll(exec, opened, n.bases)
           static  == InTurn(fa, based)
           ctor    == IF none THEN static ELSE RecordCtorAttributes(exec, static, last)
           visited == InTurn(fm, ctor)
           done    == ExecAll(exec, visited, n.decorators)
           left    == LeaveClass(s, done)
           bases      == All(mean, inner, n.bases)
           members    == AllOf(body, [i \in DOMAIN body |-> MemberMeaning(mean, inner, body[i])])
           scope      == ClassScope(members)
           attributes == AllOf(body, ma)
           headers    == UNION {HeaderNeeds(mean, inner, body[i]) : i \in DOMAIN body}
           ahead      == IF none THEN Nothing ELSE CtorMeaning(mean, inner, last)
           methods    == AllOf(body, mm)
           around     == All(mean, inner, n.decorators)
           r4 == Then(Then(Then(Then(bases, attributes), ahead), methods), around)
           r  == Then(Giving(<<n.id>>), r4)
           c  == /\ around.gives = {}
                 /\ Apart(around.needs, {<<n.id>>} \union bases.gives \union methods.gives)
                 /\ Apart(bases.needs, {<<n.id>>})
                 /\ \A i \in DOMAIN body : ~Overlooked(mean, inner, body[i])
                 /\ Apart(attributes.needs \union headers, {<<n.id>>} \union members.gives)
                 /\ Dotted(members.gives) = {}
                 /\ ahead.plain /\ ~ahead.yields
                 /\ ahead.needs \subseteq methods.needs
                 /\ ahead.generators \subseteq methods.generators
           whole == Then(Then(Then(Then(around, bases), scope), Giving(<<n.id>>)), methods)
           w  == ClassMeaning(mean, ns, n)
<1>1. ClassDef(exec, s, n) = left
  BY DEF ClassDef, RecordAttributes
<1>2. w = AsClass(whole, ahead, c)
  BY DEF ClassMeaning, AsClass
<1>3. Keeps(s, ClassDef(exec, s, n))
  BY ClassDefKeeps DEF Understands
<1>4. body \in Seq(Tree)
  OBVIOUS
<1>5. attributes.gives = {} /\ attributes.masked = {}
  <2> HIDE DEF inner, body
  <2> QED
    BY <1>4, AttributesGiveNothing
<1>6. ahead.gives = {} /\ ahead.masked = {}
  <2> HIDE DEF inner, last, none
  <2>1. CtorMeaning(mean, inner, last).gives = {} /\ CtorMeaning(mean, inner, last).masked = {}
    BY CtorGivesNothing
  <2> QED
    BY <2>1, NothingFields
<1>7. ASSUME ~none PROVE last.args \in Arguments /\ last.body \in Seq(Tree)
  <2>1. DOMAIN n.body = 1 .. Len(n.body) /\ Len(n.body) \in Nat
    OBVIOUS
  <2>2. Ctors(n) \in SUBSET (0 .. Len(n.body))
    BY <2>1 DEF Ctors
  <2>3. Max(Ctors(n)) \in Ctors(n)
    BY <1>7, <2>1, <2>2, Largest
  <2>4. last \in Tree /\ last.kind = "def"
    BY <2>3, Element DEF Ctors
  <2> HIDE DEF last
  <2> QED
    BY <2>4, FieldsOf
<1>8. \A i \in DOMAIN body : Acts(Attribute(exec, body[i]), AttributeMeaning(mean, inner, body[i]), inner)
  <2> HIDE DEF inner, body
  <2> QED
    BY <1>4, Element, AttributeActs
<1>9. \A i \in DOMAIN body : Acts(Method(exec, body[i]), MethodMeaning(mean, inner, body[i]), inner)
  <2> HIDE DEF inner, body
  <2> QED
    BY <1>4, Element, MethodActs
<1>10. /\ fa = [i \in DOMAIN body |-> fa[i]] /\ \A i \in DOMAIN body : Acts(fa[i], ma[i], inner)
       /\ fm = [i \in DOMAIN body |-> fm[i]] /\ \A i \in DOMAIN body : Acts(fm[i], mm[i], inner)
  <2> HIDE DEF inner, body
  <2> QED
    BY <1>8, <1>9
<1>11. s.namespaces \in Seq(STRING)
  BY StateFields
<1>12. inner \in Seq(STRING)
  BY <1>11, AppendProperties
<1>13. Does(s, bound, Giving(<<n.id>>))
  BY BindDoes
<1>14. bound \in State /\ bound.namespaces = ns
  <2> HIDE DEF bound
  <2> QED
    BY <1>13, DoesState
<1>15. opened = [bound EXCEPT !.namespaces = inner]
  BY <1>14
<1>29. ASSUME c PROVE ClassIsPlain(n.id, around, bases, scope, attributes, ahead, methods)
  <2>1. /\ around.gives = {}
        /\ Apart(around.needs, {<<n.id>>} \union bases.gives \union methods.gives)
        /\ Apart(bases.needs, {<<n.id>>})
        /\ ahead.plain /\ ~ahead.yields
        /\ ahead.needs \subseteq methods.needs
        /\ ahead.generators \subseteq methods.generators
    BY <1>29
  <2>2. Apart(attributes.needs \union headers, {<<n.id>>} \union members.gives)
    BY <1>29
  <2>3. /\ \A i \in DOMAIN body : ~Overlooked(mean, inner, body[i])
        /\ Apart(attributes.needs, members.gives)
        /\ Dotted(members.gives) = {}
        => ScopeIsSeen(scope, attributes)
    <3> HIDE DEF inner, body
    <3> QED
      BY <1>4, ScopeSeen
  <2>4. (\A i \in DOMAIN body : ~Overlooked(mean, inner, body[i])) /\ Dotted(members.gives) = {}
    BY <1>29
  <2> HIDE DEF around, bases, members, scope, attributes, headers, ahead, methods, inner, body, c
  <2>5. Apart(attributes.needs, members.gives) /\ Apart(attributes.needs, {<<n.id>>})
    BY <2>2 DEF Apart
  <2>6. ScopeIsSeen(scope, attributes)
    BY <2>3, <2>4, <2>5
  <2> QED
    BY <2>1, <2>5, <2>6 DEF ClassIsPlain
<1> HIDE DEF inner, bound, opened, body, fa, fm, ma, mm, none, last, w, c, whole, members, scope
<1>16. /\ opened \in State /\ opened.namespaces = inner /\ opened.bindings = bound.bindings
       /\ opened.contexts = bound.contexts /\ opened.errors = bound.errors
       /\ opened.generators = bound.generators /\ opened.cached = bound.cached
  BY <1>12, <1>14, <1>15 DEF State
<1>17. Does(opened, based, bases)
  BY <1>16, BlockDoes
<1> HIDE DEF based, bases
<1>18. Does(opened, static, Then(bases, attributes))
  BY <1>4, <1>10, <1>16, <1>17, ThenInTurnDoes
<1> HIDE DEF static, attributes
<1>19. Does(opened, ctor, Then(Then(bases, attributes), ahead))
  <2>1. static \in State /\ static.namespaces = inner
    BY <1>16, <1>18, DoesState
  <2>2. Does(static, ctor, ahead)
    <3>1. CASE none
      BY <2>1, <3>1, DoesNothing
    <3>2. CASE ~none
      BY <1>7, <2>1, <3>2, CtorDoes
    <3> QED
      BY <3>1, <3>2
  <2> HIDE DEF ctor, ahead
  <2> QED
    BY <1>16, <1>18, <2>2, DoesOn
<1> HIDE DEF ctor, ahead
<1>20. Does(opened, visited, Then(Then(Then(bases, attributes), ahead), methods))
  BY <1>4, <1>10, <1>16, <1>19, ThenInTurnDoes
<1> HIDE DEF visited, methods
<1>21. Does(opened, done, r4)
  BY <1>16, <1>20, ThenBlockDoes
<1> HIDE DEF done, around, r4
<1>22. Means(bound, left, r4)
  <2>1. done \in State
    BY <1>21, DoesState
  <2>2. /\ left.bindings = done.bindings /\ left.contexts = done.contexts
        /\ left.errors = done.errors /\ left.generators = done.generators
        /\ left.cached = done.cached
    BY <2>1 DEF LeaveClass, State
  <2> HIDE DEF left
  <2>3. SameView(opened, bound) /\ SameView(done, left)
    BY <1>16, <2>2 DEF SameView, Names, Flag
  <2> QED
    BY <1>21, <2>3, MeansSame DEF Does
<1>23. left \in State /\ left.bindings = done.bindings
  <2>1. left \in State
    BY <1>1, <1>3 DEF Keeps
  <2>2. done \in State
    BY <1>21, DoesState
  <2> QED
    BY <2>1, <2>2 DEF LeaveClass, State
<1> HIDE DEF left
<1>24. Enters(bound, left, r4) /\ Grows(bound.bindings, left.bindings, inner)
  <2>1. Enters(opened, done, r4) /\ Keeps(opened, done)
    BY <1>21 DEF Does
  <2> QED
    BY <1>16, <1>23, <2>1 DEF Enters, Keeps
<1>25. Means(s, left, r)
  BY <1>13, <1>22, MeansOn DEF Does
<1>26. Enters(s, left, r)
  <2>1. Enters(s, bound, Giving(<<n.id>>)) /\ Len(s.bindings) <= Len(bound.bindings)
    BY <1>13 DEF Does, Keeps, Grows
  <2> QED
    BY <1>14, <1>23, <1>24, <2>1, EntersOn
<1>27. Does(s, left, r)
  BY <1>1, <1>3, <1>25, <1>26 DEF Does
<1>28. Within(r, w)
  <2> DEFINE g  == Giving(<<n.id>>)
             r1 == Then(bases, attributes)
             r2 == Then(r1, ahead)
             r3 == Then(r2, methods)
             w1 == Then(around, bases)
             w2 == Then(w1, scope)
             w3 == Then(w2, g)
  <2>0. NothingGiven(attributes) /\ NothingGiven(ahead)
    BY <1>5, <1>6 DEF NothingGiven
  <2>2. r4 = Then(r3, around) /\ r = Then(g, r4)
    BY DEF r4
  <2>3. whole = Then(w3, methods)
    BY DEF whole
  <2>4. c => ClassIsPlain(n.id, around, bases, scope, attributes, ahead, methods)
    BY <1>29
  <2> HIDE DEF r, r3
  <2>5. IsThen(r4, r3, around) /\ IsThen(r, g, r4)
    BY <2>2, ThenIs
  <2> HIDE DEF r2
  <2>6. IsThen(r3, r2, methods)
    BY ThenIs DEF r3
  <2> HIDE DEF r1
  <2>7. IsThen(r2, r1, ahead)
    BY ThenIs DEF r2
  <2>8. IsThen(r1, bases, attributes)
    BY ThenIs DEF r1
  <2> HIDE DEF w3, g
  <2>9. IsThen(whole, w3, methods)
    BY <2>3, ThenIs
  <2>1. ClassOf(w, whole, ahead) /\ (w.plain => c)
    <3>1. w = AsClass(Then(w3, methods), ahead, c)
      BY <1>2, <2>3
    <3> QED
      BY <3>1, <2>3, ClassFields
  <2> HIDE DEF w2
  <2>10. IsThen(w3, w2, g)
    BY ThenIs DEF w3
  <2> HIDE DEF w1
  <2>11. IsThen(w2, w1, scope)
    BY ThenIs DEF w2
  <2>12. IsThen(w1, around, bases)
    BY ThenIs DEF w1
  <2>13. ClassVisited(r, n.id, bases, attributes, ahead, methods, around)
    BY <2>5, <2>6, <2>7, <2>8 DEF ClassVisited, g
  <2>14. ClassMeant(whole, n.id, bases, scope, methods, around)
    BY <2>9, <2>10, <2>11, <2>12 DEF ClassMeant, g
  <2>15. w.plain => ClassIsPlain(n.id, around, bases, scope, attributes, ahead, methods)
    BY <2>1, <2>4
  <2> QED
    BY <2>0, <2>1, <2>13, <2>14, <2>15, ClassOrder
<1> QED
  BY <1>1, <1>27, <1>28, DoesWithin DEF w

-----------------------------------------------------------------------------
(* The visitor does what the tree means                                    *)

LEMMA ExecDoes ==
  ASSUME NEW exec, NEW mean, Understands(exec, mean), NEW s \in State, NEW ns, s.namespaces = ns,
         NEW n \in Node(Tree)
  PROVE  Does(s, Exec(exec, s, n), MeaningOf(mean, ns, n))
<1> DEFINE t == Exec(exec, s, n)
           w == MeaningOf(mean, ns, n)
<1> SUFFICES Does(s, t, w)
  OBVIOUS
<1>1. CASE n.kind \in {"name", "capture"} /\ n.id \in STRING
  <2>1. n.kind = "name" => t = Load(s, n.id)
    BY DEF Exec
  <2>2. n.kind = "name" => w = Using(n.id)
    BY DEF MeaningOf
  <2>3. n.kind = "capture" => t = Bind(s, n.id)
    BY DEF Exec
  <2>4. n.kind = "capture" => w = Giving(<<n.id>>)
    BY DEF MeaningOf
  <2> HIDE DEF t, w
  <2> QED
    BY <1>1, <2>1, <2>2, <2>3, <2>4, LoadDoes, BindDoes
<1>2. CASE n.kind \in {"op", "eval", "yield", "yieldfrom"} /\ n.value \in Seq(Tree)
  <2>1. n.kind = "op" => t = ExecAll(exec, s, n.value)
    BY DEF Exec
  <2>2. n.kind = "op" => w = All(mean, ns, n.value)
    BY DEF MeaningOf
  <2>3. n.kind = "eval" => t = ExecAll(exec, s, n.value)
    BY DEF Exec
  <2>4. n.kind = "eval" => w = All(mean, ns, n.value)
    BY DEF MeaningOf
  <2>5. n.kind = "yield" => t = Yield(exec, s, n)
    BY DEF Exec
  <2>6. n.kind = "yield" => w = Then(Yielding, All(mean, ns, n.value))
    BY DEF MeaningOf
  <2>7. n.kind = "yieldfrom" => t = ExecAll(exec, s, n.value)
    BY DEF Exec
  <2>8. n.kind = "yieldfrom" => w = YieldFromMeaning(mean, ns, n)
    BY DEF MeaningOf
  <2> HIDE DEF t, w
  <2> QED
    BY <1>2, <2>1, <2>2, <2>3, <2>4, <2>5, <2>6, <2>7, <2>8, BlockDoes, YieldDoes, YieldFromDoes
<1>3. CASE n.kind \in {"walrus", "assign", "aug"} /\ n.id \in STRING /\ n.value \in Seq(Tree)
  <2>1. n.kind = "walrus" => t = NamedExpr(exec, s, n)
    BY DEF Exec
  <2>2. n.kind = "walrus" => w = Then(All(mean, ns, n.value), Giving(<<n.id>>))
    BY DEF MeaningOf
  <2>3. n.kind = "assign" => t = Assign(exec, s, n)
    BY DEF Exec
  <2>4. n.kind = "assign" => w = Then(All(mean, ns, n.value), Giving(<<n.id>>))
    BY DEF MeaningOf
  <2>5. n.kind = "aug" => t = AugAssign(exec, s, n)
    BY DEF Exec
  <2>6. n.kind = "aug" => w = Then(Using(n.id), All(mean, ns, n.value))
    BY DEF MeaningOf
  <2> HIDE DEF t, w
  <2> QED
    BY <1>3, <2>1, <2>2, <2>3, <2>4, <2>5, <2>6, SimpleDoes
<1>17. CASE n.kind = "setattr" /\ n.id \in STRING /\ n.unknown \in SUBSET STRING /\ n.value \in Seq(Tree)
  <2>1. t = SetAttribute(exec, s, n)
    BY <1>17 DEF Exec
  <2>2. w = SetAttributeMeaning(mean, ns, n)
    BY <1>17 DEF MeaningOf
  <2> HIDE DEF t, w
  <2> QED
    BY <1>17, <2>1, <2>2, SetAttributeDoes
<1>4. CASE n.kind = "unpack" /\ n.value \in Seq(Tree)
  <2>1. t = Unpack(exec, s, n)
    BY <1>4 DEF Exec
  <2>2. w = UnpackMeaning(mean, ns, n)
    BY <1>4 DEF MeaningOf
  <2> HIDE DEF t, w
  <2> QED
    BY <1>4, <2>1, <2>2, UnpackDoes
<1>5. CASE n.kind \in {"global", "import"} /\ n.ids \in Seq(STRING)
  <2>1. n.kind = "global" => t = Global(s, n)
    BY DEF Exec
  <2>2. n.kind = "global" => w = UsingAll(n.ids)
    BY DEF MeaningOf
  <2>3. n.kind = "import" => t = Import(s, n)
    BY DEF Exec
  <2>4. n.kind = "import" => w = GivingAll(n.ids)
    BY DEF MeaningOf
  <2> HIDE DEF t, w
  <2> QED
    BY <1>5, <2>1, <2>2, <2>3, <2>4, GlobalDoes, ImportDoes
<1>6. CASE n.kind = "lambda" /\ n.args \in Arguments /\ n.value \in Seq(Tree)
  <2>1. t = Lambda(exec, s, n)
    BY <1>6 DEF Exec
  <2>2. w = LambdaMeaning(mean, ns, n)
    BY <1>6 DEF MeaningOf
  <2> HIDE DEF t, w
  <2> QED
    BY <1>6, <2>1, <2>2, LambdaDoes
<1>7. CASE /\ n.kind = "comp" /\ n.value \in Seq(Tree)
           /\ n.gens \in Seq([id : STRING, iter : Seq(Tree), ifs : Seq(Tree)])
  <2>1. t = Comprehension(exec, s, n)
    BY <1>7 DEF Exec
  <2>2. w = ComprehensionMeaning(mean, ns, n)
    BY <1>7 DEF MeaningOf
  <2> HIDE DEF t, w
  <2> QED
    BY <1>7, <2>1, <2>2, ComprehensionDoes
<1>8. CASE /\ n.kind = "for" /\ n.id \in STRING
           /\ n.iter \in Seq(Tree) /\ n.body \in Seq(Tree) /\ n.orelse \in Seq(Tree)
  <2>1. t = For(exec, s, n)
    BY <1>8 DEF Exec
  <2>2. w = ForMeaning(mean, ns, n)
    BY <1>8 DEF MeaningOf
  <2> HIDE DEF t, w
  <2> QED
    BY <1>8, <2>1, <2>2, ForDoes
<1>9. CASE /\ n.kind = "while"
           /\ n.test \in Seq(Tree) /\ n.body \in Seq(Tree) /\ n.orelse \in Seq(Tree)
  <2>1. t = While(exec, s, n)
    BY <1>9 DEF Exec
  <2>2. w = WhileMeaning(mean, ns, n)
    BY <1>9 DEF MeaningOf
  <2> HIDE DEF t, w
  <2> QED
    BY <1>9, <2>1, <2>2, WhileDoes
<1>10. CASE /\ n.kind = "if" /\ n.test \in Seq(Tree) /\ n.body \in Seq(Tree)
            /\ n.elifs \in Seq([test : Seq(Tree), body : Seq(Tree)])
  <2>1. t = If(exec, s, n)
    BY <1>10 DEF Exec
  <2>2. w = IfMeaning(mean, ns, n)
    BY <1>10 DEF MeaningOf
  <2> HIDE DEF t, w
  <2> QED
    BY <1>10, <2>1, <2>2, IfDoes
<1>11. CASE n.kind = "with" /\ n.value \in Seq(Tree) /\ n.body \in Seq(Tree)
  <2>1. t = With(exec, s, n)
    BY <1>11 DEF Exec
  <2>2. w = WithMeaning(mean, ns, n)
    BY <1>11 DEF MeaningOf
  <2> HIDE DEF t, w
  <2> QED
    BY <1>11, <2>1, <2>2, WithDoes
<1>12. CASE /\ n.kind = "try" /\ n.body \in Seq(Tree) /\ n.orelse \in Seq(Tree)
            /\ n.handlers \in Seq([test : Seq(Tree), id : STRING, body : Seq(Tree)])
  <2>1. t = Try(exec, s, n)
    BY <1>12 DEF Exec
  <2>2. w = TryMeaning(mean, ns, n)
    BY <1>12 DEF MeaningOf
  <2> HIDE DEF t, w
  <2> QED
    BY <1>12, <2>1, <2>2, TryDoes
<1>13. CASE /\ n.kind = "match" /\ n.value \in Seq(Tree)
            /\ n.cases \in Seq([pattern : Seq(Tree), guard : Seq(Tree), body : Seq(Tree)])
  <2>1. t = Match(exec, s, n)
    BY <1>13 DEF Exec
  <2>2. w = MatchMeaning(mean, ns, n)
    BY <1>13 DEF MeaningOf
  <2> HIDE DEF t, w
  <2> QED
    BY <1>13, <2>1, <2>2, MatchDoes
<1>14. CASE /\ n.kind = "def" /\ n.id \in STRING /\ n.args \in Arguments
            /\ n.body \in Seq(Tree) /\ n.decorators \in Seq(Tree)
  <2>1. t = FunctionDef(exec, s, n)
    BY <1>14 DEF Exec
  <2>2. w = FunctionMeaning(mean, ns, n)
    BY <1>14 DEF MeaningOf
  <2> HIDE DEF t, w
  <2> QED
    BY <1>14, <2>1, <2>2, FunctionDefDoes
<1>15. CASE /\ n.kind = "class" /\ n.id \in STRING /\ n.bases \in Seq(Tree)
            /\ n.body \in Seq(Tree) /\ n.decorators \in Seq(Tree)
  <2>1. t = ClassDef(exec, s, n)
    BY <1>15 DEF Exec
  <2>2. w = ClassMeaning(mean, ns, n)
    BY <1>15 DEF MeaningOf
  <2> HIDE DEF t, w
  <2> QED
    BY <1>15, <2>1, <2>2, ClassDefDoes
<1>16. Shaped(n)
  BY NodeShape
<1> HIDE DEF t, w
<1> QED
  BY <1>1, <1>2, <1>3, <1>4, <1>5, <1>6, <1>7, <1>8, <1>9,
     <1>10, <1>11, <1>12, <1>13, <1>14, <1>15, <1>16, <1>17 DEF Shaped

\* What the tree means one level deeper than mean says.
MoreMeaning(mean) == [ns \in Seq(STRING) |-> [n \in Tree |-> MeaningOf(mean, ns, n)]]
Silent == [ns \in Seq(STRING) |-> [n \in Tree |-> Nothing]]

MeansUpto(f, k) == f = [i \in 0 .. k |-> IF i = 0 THEN Silent ELSE MoreMeaning(f[i - 1])]

LEMMA MeaningsExist == ASSUME NEW n \in Nat PROVE \E f : MeansUpto(f, n)
<1> DEFINE S == {k \in Nat : \E f : MeansUpto(f, k)}
<1>1. 0 \in S
  <2> DEFINE f == [i \in 0 .. 0 |-> Silent]
  <2>1. \A i \in 0 .. 0 : i = 0
    OBVIOUS
  <2>2. MeansUpto(f, 0)
    BY <2>1 DEF MeansUpto
  <2> QED
    BY <2>2
<1>2. ASSUME NEW k \in Nat, k \in S PROVE k + 1 \in S
  <2>1. PICK a : MeansUpto(a, k)
    BY <1>2
  <2> DEFINE c == [i \in 0 .. k + 1 |-> IF i = k + 1 THEN MoreMeaning(a[k]) ELSE a[i]]
  <2>2. ASSUME NEW i \in 0 .. k + 1
        PROVE  c[i] = IF i = 0 THEN Silent ELSE MoreMeaning(c[i - 1])
    <3>1. CASE i = k + 1
      <4>1. c[i] = MoreMeaning(a[k]) /\ i # 0 /\ i - 1 = k /\ k \in 0 .. k + 1 /\ k # k + 1
        BY <3>1
      <4>2. c[i - 1] = a[k]
        BY <4>1
      <4> HIDE DEF c
      <4> QED
        BY <4>1, <4>2
    <3>2. CASE i # k + 1
      <4>1. i \in 0 .. k /\ c[i] = a[i]
        BY <3>2
      <4>2. i # 0 => i - 1 \in 0 .. k + 1 /\ i - 1 # k + 1
        BY <4>1
      <4>3. i # 0 => c[i - 1] = a[i - 1]
        BY <4>2
      <4>4. a[i] = IF i = 0 THEN Silent ELSE MoreMeaning(a[i - 1])
        BY <2>1, <4>1 DEF MeansUpto
      <4> HIDE DEF c
      <4> QED
        BY <4>1, <4>3, <4>4
    <3> QED
      BY <3>1, <3>2
  <2>3. c = [i \in 0 .. k + 1 |-> c[i]]
    OBVIOUS
  <2> HIDE DEF c
  <2>4. MeansUpto(c, k + 1)
    BY <2>2, <2>3 DEF MeansUpto
  <2> QED
    BY <2>4
<1> HIDE DEF S
<1>3. n \in S
  BY <1>1, <1>2, Climbs
<1> QED
  BY <1>3 DEF S

LEMMA MeaningsAgree ==
  ASSUME NEW n \in Nat, NEW k \in Nat, n <= k, NEW f, NEW g, MeansUpto(f, n), MeansUpto(g, k)
  PROVE  f[n] = g[n]
<1> DEFINE S == {i \in Nat : i <= n => f[i] = g[i]}
<1>1. 0 \in S
  <2>1. 0 \in 0 .. n /\ 0 \in 0 .. k
    OBVIOUS
  <2> QED
    BY <2>1 DEF MeansUpto
<1>2. ASSUME NEW i \in Nat, i \in S PROVE i + 1 \in S
  <2> SUFFICES ASSUME i + 1 <= n PROVE f[i + 1] = g[i + 1]
    OBVIOUS
  <2>1. i + 1 \in 0 .. n /\ i + 1 \in 0 .. k /\ (i + 1) - 1 = i /\ i + 1 # 0 /\ i <= n
    OBVIOUS
  <2>2. f[i + 1] = MoreMeaning(f[i]) /\ g[i + 1] = MoreMeaning(g[i])
    BY <2>1 DEF MeansUpto
  <2> QED
    BY <1>2, <2>1, <2>2
<1> HIDE DEF S
<1>3. n \in S
  BY <1>1, <1>2, Climbs
<1> QED
  BY <1>3 DEF S

LEMMA MeaningUnfolds ==
  Meaning[0] = Silent /\ \A k \in Nat : Meaning[k + 1] = MoreMeaning(Meaning[k])
<1> DEFINE F(k) == CHOOSE f : MeansUpto(f, k)
           h == [k \in Nat |-> F(k)[k]]
           Is(v) == v = [k \in Nat |-> [ns \in Seq(STRING) |-> [n \in Tree |->
                           IF k = 0 THEN Nothing ELSE MeaningOf(v[k - 1], ns, n)]]]
<1>1. \A k \in Nat : MeansUpto(F(k), k)
  BY MeaningsExist
<1> HIDE DEF F
<1>2. h[0] = Silent
  <2>1. 0 \in 0 .. 0
    OBVIOUS
  <2> QED
    BY <1>1, <2>1 DEF MeansUpto
<1>3. ASSUME NEW k \in Nat, k # 0 PROVE h[k] = MoreMeaning(h[k - 1])
  <2>1. k - 1 \in Nat /\ k - 1 <= k /\ k \in 0 .. k
    BY <1>3
  <2>2. MeansUpto(F(k), k) /\ MeansUpto(F(k - 1), k - 1)
    BY <1>1, <2>1
  <2>3. F(k - 1)[k - 1] = F(k)[k - 1]
    BY <2>1, <2>2, MeaningsAgree
  <2>4. F(k)[k] = MoreMeaning(F(k)[k - 1])
    BY <1>3, <2>1, <2>2 DEF MeansUpto
  <2> QED
    BY <2>1, <2>3, <2>4
<1>4. ASSUME NEW k \in Nat
      PROVE  h[k] = [ns \in Seq(STRING) |-> [n \in Tree |->
                       IF k = 0 THEN Nothing ELSE MeaningOf(h[k - 1], ns, n)]]
  <2> HIDE DEF h
  <2>1. CASE k = 0
    BY <1>2, <2>1 DEF Silent
  <2>2. CASE k # 0
    BY <1>3, <2>2 DEF MoreMeaning
  <2> QED
    BY <2>1, <2>2
<1>5. h = [k \in Nat |-> h[k]]
  OBVIOUS
<1> HIDE DEF h
<1>6. Is(h)
  BY <1>4, <1>5
<1>7. Meaning = CHOOSE v : Is(v)
  BY DEF Meaning
<1>8. Is(Meaning)
  <2> HIDE DEF Is
  <2> QED
    BY <1>6, <1>7
<1>9. Meaning[0] = Silent
  BY <1>8 DEF Silent
<1>10. ASSUME NEW k \in Nat PROVE Meaning[k + 1] = MoreMeaning(Meaning[k])
  <2>1. k + 1 \in Nat /\ k + 1 # 0 /\ (k + 1) - 1 = k
    OBVIOUS
  <2> QED
    BY <1>8, <2>1 DEF MoreMeaning
<1> QED
  BY <1>9, <1>10

LEMMA DeeperUnderstands ==
  ASSUME NEW exec, NEW mean, Understands(exec, mean)
  PROVE  Understands(Deeper(exec), MoreMeaning(mean))
<1>1. Executes(Deeper(exec))
  BY DeeperExecutes DEF Understands
<1>2. ASSUME NEW n \in Tree, NEW s \in State
      PROVE  Does(s, Deeper(exec)[n][s], MoreMeaning(mean)[s.namespaces][n])
  <2>1. s.namespaces \in Seq(STRING)
    BY StateFields
  <2>2. MoreMeaning(mean)[s.namespaces][n] = MeaningOf(mean, s.namespaces, n)
    BY <2>1 DEF MoreMeaning
  <2>3. Deeper(exec)[n][s] = Exec(exec, s, n)
    BY DEF Deeper
  <2>4. n \in Node(Tree)
    BY TreeAssumption
  <2>5. Does(s, Exec(exec, s, n), MeaningOf(mean, s.namespaces, n))
    BY <2>4, ExecDoes
  <2> QED
    BY <2>2, <2>3, <2>5
<1> QED
  BY <1>1, <1>2 DEF Understands

\* The visitor does what the tree means, to whatever depth it goes.
LEMMA VisitorUnderstands == ASSUME NEW k \in Nat PROVE Understands(Visitor[k], Meaning[k])
<1> DEFINE S == {i \in Nat : Understands(Visitor[i], Meaning[i])}
<1>1. 0 \in S
  <2>1. ASSUME NEW n \in Tree, NEW s \in State
        PROVE  Does(s, Idle[n][s], Silent[s.namespaces][n])
    <3>1. s.namespaces \in Seq(STRING)
      BY StateFields
    <3>2. Idle[n][s] = s /\ Silent[s.namespaces][n] = Nothing
      BY <3>1 DEF Idle, Silent
    <3> QED
      BY <3>2, DoesNothing
  <2>2. Executes(Idle)
    BY KeepsSelf DEF Idle, Executes
  <2>3. Understands(Idle, Silent)
    BY <2>1, <2>2 DEF Understands
  <2> QED
    BY <2>3, VisitorUnfolds, MeaningUnfolds
<1>2. ASSUME NEW i \in Nat, i \in S PROVE i + 1 \in S
  <2>1. Understands(Deeper(Visitor[i]), MoreMeaning(Meaning[i]))
    BY <1>2, DeeperUnderstands
  <2> QED
    BY <2>1, VisitorUnfolds, MeaningUnfolds
<1> HIDE DEF S
<1>3. Nat \subseteq S
  BY <1>1, <1>2, Climbs
<1> QED
  BY <1>3 DEF S

-----------------------------------------------------------------------------
(* The program                                                             *)

\* What is meant by one more node.
LEMMA AllOfMore ==
  ASSUME NEW T, NEW p \in Seq(T), NEW n \in T, NEW mean, NEW ns
  PROVE  All(mean, ns, Append(p, n)) = Then(All(mean, ns, p), mean[ns][n])
<1> DEFINE q == Append(p, n)
           l == Len(p)
           m == [i \in DOMAIN p |-> mean[ns][p[i]]]
           k == [i \in DOMAIN q |-> mean[ns][q[i]]]
<1>1. /\ l \in Nat /\ Len(q) = l + 1 /\ DOMAIN p = 1 .. l /\ DOMAIN q = 1 .. l + 1
      /\ \A i \in 1 .. l : q[i] = p[i]
  BY AppendProperties
<1>2. q[l + 1] = n
  BY AppendProperties
<1>3. All(mean, ns, p) = AllOf(p, m) /\ All(mean, ns, q) = AllOf(q, k)
  BY DEF All
<1> HIDE DEF q
<1>4. l + 1 \in 1 .. l + 1 /\ (l + 1) - 1 = l /\ l <= l + 1 /\ l + 1 \in Nat
      /\ \A i \in 1 .. l : i \in 1 .. l + 1
  BY <1>1
<1>5. /\ \A i \in 1 .. l : m[i] = k[i]
      /\ k[l + 1] = mean[ns][n]
  BY <1>1, <1>2, <1>4
<1> HIDE DEF l, m, k
<1>6. PICK a : Accumulates(a, l, m) /\ AllOf(p, m) = a[l]
  BY <1>1, AllOfUnfolds DEF l
<1>7. PICK c : Accumulates(c, l + 1, k) /\ AllOf(q, k) = c[l + 1]
  BY <1>1, <1>4, AllOfUnfolds
<1>8. a[l] = c[l]
  <2> DEFINE u == l + 1
  <2>1. l \in Nat /\ u \in Nat /\ l <= u
    BY <1>1, <1>4
  <2>2. SameUpto(l, m, k)
    BY <1>5 DEF SameUpto
  <2>3. Accumulates(a, l, m)
    BY <1>6
  <2>4. Accumulates(c, u, k)
    BY <1>7
  <2> HIDE DEF u
  <2> QED
    BY <2>1, <2>2, <2>3, <2>4, AccumulatesAgree
<1>9. c[l + 1] = Then(c[l], k[l + 1])
  BY <1>4, <1>7 DEF Accumulates
<1>10. All(mean, ns, q) = Then(All(mean, ns, p), mean[ns][n])
  BY <1>3, <1>5, <1>6, <1>7, <1>8, <1>9
<1> QED
  BY <1>10 DEF q

LEMMA AllOfNoNodes == ASSUME NEW mean, NEW ns PROVE All(mean, ns, <<>>) = Nothing
BY AllOfNone DEF All

\* The module's entry point gives its name, and does and needs nothing.
LEMMA EntryMeaning ==
  ASSUME NEW mean
  PROVE  LET w == FunctionMeaning(mean, <<>>, EntryPoint)
         IN  /\ w.needs = {} /\ w.gives = {<<EntryPoint.id>>} /\ w.masked = {}
             /\ w.generators = {} /\ w.yields = FALSE /\ w.plain = TRUE
<1> DEFINE n == EntryPoint
           name == <<n.id>>
           around == All(mean, name, n.decorators)
           params == Parameters(mean, name, n.args)
           body   == All(mean, name, n.body)
           inner  == Then(params, body)
           w == FunctionMeaning(mean, <<>>, n)
<1>1. n.args = <<>> /\ n.body = <<>> /\ n.decorators = <<>>
  BY DEF EntryPoint
<1> HIDE DEF n
<1>2. around = Nothing /\ body = Nothing
  BY <1>1, AllOfNoNodes
<1>3. /\ params.needs = {} /\ params.gives = {} /\ params.masked = {}
      /\ params.generators = {} /\ params.yields = FALSE /\ params.plain
  <2> DEFINE defaults == AllOf(n.args, [i \in DOMAIN n.args |-> All(mean, name, n.args[i].default)])
             names    == AllOf(n.args, [i \in DOMAIN n.args |-> Giving(<<n.args[i].id>>)])
             p == Then(defaults, names)
             c == /\ \A i \in DOMAIN n.args : ~n.args[i].variadic
                  /\ \A i, j \in DOMAIN n.args :
                       j < i => n.args[j].id \notin All(mean, name, n.args[i].default).needs
                  /\ defaults.gives = {}
  <2>1. defaults = Nothing /\ names = Nothing
    BY <1>1, AllOfNone
  <2>2. DOMAIN n.args = {}
    BY <1>1
  <2>3. c
    BY <2>1, <2>2, NothingFields
  <2>4. params = Provided(p, c)
    BY DEF Parameters
  <2> HIDE DEF params, c, defaults, names
  <2>5. /\ params.needs = p.needs /\ params.gives = p.gives /\ params.masked = p.masked
        /\ params.generators = p.generators /\ params.yields = p.yields
        /\ params.plain = (p.plain /\ c)
    BY <2>4, ProvidedFields
  <2>6. IsThen(p, defaults, names)
    BY ThenIs
  <2> HIDE DEF p
  <2> QED
    BY <2>1, <2>3, <2>5, <2>6, NothingFields DEF IsThen
<1>4. name = Append(<<>>, n.id)
  OBVIOUS
<1>5. FunctionHasFields(mean, <<>>, n, name)
  BY <1>4, FunctionMeaningFields
<1> HIDE DEF name
<1>6. /\ w.plain => w.needs = around.needs
           \union {x \in inner.needs : <<x>> \notin around.gives \union {name}}
      /\ w.gives = around.gives \union {name}
      /\ w.masked = IF name \in params.gives THEN {name} ELSE {}
      /\ w.generators = (around.generators \union inner.generators)
                          \union (IF body.yields THEN {name} ELSE {})
      /\ w.yields = (around.yields \/ params.yields)
      /\ w.plain <=> /\ around.plain /\ params.plain /\ body.plain
                     /\ ~params.yields /\ ~around.yields
                     /\ Apart(params.needs, {name})
                     /\ around.gives = {}
                     /\ Apart(around.needs, {name} \union params.gives \union body.gives)
  BY <1>5 DEF FunctionHasFields
<1>7. w.plain \in BOOLEAN
  BY DEF FunctionMeaning, Provided
<1> HIDE DEF around, params, body, w
<1>11. IsThen(inner, params, body)
  BY ThenIs
<1> HIDE DEF inner
<1>8. inner.needs = {} /\ inner.generators = {}
  BY <1>2, <1>3, <1>11, NothingFields DEF IsThen
<1>10. w.plain
  BY <1>2, <1>3, <1>6, NothingFields DEF Apart
<1>9. w.needs = {} /\ w.gives = {name} /\ w.masked = {} /\ w.generators = {} /\ w.yields = FALSE
  BY <1>2, <1>3, <1>6, <1>8, <1>10, NothingFields
<1> QED
  BY <1>7, <1>9, <1>10 DEF n, name, w

LEMMA EmptyNames == Names(Empty) = {<<b>> : b \in ToSet(Builtins)}
<1> DEFINE l == Len(Builtins)
<1>1. l \in Nat /\ DOMAIN Builtins = 1 .. l
  BY BuiltinsAssumption
<1>2. Empty.bindings = [i \in 1 .. l |-> [name |-> <<Builtins[i]>>, fun |-> "no"]]
  BY <1>1 DEF Empty
<1> HIDE DEF l
<1>3. Len(Empty.bindings) = l
  BY <1>1, <1>2
<1>4. \A i \in 1 .. l : Empty.bindings[i].name = <<Builtins[i]>>
  BY <1>2
<1>5. ToSet(Builtins) = {Builtins[i] : i \in 1 .. l}
  BY <1>1 DEF ToSet
<1>6. Names(Empty) = {<<Builtins[i]>> : i \in 1 .. l}
  BY <1>3, <1>4 DEF Names
<1> QED
  BY <1>5, <1>6

\* The analyser of a new module knows the names that are there, and has not
\* found anything yet.
LEMMA StartGives ==
  /\ Start \in State /\ Start.namespaces = <<>> /\ Start.cached = FALSE
  /\ Names(Start) = Predefined
  /\ Start.errors = {} /\ Start.generators = {}
  /\ \A i \in 1 .. Len(Start.bindings) : Start.bindings[i].fun # "untyped"
<1> DEFINE w == FunctionMeaning(Meaning[0], <<>>, EntryPoint)
           id == EntryPoint.id
<1>1. /\ w.needs = {} /\ w.gives = {<<id>>} /\ w.masked = {}
      /\ w.generators = {} /\ w.yields = FALSE /\ w.plain = TRUE
  BY EntryMeaning
<1>2. /\ EntryPoint.id \in STRING /\ EntryPoint.args \in Arguments
      /\ EntryPoint.body \in Seq(Tree) /\ EntryPoint.decorators \in Seq(Tree)
  <2>1. \A T : <<>> \in Seq(T)
    OBVIOUS
  <2>2. EntryPoint.id = "__init__"
    BY DEF EntryPoint
  <2>3. EntryPoint.args = <<>> /\ EntryPoint.body = <<>> /\ EntryPoint.decorators = <<>>
    BY DEF EntryPoint
  <2>4. EntryPoint.id \in STRING
    BY <2>2, CtorAssumption
  <2> QED
    BY <2>1, <2>3, <2>4 DEF Arguments
<1>3. Start = FunctionDef(Visitor[0], Empty, EntryPoint)
  BY DEF Start, Exec, EntryPoint
<1>4. Empty \in State /\ Empty.namespaces = <<>> /\ Empty.cached = FALSE
  BY EmptyState
<1>5. Understands(Visitor[0], Meaning[0])
  BY VisitorUnderstands
<1>6. Does(Empty, Start, w)
  BY <1>2, <1>3, <1>4, <1>5, FunctionDefDoes
<1> HIDE DEF w, id
<1>7. Start \in State /\ Start.namespaces = <<>> /\ Start.cached = FALSE
  BY <1>4, <1>6 DEF Does, Keeps
<1>8. Empty.errors = {} /\ Empty.generators = {}
  BY DEF Empty
<1>9. AtLeast(Empty, Start, w) /\ AtMost(Empty, Start, w)
  BY <1>1, <1>4, <1>6 DEF Does, Means
<1>10. Names(Empty) \subseteq Names(Start) /\ Names(Start) \subseteq Names(Empty) \union w.gives
  BY <1>6 DEF Does, Means
<1>11. Names(Start) = Predefined
  <2>1. w.gives \subseteq Names(Start)
    BY <1>9 DEF AtLeast
  <2>2. Names(Start) = Names(Empty) \union {<<id>>}
    BY <1>1, <1>10, <2>1
  <2> QED
    BY <2>2, EmptyNames DEF Predefined, id
<1>12. Start.errors = {} /\ Start.generators = {}
  <2>1. Needed(Empty, w) = {}
    BY <1>1 DEF Needed
  <2> QED
    BY <1>1, <1>8, <1>9, <2>1 DEF AtMost
<1>13. ASSUME NEW i \in 1 .. Len(Start.bindings) PROVE Start.bindings[i].fun # "untyped"
  <2>1. Grows(Empty.bindings, Start.bindings, Empty.namespaces)
    BY <1>6 DEF Does, Keeps
  <2>2. Len(Empty.bindings) \in Nat /\ Len(Start.bindings) \in Nat
    BY <1>4, <1>7, StateFields
  <2>3. CASE i \in 1 .. Len(Empty.bindings)
    BY <2>1, <2>3, EmptyState DEF Grows
  <2>4. CASE i \notin 1 .. Len(Empty.bindings)
    <3>1. i \in Len(Empty.bindings) + 1 .. Len(Start.bindings)
      BY <2>2, <2>4
    <3> QED
      BY <1>1, <1>6, <3>1 DEF Does, Enters
  <2> QED
    BY <2>3, <2>4
<1> QED
  BY <1>7, <1>11, <1>12, <1>13

\* What the program means is what its analysis has done.
Explained == Does(Start, sema, ProgramMeaning)

LEMMA MeaningOfProgram == Spec => []Explained
<1>1. Init => Explained
  <2> SUFFICES ASSUME Init PROVE Explained
    OBVIOUS
  <2>1. ProgramMeaning = Nothing
    BY AllOfNoNodes DEF Init, ProgramMeaning
  <2>2. sema = Start
    BY DEF Init
  <2> QED
    BY <2>1, <2>2, StartGives, DoesNothing DEF Explained
<1>2. IInv /\ Explained /\ [Next]_vars => Explained'
  <2> SUFFICES ASSUME IInv, Explained, [Next]_vars PROVE Explained'
    OBVIOUS
  <2>1. CASE UNCHANGED vars
    BY <2>1 DEF Explained, ProgramMeaning, vars
  <2>2. ASSUME NEW n \in Statement, Analyse(n) PROVE Explained'
    <3> DEFINE mean == Meaning[MaxNesting]
               visit == Visitor[MaxNesting]
    <3>1. sema \in State /\ sema.namespaces = <<>> /\ program \in Seq(Statement)
      BY DEF IInv, TypeOK
    <3>2. n \in Tree
      BY TreeAssumption
    <3>3. Understands(visit, mean)
      BY NestingAssumption, VisitorUnderstands
    <3>4. program' = Append(program, n) /\ sema' = visit[n][sema]
      BY <2>2 DEF Analyse
    <3>5. ProgramMeaning = All(mean, <<>>, program) /\ ProgramMeaning' = All(mean, <<>>, program')
      BY DEF ProgramMeaning
    <3> HIDE DEF mean, visit
    <3>6. Does(sema, sema', mean[<<>>][n])
      BY <3>1, <3>2, <3>3, <3>4 DEF Understands
    <3>7. ProgramMeaning' = Then(ProgramMeaning, mean[<<>>][n])
      BY <3>1, <3>4, <3>5, AllOfMore
    <3>8. Does(Start, sema', Then(ProgramMeaning, mean[<<>>][n]))
      BY <3>6, StartGives, DoesOn DEF Explained
    <3> QED
      BY <3>7, <3>8 DEF Explained
  <2> QED
    BY <2>1, <2>2 DEF Next
<1> QED
  BY <1>1, <1>2, Invariance, PTL DEF Spec

LEMMA ExplainedIsExact ==
  ASSUME IInv, Explained
  PROVE  /\ {b.name : b \in ToSet(sema.bindings)} \subseteq Predefined \union ProgramMeaning.gives
         /\ ProgramMeaning.plain => NamesAreExact /\ GeneratorsYield
         /\ FunctionsTyped
<1> DEFINE m == ProgramMeaning
           l == Len(sema.bindings)
           names == {b.name : b \in ToSet(sema.bindings)}
<1>1. Means(Start, sema, m) /\ Enters(Start, sema, m) /\ Grows(Start.bindings, sema.bindings, <<>>)
  BY StartGives DEF Explained, Does, Keeps
<1>2. l \in Nat /\ DOMAIN sema.bindings = 1 .. l
  BY StateFields DEF IInv, TypeOK
<1>3. names = Names(sema)
  <2>1. ToSet(sema.bindings) = {sema.bindings[i] : i \in 1 .. l}
    BY <1>2 DEF ToSet
  <2> QED
    BY <2>1 DEF Names
<1> HIDE DEF m, l, names
<1>4. Names(Start) \subseteq names /\ names \subseteq Predefined \union m.gives
  BY <1>1, <1>3, StartGives DEF Means
<1>5. ASSUME m.plain
      PROVE  sema.errors = {id \in m.needs : <<id>> \notin Predefined} /\ names = Predefined \union m.gives
  <2>1. AtLeast(Start, sema, m) /\ AtMost(Start, sema, m)
    BY <1>1, <1>5, StartGives DEF Means
  <2>2. Needed(Start, m) = {id \in m.needs : <<id>> \notin Predefined}
    BY StartGives DEF Needed
  <2>3. sema.errors = Needed(Start, m)
    BY <2>1, StartGives DEF AtLeast, AtMost
  <2>4. m.gives \subseteq names
    BY <1>3, <2>1 DEF AtLeast
  <2> QED
    BY <1>4, <2>2, <2>3, <2>4, StartGives
<1>6. ASSUME m.plain PROVE sema.generators = m.generators
  <2>1. AtLeast(Start, sema, m) /\ AtMost(Start, sema, m)
    BY <1>1, <1>6, StartGives DEF Means
  <2> QED
    BY <2>1, StartGives DEF AtLeast, AtMost
<1>7. ASSUME NEW i \in DOMAIN sema.bindings, sema.bindings[i].fun = "untyped"
      PROVE  sema.bindings[i].name \in m.masked
  <2>1. Len(Start.bindings) \in Nat
    BY StartGives, StateFields
  <2>2. CASE i \in 1 .. Len(Start.bindings)
    <3>1. sema.bindings[i] = Start.bindings[i]
      BY <1>1, <2>2 DEF Grows
    <3> QED
      BY <1>7, <2>2, <3>1, StartGives
  <2>3. CASE i \notin 1 .. Len(Start.bindings)
    <3>1. i \in Len(Start.bindings) + 1 .. Len(sema.bindings)
      BY <1>2, <2>1, <2>3 DEF l
    <3> QED
      BY <1>1, <1>7, <3>1 DEF Enters
  <2> QED
    BY <2>2, <2>3
<1>8. m.plain => NamesAreExact /\ GeneratorsYield
  BY <1>5, <1>6 DEF NamesAreExact, Undefined, GeneratorsYield, m, names
<1>9. FunctionsTyped
  BY <1>7 DEF FunctionsTyped, m
<1> QED
  BY <1>4, <1>8, <1>9 DEF m, names

\* Whatever the statements of a program are and however they are nested, and if
\* they are none of those the analyser is known to read differently: the array
\* of bindings, searched from its end and cut back by each scope, is lexical
\* scoping.  A NameError is raised for the names no scope defines, and no other.
THEOREM SearchingIsScoping == Spec => [](ProgramMeaning.plain => NamesAreExact)
<1>1. IInv /\ Explained => (ProgramMeaning.plain => NamesAreExact)
  BY ExplainedIsExact
<1> QED
  BY <1>1, Invariance, MeaningOfProgram, PTL

\* ... and the functions called as generators are those with a yield of their
\* own: no flag of a function inside or around is taken for theirs.
THEOREM OwnYieldsOnly == Spec => [](ProgramMeaning.plain => GeneratorsYield)
<1>1. IInv /\ Explained => (ProgramMeaning.plain => GeneratorsYield)
  BY ExplainedIsExact
<1> QED
  BY <1>1, Invariance, MeaningOfProgram, PTL

\* Whatever the program, an entry set_type has missed is that of a function
\* with a parameter of its name.
THEOREM OnlyMaskedAreUntyped == Spec => []FunctionsTyped
<1>1. IInv /\ Explained => FunctionsTyped
  BY ExplainedIsExact
<1> QED
  BY <1>1, Invariance, MeaningOfProgram, PTL

\* Whatever the program, nothing that a function, a class, a comprehension or a
\* handler has bound for itself is left among the names of the module.
THEOREM NoLocalNameIsLeft ==
  Spec => []({b.name : b \in ToSet(sema.bindings)} \subseteq Predefined \union ProgramMeaning.gives)
<1>1. IInv /\ Explained
        => {b.name : b \in ToSet(sema.bindings)} \subseteq Predefined \union ProgramMeaning.gives
  BY ExplainedIsExact
<1> QED
  BY <1>1, Invariance, MeaningOfProgram, PTL

\* Where every statement is read as it is meant, so is every program.
LEMMA PlainProgram ==
  ASSUME \A n \in Statement : Meaning[MaxNesting][<<>>][n].plain
  PROVE  Spec => [](ProgramMeaning.plain)
<1>1. Init => ProgramMeaning.plain
  <2>1. Init => ProgramMeaning = Nothing
    BY AllOfNoNodes DEF Init, ProgramMeaning
  <2> QED
    BY <2>1, NothingFields
<1>2. IInv /\ ProgramMeaning.plain /\ [Next]_vars => (ProgramMeaning.plain)'
  <2> SUFFICES ASSUME IInv, ProgramMeaning.plain, [Next]_vars PROVE (ProgramMeaning.plain)'
    OBVIOUS
  <2>1. CASE UNCHANGED vars
    BY <2>1 DEF ProgramMeaning, vars
  <2>2. ASSUME NEW n \in Statement, Analyse(n) PROVE (ProgramMeaning.plain)'
    <3> DEFINE mean == Meaning[MaxNesting]
    <3>1. program \in Seq(Statement) /\ program' = Append(program, n)
      BY <2>2 DEF IInv, TypeOK, Analyse
    <3>2. ProgramMeaning = All(mean, <<>>, program) /\ ProgramMeaning' = All(mean, <<>>, program')
      BY DEF ProgramMeaning
    <3>3. mean[<<>>][n].plain
      OBVIOUS
    <3> HIDE DEF mean
    <3>4. ProgramMeaning' = Then(ProgramMeaning, mean[<<>>][n])
      BY <3>1, <3>2, AllOfMore
    <3>5. (ProgramMeaning').plain = (ProgramMeaning.plain /\ mean[<<>>][n].plain)
      BY <3>4, ThenFields
    <3> QED
      BY <3>3, <3>5
  <2> QED
    BY <2>1, <2>2 DEF Next
<1> QED
  BY <1>1, <1>2, Invariance, PTL DEF Spec

\* So for programs of such statements both hold with no condition on the state,
\* as they do for those that are run.
THEOREM PlainProgramsAreExact ==
  ASSUME \A n \in Statement : Meaning[MaxNesting][<<>>][n].plain
  PROVE  Spec => [](NamesAreExact /\ GeneratorsYield)
<1>1. Spec => [](ProgramMeaning.plain)
  BY PlainProgram
<1>2. (ProgramMeaning.plain => NamesAreExact) /\ (ProgramMeaning.plain => GeneratorsYield)
        /\ ProgramMeaning.plain => NamesAreExact /\ GeneratorsYield
  OBVIOUS
<1> QED
  BY <1>1, <1>2, SearchingIsScoping, OwnYieldsOnly, PTL
=============================================================================
