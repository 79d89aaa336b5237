---------------------------- MODULE SumsAndRings ----------------------------
(***************************************************************************)
(* Two things that the proofs about the data paths have in common: sums    *)
(* over threads, calls or descriptors, and what the records of a ring will *)
(* make of a user-space table once they are drained.                       *)
(*                                                                         *)
(* Both come down to an induction, over a finite set or along the ring.    *)
(* The library states induction for an operator; here it is the existence  *)
(* of a minimal counterexample (MinimalSubset, LeastNumber), which speaks  *)
(* of sets only.                                                           *)
(***************************************************************************)
EXTENDS Integers, Sequences, Functions, FiniteSetTheorems, SequenceTheorems, TLAPS

-----------------------------------------------------------------------------
(* Sums.  SumFunction is a fold that takes the elements of the domain in   *)
(* an order of CHOOSE's.                                                   *)

First(s) == CHOOSE x \in s : TRUE

(* g[s] is the sum over s of f, for each subset s of S.                    *)
Fold(f, S, g) ==
  g = [s \in SUBSET S |-> IF s = {} THEN 0 ELSE f[First(s)] + g[s \ {First(s)}]]

(* Induction over the subsets of a finite set, without a predicate.        *)
LEMMA MinimalSubset ==
  ASSUME NEW S, IsFiniteSet(S), NEW F \in SUBSET (SUBSET S), F # {}
  PROVE  \E T \in F : \A U \in F : U \subseteq T => U = T
<1>1. F \subseteq FiniteSubsetsOf(S)
  BY FS_Subset DEF FiniteSubsetsOf
<1>2. PICK T \in F : \A U \in F : <<U, T>> \notin StrictSubsetOrdering(S)
  BY <1>1, FS_StrictSubsetOrderingWellFounded, WFMin
<1>3. \A U \in F : U \subseteq T => U = T
  BY <1>2 DEF StrictSubsetOrdering
<1> QED
  BY <1>3

LEMMA FoldUnique ==
  ASSUME NEW S, IsFiniteSet(S), NEW f, NEW T \in SUBSET S, NEW U \in SUBSET S,
         NEW g, Fold(f, T, g), NEW h, Fold(f, U, h)
  PROVE  \A s \in SUBSET (T \cap U) : g[s] = h[s]
<1> DEFINE F == {s \in SUBSET (T \cap U) : g[s] # h[s]}
<1> SUFFICES ASSUME F # {} PROVE FALSE
  OBVIOUS
<1>1. PICK s \in F : \A u \in F : u \subseteq s => u = s
  <2>1. F \in SUBSET (SUBSET S)
    OBVIOUS
  <2> HIDE DEF F
  <2> QED
    BY <2>1, MinimalSubset
<1>2. s \in SUBSET T /\ s \in SUBSET U /\ g[s] # h[s]
  OBVIOUS
<1>3. s # {}
  BY <1>2 DEF Fold
<1>4. First(s) \in s
  BY <1>3 DEF First
<1> DEFINE u == s \ {First(s)}
<1>5. u \in SUBSET (T \cap U) /\ u \notin F
  BY <1>1, <1>2, <1>4
<1>6. g[u] = h[u]
  BY <1>5
<1>7. g[s] = f[First(s)] + g[u] /\ h[s] = f[First(s)] + h[u]
  BY <1>2, <1>3 DEF Fold
<1> QED
  BY <1>2, <1>6, <1>7

LEMMA FoldExists ==
  ASSUME NEW S, IsFiniteSet(S), NEW f
  PROVE  \E g : Fold(f, S, g)
<1> DEFINE F == {T \in SUBSET S : ~ \E g : Fold(f, T, g)}
<1> SUFFICES ASSUME F # {} PROVE FALSE
  OBVIOUS
<1>1. PICK T \in F : \A U \in F : U \subseteq T => U = T
  <2>1. F \in SUBSET (SUBSET S)
    OBVIOUS
  <2> HIDE DEF F
  <2> QED
    BY <2>1, MinimalSubset
<1> DEFINE G(u) == CHOOSE g : Fold(f, u, g)
           h == [s \in SUBSET T |-> IF s = {} THEN 0
                                    ELSE f[First(s)] + G(s \ {First(s)})[s \ {First(s)}]]
<1>2. ASSUME NEW u \in SUBSET T, u # T PROVE Fold(f, u, G(u))
  BY <1>1, <1>2
<1>3. ASSUME NEW s \in SUBSET T, s # {}
      PROVE  h[s \ {First(s)}] = G(s \ {First(s)})[s \ {First(s)}]
  <2> DEFINE u == s \ {First(s)}
  <2>1. First(s) \in s
    BY <1>3 DEF First
  <2>2. u \in SUBSET T /\ u # T
    BY <2>1
  <2>3. Fold(f, u, G(u))
    BY <1>2, <2>2
  <2> HIDE DEF G
  <2>4. CASE u = {}
    BY <2>2, <2>3, <2>4 DEF Fold
  <2>5. CASE u # {}
    <3> DEFINE w == u \ {First(u)}
    <3>1. First(u) \in u
      BY <2>5 DEF First
    <3>2. w \in SUBSET T /\ w # T /\ w \in SUBSET u
      BY <2>2, <3>1
    <3>3. Fold(f, w, G(w))
      BY <1>2, <3>2
    <3>4. G(u)[u] = f[First(u)] + G(u)[w]
      BY <2>3, <2>5 DEF Fold
    <3>5. G(u)[w] = G(w)[w]
      <4>1. u \in SUBSET S /\ w \in SUBSET S /\ w \in SUBSET (u \cap w)
        BY <2>2, <3>2
      <4> HIDE DEF u, w
      <4> QED
        BY <2>3, <3>3, <4>1, FoldUnique
    <3>6. h[u] = f[First(u)] + G(w)[w]
      BY <2>2, <2>5
    <3> QED
      BY <3>4, <3>5, <3>6
  <2> QED
    BY <2>4, <2>5
<1>4. Fold(f, T, h)
  <2> DEFINE k(s) == IF s = {} THEN 0 ELSE f[First(s)] + h[s \ {First(s)}]
  <2>1. ASSUME NEW s \in SUBSET T PROVE h[s] = k(s)
    <3>1. h[s] = IF s = {} THEN 0 ELSE f[First(s)] + G(s \ {First(s)})[s \ {First(s)}]
      OBVIOUS
    <3> HIDE DEF h, G
    <3> QED
      BY <1>3, <3>1
  <2>2. DOMAIN h = SUBSET T /\ h = [s \in SUBSET T |-> h[s]]
    OBVIOUS
  <2> HIDE DEF h
  <2>3. h = [s \in SUBSET T |-> k(s)]
    BY <2>1, <2>2
  <2> QED
    BY <2>3 DEF Fold
<1> QED
  BY <1>1, <1>4

(* What the definition comes to.                                           *)
LEMMA SumIsFold ==
  ASSUME NEW S, IsFiniteSet(S), NEW f
  PROVE  \E g : Fold(f, S, g) /\ SumFunctionOnSet(f, S) = g[S]
<1>1. PICK g : Fold(f, S, g)
  BY FoldExists
<1> DEFINE h == CHOOSE h : Fold(f, S, h)
<1>2. Fold(f, S, h)
  BY <1>1
<1>3. SumFunctionOnSet(f, S) = h[S]
  BY DEF Fold, First, SumFunctionOnSet, FoldFunctionOnSet, MapThenFoldSet
<1> QED
  BY <1>2, <1>3

(* For a function on S.                                                    *)
LEMMA SumOfFold ==
  ASSUME NEW S, IsFiniteSet(S), NEW f, DOMAIN f = S, NEW g, Fold(f, S, g)
  PROVE  SumFunction(f) = g[S]
<1>1. PICK h : Fold(f, S, h) /\ SumFunctionOnSet(f, S) = h[S]
  BY SumIsFold
<1>2. h[S] = g[S]
  <2>1. \A s \in SUBSET (S \cap S) : h[s] = g[s]
    BY <1>1, FoldUnique
  <2> QED
    BY <2>1
<1> QED
  BY <1>1, <1>2 DEF SumFunction

(* A sum of integers is an integer, one of naturals a natural number.      *)
LEMMA SumType ==
  ASSUME NEW S, IsFiniteSet(S), NEW N, N = Int \/ N = Nat, NEW f \in [S -> N]
  PROVE  SumFunction(f) \in N
<1>1. PICK g : Fold(f, S, g)
  BY FoldExists
<1> DEFINE F == {s \in SUBSET S : g[s] \notin N}
<1>2. SUFFICES ASSUME F # {} PROVE FALSE
  BY <1>1, SumOfFold
<1>3. PICK s \in F : \A u \in F : u \subseteq s => u = s
  <2>1. F \in SUBSET (SUBSET S)
    OBVIOUS
  <2> HIDE DEF F
  <2> QED
    BY <1>2, <2>1, MinimalSubset
<1>4. CASE s = {}
  BY <1>1, <1>4 DEF Fold
<1>5. CASE s # {}
  <2> DEFINE u == s \ {First(s)}
  <2>1. First(s) \in s
    BY <1>5 DEF First
  <2>2. g[u] \in N
    BY <1>3, <2>1
  <2>3. g[s] = f[First(s)] + g[u]
    BY <1>1, <1>5 DEF Fold
  <2>4. f[First(s)] \in N
    BY <2>1
  <2> QED
    BY <2>2, <2>3, <2>4
<1> QED
  BY <1>4, <1>5

(* A sum of zeros is 0.                                                    *)
LEMMA SumZero ==
  ASSUME NEW S, IsFiniteSet(S)
  PROVE  SumFunction([x \in S |-> 0]) = 0
<1> DEFINE f == [x \in S |-> 0]
<1>1. PICK g : Fold(f, S, g)
  BY FoldExists
<1> DEFINE F == {s \in SUBSET S : g[s] # 0}
<1>2. SUFFICES ASSUME F # {} PROVE FALSE
  <2>1. DOMAIN f = S
    OBVIOUS
  <2> HIDE DEF f
  <2>2. SumFunction(f) = g[S]
    BY <1>1, <2>1, SumOfFold
  <2> QED
    BY <2>2 DEF f
<1>3. PICK s \in F : \A u \in F : u \subseteq s => u = s
  <2>1. F \in SUBSET (SUBSET S)
    OBVIOUS
  <2> HIDE DEF F
  <2> QED
    BY <1>2, <2>1, MinimalSubset
<1>4. s # {}
  BY <1>1, <1>3 DEF Fold
<1> DEFINE u == s \ {First(s)}
<1>5. First(s) \in s
  BY <1>4 DEF First
<1>6. g[u] = 0 /\ g[s] = f[First(s)] + g[u] /\ f[First(s)] = 0
  BY <1>1, <1>3, <1>4, <1>5 DEF Fold
<1> QED
  BY <1>3, <1>6

(* Two functions on S that differ at one argument have sums that differ by *)
(* as much.                                                                *)
LEMMA SumUpdate ==
  ASSUME NEW S, IsFiniteSet(S), NEW f \in [S -> Int], NEW h \in [S -> Int],
         NEW x \in S, \A y \in S : y # x => h[y] = f[y]
  PROVE  SumFunction(h) = SumFunction(f) + (h[x] - f[x])
<1>1. PICK g : Fold(f, S, g)
  BY FoldExists
<1>2. PICK k : Fold(h, S, k)
  BY FoldExists
<1> DEFINE d(s) == IF x \in s THEN h[x] - f[x] ELSE 0
           F == {s \in SUBSET S : ~(g[s] \in Int /\ k[s] = g[s] + d(s))}
<1>3. SUFFICES ASSUME F # {} PROVE FALSE
  <2>1. F = {} => k[S] = g[S] + (h[x] - f[x])
    OBVIOUS
  <2> QED
    BY <1>1, <1>2, <2>1, SumOfFold
<1>4. PICK s \in F : \A u \in F : u \subseteq s => u = s
  <2>1. F \in SUBSET (SUBSET S)
    OBVIOUS
  <2> HIDE DEF F
  <2> QED
    BY <1>3, <2>1, MinimalSubset
<1>5. CASE s = {}
  BY <1>1, <1>2, <1>5 DEF Fold
<1>6. CASE s # {}
  <2> DEFINE y == First(s)
             u == s \ {y}
  <2>1. y \in s
    BY <1>6 DEF First
  <2>2. g[u] \in Int /\ k[u] = g[u] + d(u)
    BY <1>4, <2>1
  <2>3. g[s] = f[y] + g[u] /\ k[s] = h[y] + k[u]
    BY <1>1, <1>2, <1>6 DEF Fold
  <2>4. f[y] \in Int /\ h[y] \in Int /\ h[x] \in Int /\ f[x] \in Int
    BY <2>1
  <2>5. CASE y = x
    <3>1. d(s) = h[x] - f[x] /\ d(u) = 0
      BY <2>1, <2>5
    <3> QED
      BY <2>2, <2>3, <2>4, <2>5, <3>1
  <2>6. CASE y # x
    <3>1. d(s) = d(u) /\ d(u) \in Int
      BY <2>1, <2>4, <2>6
    <3>2. h[y] = f[y]
      BY <2>1, <2>6
    <3> HIDE DEF d, y, u
    <3>3. g[s] \in Int /\ k[s] = g[s] + d(s)
      BY <2>2, <2>3, <2>4, <3>1, <3>2
    <3> QED
      BY <3>3
  <2> QED
    BY <2>5, <2>6
<1> QED
  BY <1>5, <1>6

(* The sum grows with the function.                                        *)
LEMMA SumMonotone ==
  ASSUME NEW S, IsFiniteSet(S), NEW f \in [S -> Int], NEW h \in [S -> Int],
         \A y \in S : f[y] <= h[y]
  PROVE  SumFunction(f) <= SumFunction(h)
<1>1. PICK g : Fold(f, S, g)
  BY FoldExists
<1>2. PICK k : Fold(h, S, k)
  BY FoldExists
<1> DEFINE F == {s \in SUBSET S : ~(g[s] \in Int /\ k[s] \in Int /\ g[s] <= k[s])}
<1>3. SUFFICES ASSUME F # {} PROVE FALSE
  <2>1. F = {} => g[S] <= k[S]
    OBVIOUS
  <2> QED
    BY <1>1, <1>2, <2>1, SumOfFold
<1>4. PICK s \in F : \A u \in F : u \subseteq s => u = s
  <2>1. F \in SUBSET (SUBSET S)
    OBVIOUS
  <2> HIDE DEF F
  <2> QED
    BY <1>3, <2>1, MinimalSubset
<1>5. CASE s = {}
  BY <1>1, <1>2, <1>5 DEF Fold
<1>6. CASE s # {}
  <2> DEFINE y == First(s)
             u == s \ {y}
  <2>1. y \in s
    BY <1>6 DEF First
  <2>2. g[u] \in Int /\ k[u] \in Int /\ g[u] <= k[u]
    BY <1>4, <2>1
  <2>3. g[s] = f[y] + g[u] /\ k[s] = h[y] + k[u]
    BY <1>1, <1>2, <1>6 DEF Fold
  <2>4. f[y] \in Int /\ h[y] \in Int /\ f[y] <= h[y]
    BY <2>1
  <2> HIDE DEF y, u
  <2>5. g[s] \in Int /\ k[s] \in Int /\ g[s] <= k[s]
    BY <2>2, <2>3, <2>4
  <2> QED
    BY <2>5
<1> QED
  BY <1>5, <1>6

-----------------------------------------------------------------------------
(* Rings.  step is the set of triples of a table, a record, and the table  *)
(* after that record.                                                      *)

(* Draining the records of q in turn leads from table s to table t.        *)
LeadsTo(step, q, s, t) ==
  \E path : /\ path[0] = s
            /\ path[Len(q)] = t
            /\ \A k \in 1..Len(q) : <<path[k - 1], q[k], path[k]>> \in step

LEMMA LeastNumber ==
  ASSUME NEW B \in SUBSET Nat, NEW n \in B
  PROVE  \E m \in B : \A k \in B : m <= k
<1> DEFINE A == {k \in B : k <= n}
           F == {0..k : k \in A}
           S == 0..n
<1>1. IsFiniteSet(S)
  BY FS_Interval
<1>2. F \in SUBSET (SUBSET S) /\ F # {}
  OBVIOUS
<1>3. PICK T \in F : \A U \in F : U \subseteq T => U = T
  <2> HIDE DEF F, S
  <2> QED
    BY <1>1, <1>2, MinimalSubset
<1>4. PICK m \in A : T = 0..m
  BY <1>3
<1>5. ASSUME NEW k \in B, k < m PROVE FALSE
  <2>1. k \in A /\ 0..k \subseteq 0..m /\ m \notin 0..k /\ m \in 0..m
    BY <1>4, <1>5
  <2> QED
    BY <1>3, <1>4, <2>1
<1> QED
  BY <1>4, <1>5

LEMMA LeadsToEmpty ==
  ASSUME NEW step, NEW s
  PROVE  /\ LeadsTo(step, << >>, s, s)
         /\ \A t : LeadsTo(step, << >>, s, t) => t = s
<1>1. Len(<< >>) = 0 /\ \A k \in 1..0 : FALSE
  OBVIOUS
<1>2. LeadsTo(step, << >>, s, s)
  <2> DEFINE path == [k \in {0} |-> s]
  <2>1. path[0] = s
    OBVIOUS
  <2> HIDE DEF path
  <2>2. path[Len(<< >>)] = s
    BY <1>1, <2>1
  <2>3. \A k \in 1..Len(<< >>) : <<path[k - 1], << >>[k], path[k]>> \in step
    BY <1>1
  <2> QED
    BY <2>1, <2>2, <2>3, Zenon DEF LeadsTo
<1>3. \A t : LeadsTo(step, << >>, s, t) => t = s
  BY <1>1 DEF LeadsTo
<1> QED
  BY <1>2, <1>3

(* A record output behind the others.                                      *)
LEMMA LeadsToAppend ==
  ASSUME NEW E, NEW q \in Seq(E), NEW e \in E, NEW step, NEW s, NEW t, NEW u,
         LeadsTo(step, q, s, t), <<t, e, u>> \in step
  PROVE  LeadsTo(step, Append(q, e), s, u)
<1>1. PICK path : /\ path[0] = s
                  /\ path[Len(q)] = t
                  /\ \A k \in 1..Len(q) : <<path[k - 1], q[k], path[k]>> \in step
  BY DEF LeadsTo
<1> DEFINE n == Len(q)
           qe == Append(q, e)
           longer == [k \in 0..(n + 1) |-> IF k = n + 1 THEN u ELSE path[k]]
<1>2. /\ n \in Nat /\ Len(qe) = n + 1 /\ qe[n + 1] = e
      /\ \A k \in 1..n : qe[k] = q[k]
  OBVIOUS
<1> HIDE DEF qe
<1>3. longer[n + 1] = u /\ \A k \in 0..n : longer[k] = path[k]
  BY <1>2
<1> HIDE DEF longer
<1>4. ASSUME NEW k \in 1..(n + 1)
      PROVE  <<longer[k - 1], qe[k], longer[k]>> \in step
  <2>1. CASE k \in 1..n
    <3>1. k \in 0..n /\ k - 1 \in 0..n
      BY <1>2, <2>1
    <3> QED
      BY <1>1, <1>2, <1>3, <2>1, <3>1
  <2>2. CASE k = n + 1
    <3>1. k - 1 = n /\ n \in 0..n
      BY <1>2, <2>2
    <3> QED
      BY <1>1, <1>2, <1>3, <2>2, <3>1
  <2> QED
    BY <1>2, <2>1, <2>2
<1>5. longer[0] = s
  BY <1>1, <1>2, <1>3
<1>6. longer[Len(qe)] = u
  BY <1>2, <1>3
<1>7. LeadsTo(step, qe, s, u)
  <2>1. \A k \in 1..Len(qe) : <<longer[k - 1], qe[k], longer[k]>> \in step
    BY <1>2, <1>4
  <2> QED
    BY <1>5, <1>6, <2>1 DEF LeadsTo
<1> QED
  BY <1>7 DEF qe

(* The oldest record taken out.                                            *)
LEMMA LeadsToDrain ==
  ASSUME NEW E, NEW q \in Seq(E), q # << >>, NEW step, NEW s, NEW t,
         LeadsTo(step, q, s, t)
  PROVE  \E u : <<s, Head(q), u>> \in step /\ LeadsTo(step, Tail(q), u, t)
<1>1. PICK path : /\ path[0] = s
                  /\ path[Len(q)] = t
                  /\ \A k \in 1..Len(q) : <<path[k - 1], q[k], path[k]>> \in step
  BY DEF LeadsTo
<1> DEFINE n == Len(q)
           r == Tail(q)
           rest == [k \in 0..(n - 1) |-> path[k + 1]]
<1>2. /\ n \in Nat /\ n >= 1 /\ Len(r) = n - 1 /\ Head(q) = q[1]
      /\ \A k \in 1..(n - 1) : r[k] = q[k + 1]
  BY EmptySeq, HeadTailProperties
<1> HIDE DEF r, n
<1>3. \A k \in 0..(n - 1) : rest[k] = path[k + 1]
  OBVIOUS
<1> HIDE DEF rest
<1>4. <<s, Head(q), path[1]>> \in step
  <2>1. 1 \in 1..Len(q) /\ 1 - 1 = 0
    BY <1>2 DEF n
  <2>2. <<path[1 - 1], q[1], path[1]>> \in step
    BY <1>1, <2>1
  <2> QED
    BY <1>1, <1>2, <2>1, <2>2
<1>5. ASSUME NEW k \in 1..(n - 1)
      PROVE  <<rest[k - 1], r[k], rest[k]>> \in step
  <2>1. /\ k \in 0..(n - 1) /\ k - 1 \in 0..(n - 1) /\ (k - 1) + 1 = k
        /\ k + 1 \in 1..n /\ (k + 1) - 1 = k
    BY <1>2
  <2>2. <<path[(k + 1) - 1], q[k + 1], path[k + 1]>> \in step
    BY <1>1, <2>1 DEF n
  <2> QED
    BY <1>2, <1>3, <2>1, <2>2
<1>6. rest[0] = path[1] /\ rest[n - 1] = path[n]
  <2>1. 0 \in 0..(n - 1) /\ n - 1 \in 0..(n - 1) /\ 0 + 1 = 1 /\ (n - 1) + 1 = n
    BY <1>2
  <2> QED
    BY <1>3, <2>1
<1>7. LeadsTo(step, r, path[1], t)
  <2>1. rest[0] = path[1] /\ rest[Len(r)] = t
    BY <1>1, <1>2, <1>6 DEF n
  <2>2. \A k \in 1..Len(r) : <<rest[k - 1], r[k], rest[k]>> \in step
    BY <1>2, <1>5
  <2> QED
    BY <2>1, <2>2 DEF LeadsTo
<1> QED
  BY <1>4, <1>7 DEF r

(* The records of E keep the tables in T, and move them upwards in order.  *)
Climbs(step, T, E, order) ==
  /\ step \in SUBSET (T \X E \X T)
  /\ \A a \in T : <<a, a>> \in order
  /\ \A a, b, c \in T : <<a, b>> \in order /\ <<b, c>> \in order => <<a, c>> \in order
  /\ \A a, b \in T : \A e \in E : <<a, e, b>> \in step => <<a, b>> \in order

(* What no record makes smaller is no smaller at the end of the ring.      *)
LEMMA LeadsToGrows ==
  ASSUME NEW T, NEW E, NEW q \in Seq(E), NEW step, NEW order, Climbs(step, T, E, order),
         NEW s \in T, NEW t, LeadsTo(step, q, s, t)
  PROVE  t \in T /\ <<s, t>> \in order
<1>1. PICK path : /\ path[0] = s
                  /\ path[Len(q)] = t
                  /\ \A k \in 1..Len(q) : <<path[k - 1], q[k], path[k]>> \in step
  BY DEF LeadsTo
<1> DEFINE n == Len(q)
           B == {k \in 0..n : ~(path[k] \in T /\ <<s, path[k]>> \in order)}
<1>2. n \in Nat
  OBVIOUS
<1> HIDE DEF n
<1>3. SUFFICES ASSUME B # {} PROVE FALSE
  <2>1. n \in 0..n
    BY <1>2
  <2> QED
    BY <1>1, <2>1 DEF n
<1>4. PICK m \in B : \A k \in B : m <= k
  <2>1. B \in SUBSET Nat
    BY <1>2
  <2> HIDE DEF B
  <2> QED
    BY <1>3, <2>1, LeastNumber
<1>5. m # 0
  BY <1>1, <1>4 DEF Climbs
<1>6. m - 1 \in 0..n /\ m - 1 \notin B /\ m \in 1..n
  BY <1>2, <1>4, <1>5
<1>7. path[m - 1] \in T /\ <<s, path[m - 1]>> \in order
  BY <1>6
<1>8. <<path[m - 1], q[m], path[m]>> \in step
  BY <1>1, <1>6 DEF n
<1>9. path[m] \in T /\ q[m] \in E
  BY <1>8 DEF Climbs
<1>10. <<path[m - 1], path[m]>> \in order
  BY <1>7, <1>8, <1>9 DEF Climbs
<1> QED
  BY <1>4, <1>7, <1>9, <1>10 DEF Climbs

=============================================================================
