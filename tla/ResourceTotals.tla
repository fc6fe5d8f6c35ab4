--------------------------- MODULE ResourceTotals ---------------------------
(***************************************************************************)
(* What the loops of pkg/kube/util.go compute: lemmas about the operators  *)
(* of NodeResources, for any pods, containers and kinds of resources.      *)
(*                                                                         *)
(* The sums are made in a heap, by loops within loops, in an order that Go *)
(* does not fix. Of each loop, from AddOne to                              *)
(* GetPodsTotalRequestsAndLimits, two things are shown. It changes nothing *)
(* but the cells that the sum has made itself (Frame), so what the API     *)
(* server sent stays as it was; and those cells come to hold the total of  *)
(* what was added, whatever the order (Tally).                             *)
(*                                                                         *)
(* The folds of the community modules are recursive functions over sets of *)
(* positions. That such a function exists, and that an invariant of the    *)
(* steps holds of its values, is what the first lemmas are for             *)
(* (FoldExists, FoldKeeps, SameFold).                                      *)
(***************************************************************************)
EXTENDS NodeResources, FiniteSetTheorems, SequenceTheorems, WellFoundedInduction, TLAPS

(***************************************************************************)
(* What holds of 0, and of a number when it holds of the one before it,    *)
(* holds of all numbers: T is the set of those of which it holds.          *)
(***************************************************************************)
LEMMA UpTo ==
  ASSUME NEW n \in Nat, NEW T, 0 \in T, \A m \in 1..n : m - 1 \in T => m \in T
  PROVE  \A m \in 0..n : m \in T
<1>1. SUFFICES ASSUME NEW k \in 0..n, k \notin T
               PROVE  FALSE
  OBVIOUS
<1>2. DEFINE Bad == {m \in 0..n : m \notin T}
<1>3. Bad \subseteq Nat /\ Bad # {}
  BY <1>1
<1>4. PICK m \in Bad : \A z \in Bad : ~(<<z, m>> \in OpToRel(<, Nat))
  <2>1. IsWellFoundedOn(OpToRel(<, Nat), Nat)
    BY NatLessThanWellFounded, Zenon
  <2>2. QED
    BY <1>3, <2>1, WFMin, Zenon
<1>5. \A z \in Bad : ~(z < m)
  BY <1>3, <1>4, Zenon DEF OpToRel
<1>6. m \in 1..n
  <2>1. m \in 0..n /\ m \notin T
    BY <1>4, Zenon
  <2>2. m # 0
    BY <2>1, Zenon
  <2>3. QED
    BY <2>1, <2>2
<1>7. m - 1 \in 0..n /\ m - 1 < m
  BY <1>6
<1>8. m - 1 \in T
  BY <1>5, <1>7
<1>9. QED
  BY <1>4, <1>6, <1>8, Zenon

\* The greatest of some of the numbers from 1 to n.
LEMMA MaxOf ==
  ASSUME NEW n \in Nat, NEW s \in SUBSET (1..n), s # {}
  PROVE  Max(s) \in s /\ \A y \in s : y <= Max(s)
<1>1. DEFINE Bounds == {k \in 0..n : \A y \in s : y <= k}
<1>2. \A k \in 0..n : k \in {k2 \in 0..n : (n - k2) \in Bounds} \/ \E x \in s : \A y \in s : y <= x
  <2>1. DEFINE T == {k2 \in 0..n : (n - k2) \in Bounds \/ \E x \in s : \A y \in s : y <= x}
  <2>2. 0 \in T
    OBVIOUS
  <2>3. ASSUME NEW m \in 1..n, m - 1 \in T
        PROVE  m \in T
    <3>1. CASE \E x \in s : \A y \in s : y <= x
      BY <3>1
    <3>2. CASE n - (m - 1) \in Bounds /\ ~ \E x \in s : \A y \in s : y <= x
      <4>1. PICK b \in 0..n : b = n - (m - 1)
        OBVIOUS
      <4>2. b \notin s /\ \A y \in s : y <= b
        BY <3>2, <4>1
      <4>3. \A y \in s : y <= b - 1
        BY <4>2
      <4>4. n - m = b - 1 /\ n - m \in 0..n
        BY <4>1
      <4>5. QED
        BY <4>3, <4>4
    <3>3. QED
      BY <2>3, <3>1, <3>2
  <2>4. HIDE DEF T
  <2>5. \A m \in 0..n : m \in T
    BY <2>2, <2>3, UpTo, Zenon
  <2>6. QED
    BY <2>5 DEF T
<1>3. n \in {k2 \in 0..n : (n - k2) \in Bounds} \/ \E x \in s : \A y \in s : y <= x
  BY <1>2
<1>4. ~(0 \in Bounds)
  <2>1. PICK y \in s : TRUE
    BY Zenon
  <2>2. y \in 1..n /\ ~(y <= 0)
    OBVIOUS
  <2>3. QED
    BY <2>2
<1>5. \E x \in s : \A y \in s : x >= y
  BY <1>3, <1>4
<1>6. Max(s) \in s /\ \A y \in s : Max(s) >= y
  BY <1>5, Zenon DEF Max
<1>7. QED
  BY <1>6

(***************************************************************************)
(* The loops of the source are folds. A fold is defined by a recursion on  *)
(* the sets of positions that are still to do, and a function with that    *)
(* recursion is what FoldResult says: it takes c(s) out of s. For a finite *)
(* set and a step op from A to A there is one.                             *)
(***************************************************************************)
Chooser(c, S) == c \in [(SUBSET S) \ {{}} -> S] /\ \A s \in (SUBSET S) \ {{}} : c[s] \in s

FoldStep(f, s, base, c, op) == IF s = {} THEN base ELSE op[c[s]][f[s \ {c[s]}]]

FoldResult(f, S, A, base, c, op) ==
  f \in [SUBSET S -> A] /\ \A s \in SUBSET S : f[s] = FoldStep(f, s, base, c, op)

\* A fold over a finite set has a result, whichever element it takes next.
LEMMA FoldExists ==
  ASSUME NEW S, IsFiniteSet(S), NEW A, NEW base \in A, NEW c, Chooser(c, S), NEW op \in [S -> [A -> A]]
  PROVE  \E f : FoldResult(f, S, A, base, c, op)
<1> DEFINE N == Cardinality(S)
           Upto(f, k) == \A s \in SUBSET S : Cardinality(s) <= k => f[s] = FoldStep(f, s, base, c, op)
           T == {k \in 0..N : \E f \in [SUBSET S -> A] : Upto(f, k)}
<1>1. N \in Nat
  BY FS_CardinalityType
<1>2. ASSUME NEW s \in SUBSET S
      PROVE  /\ IsFiniteSet(s) /\ Cardinality(s) \in Nat /\ Cardinality(s) <= N
             /\ Cardinality(s) <= 0 => s = {}
  <2>1. IsFiniteSet(s) /\ Cardinality(s) <= N
    BY FS_Subset
  <2>2. Cardinality(s) \in Nat
    BY <2>1, FS_CardinalityType
  <2>3. Cardinality(s) = 0 <=> s = {}
    BY <2>1, FS_EmptySet
  <2>4. QED
    BY <2>1, <2>2, <2>3
<1>3. ASSUME NEW s \in SUBSET S, s # {}
      PROVE  /\ c[s] \in s /\ c[s] \in S /\ s \ {c[s]} \in SUBSET S
             /\ Cardinality(s \ {c[s]}) = Cardinality(s) - 1
  <2>1. c[s] \in s /\ c[s] \in S
    BY <1>3 DEF Chooser
  <2>2. Cardinality(s \ {c[s]}) = Cardinality(s) - 1
    BY <1>2, <2>1, FS_RemoveElement
  <2>3. QED
    BY <2>1, <2>2
<1>4. ASSUME NEW f \in [SUBSET S -> A], NEW s \in SUBSET S
      PROVE  FoldStep(f, s, base, c, op) \in A
  <2>1. CASE s = {}
    BY <2>1 DEF FoldStep
  <2>2. CASE s # {}
    <3>1. c[s] \in S /\ s \ {c[s]} \in SUBSET S
      BY <1>3, <2>2, Zenon
    <3>2. f[s \ {c[s]}] \in A
      BY <3>1
    <3>3. op[c[s]] \in [A -> A]
      BY <3>1
    <3>4. op[c[s]][f[s \ {c[s]}]] \in A
      BY <3>2, <3>3, Zenon
    <3>5. QED
      BY <2>2, <3>4 DEF FoldStep
  <2>3. QED
    BY <2>1, <2>2
<1>5. 0 \in T
  <2>1. DEFINE f == [s \in SUBSET S |-> base]
  <2>2. f \in [SUBSET S -> A]
    OBVIOUS
  <2>3. Upto(f, 0)
    <3>1. ASSUME NEW s \in SUBSET S, Cardinality(s) <= 0
          PROVE  f[s] = FoldStep(f, s, base, c, op)
      <4>1. s = {}
        BY <1>2, <3>1
      <4>2. f[s] = base
        OBVIOUS
      <4>3. QED
        BY <4>1, <4>2 DEF FoldStep
    <3>2. QED
      BY <3>1
  <2>4. 0 \in 0..N
    BY <1>1
  <2>5. HIDE DEF f, N, Upto
  <2>6. QED
    BY <2>2, <2>3, <2>4
<1>6. ASSUME NEW k \in 1..N, k - 1 \in T
      PROVE  k \in T
  <2>1. PICK f \in [SUBSET S -> A] : Upto(f, k - 1)
    BY <1>6, Zenon
  <2>2. DEFINE g == [s \in SUBSET S |-> IF Cardinality(s) <= k - 1 THEN f[s] ELSE FoldStep(f, s, base, c, op)]
  <2>3. g \in [SUBSET S -> A]
    BY <1>4, Zenon
  <2>4. ASSUME NEW s \in SUBSET S
        PROVE  g[s] = IF Cardinality(s) <= k - 1 THEN f[s] ELSE FoldStep(f, s, base, c, op)
    OBVIOUS
  <2>5. HIDE DEF g
  <2>6. ASSUME NEW s \in SUBSET S, Cardinality(s) <= k
        PROVE  g[s] = FoldStep(g, s, base, c, op)
    <3>1. g[s] = FoldStep(f, s, base, c, op)
      BY <2>1, <2>4
    <3>2. CASE s = {}
      BY <3>1, <3>2 DEF FoldStep
    <3>3. CASE s # {}
      <4>1. PICK r \in SUBSET S : r = s \ {c[s]}
        BY <1>3, <3>3, Zenon
      <4>2. Cardinality(r) = Cardinality(s) - 1
        BY <1>3, <3>3, <4>1
      <4>3. Cardinality(r) <= k - 1
        BY <1>1, <1>2, <2>6, <4>2
      <4>4. g[r] = f[r]
        BY <2>4, <4>3
      <4>5. QED
        BY <3>1, <3>3, <4>1, <4>4 DEF FoldStep
    <3>4. QED
      BY <3>2, <3>3
  <2>7. QED
    BY <1>1, <2>3, <2>6
<1>7. HIDE DEF T
<1>8. \A m \in 0..N : m \in T
  BY <1>1, <1>5, <1>6, UpTo, Zenon
<1>9. N \in T
  BY <1>1, <1>8
<1>10. PICK f \in [SUBSET S -> A] : Upto(f, N)
  BY <1>9, Zenon DEF T
<1>11. QED
  BY <1>2, <1>10 DEF FoldResult

(***************************************************************************)
(* Two functions with the same recursion are the same.                     *)
(***************************************************************************)
SameSteps(f, g, S, c) ==
  /\ f[{}] = g[{}]
  /\ \A r \in SUBSET S : r # {} /\ f[r \ {c[r]}] = g[r \ {c[r]}] => f[r] = g[r]

\* Two functions that start and go on alike are the same on every subset.
LEMMA SameFold ==
  ASSUME NEW S, IsFiniteSet(S), NEW c, Chooser(c, S), NEW f, NEW g, SameSteps(f, g, S, c)
  PROVE  \A r \in SUBSET S : f[r] = g[r]
<1> DEFINE N == Cardinality(S)
           T == {k \in 0..N : \A r \in SUBSET S : Cardinality(r) = k => f[r] = g[r]}
<1>1. N \in Nat
  BY FS_CardinalityType
<1>2. ASSUME NEW r \in SUBSET S
      PROVE  /\ IsFiniteSet(r) /\ Cardinality(r) \in 0..N /\ (Cardinality(r) = 0 => r = {})
             /\ r # {} => r \ {c[r]} \in SUBSET S /\ Cardinality(r \ {c[r]}) = Cardinality(r) - 1
  <2>1. IsFiniteSet(r) /\ Cardinality(r) <= N
    BY FS_Subset
  <2>2. Cardinality(r) \in Nat /\ (Cardinality(r) = 0 <=> r = {})
    BY <2>1, FS_CardinalityType, FS_EmptySet
  <2>3. ASSUME r # {}
        PROVE  r \ {c[r]} \in SUBSET S /\ Cardinality(r \ {c[r]}) = Cardinality(r) - 1
    <3>1. c[r] \in r
      BY <2>3, Zenon DEF Chooser
    <3>2. QED
      BY <2>1, <3>1, FS_RemoveElement, Zenon
  <2>4. QED
    BY <1>1, <2>1, <2>2, <2>3
<1>3. 0 \in T
  <2>1. ASSUME NEW r \in SUBSET S, Cardinality(r) = 0
        PROVE  f[r] = g[r]
    <3>1. r = {}
      BY <1>2, <2>1, Zenon
    <3>2. QED
      BY <3>1, Zenon DEF SameSteps
  <2>2. 0 \in 0..N
    BY <1>1
  <2>3. QED
    BY <2>1, <2>2
<1>4. ASSUME NEW k \in 1..N, k - 1 \in T
      PROVE  k \in T
  <2>1. ASSUME NEW r \in SUBSET S, Cardinality(r) = k
        PROVE  f[r] = g[r]
    <3>1. r # {}
      <4>1. Cardinality({}) = 0
        BY FS_EmptySet
      <4>2. k # 0
        BY <1>1
      <4>3. QED
        BY <2>1, <4>1, <4>2, Zenon
    <3>2. PICK u \in SUBSET S : u = r \ {c[r]} /\ Cardinality(u) = k - 1
      BY <1>2, <2>1, <3>1, Zenon
    <3>3. f[u] = g[u]
      BY <1>4, <3>2
    <3>4. QED
      BY <3>1, <3>2, <3>3, Zenon DEF SameSteps
  <2>2. QED
    BY <2>1
<1>5. HIDE DEF T
<1>6. \A k \in 0..N : k \in T
  BY <1>1, <1>3, <1>4, UpTo, Zenon
<1>7. QED
  BY <1>2, <1>6, Zenon DEF T

(***************************************************************************)
(* A fold has what its start has and every step keeps: Keeps says which    *)
(* results are expected of a set of positions.                             *)
(***************************************************************************)
KeptBy(I, S, A, base, c, op) ==
  /\ I \in [SUBSET S -> SUBSET A] /\ base \in I[{}]
  /\ \A r \in SUBSET S : r # {} => \A v \in I[r \ {c[r]}] : op[c[r]][v] \in I[r]

\* An invariant of the start and of the turns holds of all results of the fold.
LEMMA FoldKeeps ==
  ASSUME NEW S, IsFiniteSet(S), NEW A, NEW base \in A, NEW c, Chooser(c, S), NEW op \in [S -> [A -> A]],
         NEW I, KeptBy(I, S, A, base, c, op)
  PROVE  \E f : FoldResult(f, S, A, base, c, op) /\ \A r \in SUBSET S : f[r] \in I[r]
<1>1. PICK f : FoldResult(f, S, A, base, c, op)
  BY FoldExists, Zenon
<1> DEFINE g == [r \in SUBSET S |-> f[r] \in I[r]]
           h == [r \in SUBSET S |-> TRUE]
<1>2. g[{}] = h[{}]
  <2>1. f[{}] = base
    BY <1>1, Zenon DEF FoldResult, FoldStep
  <2>2. (f[{}] \in I[{}]) = TRUE
    BY <2>1 DEF KeptBy
  <2>3. QED
    BY <2>2, Zenon
<1>3. ASSUME NEW r \in SUBSET S, r # {}, g[r \ {c[r]}] = h[r \ {c[r]}]
      PROVE  g[r] = h[r]
  <2>1. PICK u \in SUBSET S : u = r \ {c[r]}
    BY Zenon
  <2>2. f[u] \in I[u]
    BY <1>3, <2>1, Zenon
  <2>3. f[r] = op[c[r]][f[u]]
    BY <1>1, <1>3, <2>1, Zenon DEF FoldResult, FoldStep
  <2>4. (f[r] \in I[r]) = TRUE
    <3>1. \A v \in I[u] : op[c[r]][v] \in I[r]
      BY <1>3, <2>1, Zenon DEF KeptBy
    <3>2. f[r] \in I[r]
      BY <2>2, <2>3, <3>1, Zenon
    <3>3. QED
      BY <3>2
  <2>5. QED
    BY <2>4, Zenon
<1>4. \A r \in SUBSET S : g[r] = h[r]
  <2>1. PICK y, z : y = g /\ z = h
    BY Zenon
  <2>2. SameSteps(y, z, S, c)
    BY <1>2, <1>3, <2>1, Zenon DEF SameSteps
  <2>3. \A r \in SUBSET S : y[r] = z[r]
    BY <2>2, SameFold
  <2>4. QED
    BY <2>1, <2>3, Zenon
<1>5. \A r \in SUBSET S : f[r] \in I[r]
  BY <1>4, Zenon
<1>6. QED
  BY <1>1, <1>5, Zenon
-----------------------------------------------------------------------------
(***************************************************************************)
(* Sums. w gives the sum of g over every subset of U, whichever element is *)
(* taken out first.                                                        *)
(***************************************************************************)
Adds(w, U, g) ==
  /\ w \in [SUBSET U -> Nat] /\ w[{}] = 0
  /\ \A s \in SUBSET U : \A x \in s : w[s] = g[x] + w[s \ {x}]

\* There is a function that sums up g over every subset of U.
LEMMA SumExists ==
  ASSUME NEW U, IsFiniteSet(U), NEW g \in [U -> Nat]
  PROVE  \E w : Adds(w, U, g)
<1> DEFINE N == Cardinality(U)
<1>1. PICK c : c = [s \in (SUBSET U) \ {{}} |-> CHOOSE x \in s : TRUE]
  BY Zenon
<1>2. PICK op : op = [x \in U |-> [n \in Nat |-> g[x] + n]]
  BY Zenon
<1>3. Chooser(c, U)
  <2>1. ASSUME NEW s \in (SUBSET U) \ {{}}
        PROVE  c[s] \in s
    BY <1>1, Zenon
  <2>2. c \in [(SUBSET U) \ {{}} -> U]
    BY <1>1, <2>1, Zenon
  <2>3. QED
    BY <2>1, <2>2 DEF Chooser
<1>4. op \in [U -> [Nat -> Nat]]
  BY <1>2
<1>5. PICK w : FoldResult(w, U, Nat, 0, c, op)
  BY <1>3, <1>4, FoldExists, Zenon
<1>6. w \in [SUBSET U -> Nat] /\ w[{}] = 0
  BY <1>5, Zenon DEF FoldResult, FoldStep
<1>7. ASSUME NEW s \in SUBSET U, s # {}
      PROVE  c[s] \in s /\ w[s] = g[c[s]] + w[s \ {c[s]}]
  <2>1. c[s] \in s /\ c[s] \in U
    BY <1>3, <1>7 DEF Chooser
  <2>2. w[s] = op[c[s]][w[s \ {c[s]}]]
    BY <1>5, <1>7, Zenon DEF FoldResult, FoldStep
  <2>3. w[s \ {c[s]}] \in Nat
    BY <1>6
  <2>4. QED
    BY <1>2, <2>1, <2>2, <2>3, Zenon
<1>8. N \in Nat
  BY FS_CardinalityType
<1>9. ASSUME NEW s \in SUBSET U
      PROVE  /\ IsFiniteSet(s) /\ Cardinality(s) \in 0..N
             /\ Cardinality(s) = 0 <=> s = {}
             /\ \A x \in s : s \ {x} \in SUBSET U /\ Cardinality(s \ {x}) = Cardinality(s) - 1
  <2>1. IsFiniteSet(s) /\ Cardinality(s) <= N
    BY FS_Subset
  <2>2. Cardinality(s) \in Nat /\ (Cardinality(s) = 0 <=> s = {})
    BY <2>1, FS_CardinalityType, FS_EmptySet
  <2>3. \A x \in s : Cardinality(s \ {x}) = Cardinality(s) - 1
    BY <2>1, FS_RemoveElement, Zenon
  <2>4. QED
    BY <1>8, <2>1, <2>2, <2>3
<1> DEFINE T == {k \in 0..N : \A s \in SUBSET U : Cardinality(s) = k => \A x \in s : w[s] = g[x] + w[s \ {x}]}
<1>10. 0 \in T
  <2>1. 0 \in 0..N
    BY <1>8
  <2>2. ASSUME NEW s \in SUBSET U, Cardinality(s) = 0
        PROVE  s = {}
    BY <1>9, <2>2
  <2>3. QED
    BY <2>1, <2>2
<1>11. ASSUME NEW k \in 1..N, k - 1 \in T
       PROVE  k \in T
  <2>1. ASSUME NEW s \in SUBSET U, Cardinality(s) = k, NEW x \in s
        PROVE  w[s] = g[x] + w[s \ {x}]
    <3>1. PICK y \in s : y = c[s] /\ w[s] = g[y] + w[s \ {y}]
      BY <1>7, Zenon
    <3>2. CASE x = y
      BY <3>1, <3>2
    <3>3. CASE x # y
      <4>1. PICK r \in SUBSET U : r = s \ {x} /\ Cardinality(r) = k - 1
        BY <1>9, <2>1, Zenon
      <4>2. PICK t \in SUBSET U : t = s \ {y} /\ Cardinality(t) = k - 1
        BY <1>9, <2>1, Zenon
      <4>3. PICK u \in SUBSET U : u = r \ {y} /\ u = t \ {x}
        BY <4>1, <4>2, Zenon
      <4>4. y \in r /\ x \in t
        BY <3>3, <4>1, <4>2
      <4>5. w[r] = g[y] + w[u] /\ w[t] = g[x] + w[u]
        <5>1. \A q \in SUBSET U : Cardinality(q) = k - 1 => \A z \in q : w[q] = g[z] + w[q \ {z}]
          BY <1>11, Zenon
        <5>2. w[r] = g[y] + w[r \ {y}] /\ w[t] = g[x] + w[t \ {x}]
          BY <4>1, <4>2, <4>4, <5>1, Zenon
        <5>3. QED
          BY <4>3, <5>2, Zenon
      <4>6. g[x] \in Nat /\ g[y] \in Nat /\ w[u] \in Nat
        BY <1>6
      <4>7. QED
        BY <3>1, <4>1, <4>2, <4>5, <4>6
    <3>4. QED
      BY <3>2, <3>3
  <2>2. QED
    BY <2>1
<1>12. HIDE DEF T
<1>13. \A k \in 0..N : k \in T
  BY <1>8, <1>10, <1>11, UpTo, Zenon
<1>14. \A s \in SUBSET U : \A x \in s : w[s] = g[x] + w[s \ {x}]
  BY <1>9, <1>13, Zenon DEF T
<1>15. QED
  BY <1>6, <1>14, Zenon DEF Adds

\* The sum over two sets that have no element in common.
LEMMA SumUnion ==
  ASSUME NEW U, IsFiniteSet(U), NEW g \in [U -> Nat], NEW w, Adds(w, U, g),
         NEW C \in SUBSET U, NEW B \in SUBSET U, B \intersect C = {}
  PROVE  w[C \union B] = w[C] + w[B]
<1> DEFINE N == Cardinality(B)
           T == {k \in 0..N : \A s \in SUBSET B : Cardinality(s) = k => w[C \union s] = w[C] + w[s]}
<1>1. IsFiniteSet(B) /\ N \in Nat
  BY FS_Subset, FS_CardinalityType
<1>2. ASSUME NEW s \in SUBSET B
      PROVE  /\ Cardinality(s) \in 0..N
             /\ Cardinality(s) = 0 <=> s = {}
             /\ \A x \in s : Cardinality(s \ {x}) = Cardinality(s) - 1
  <2>1. IsFiniteSet(s) /\ Cardinality(s) <= N
    BY <1>1, FS_Subset
  <2>2. Cardinality(s) \in Nat /\ (Cardinality(s) = 0 <=> s = {})
    BY <2>1, FS_CardinalityType, FS_EmptySet
  <2>3. \A x \in s : Cardinality(s \ {x}) = Cardinality(s) - 1
    BY <2>1, FS_RemoveElement, Zenon
  <2>4. QED
    BY <1>1, <2>1, <2>2, <2>3
<1>3. \A s \in SUBSET U : w[s] \in Nat
  BY DEF Adds
<1>4. 0 \in T
  <2>1. 0 \in 0..N
    BY <1>1
  <2>2. ASSUME NEW s \in SUBSET B, Cardinality(s) = 0
        PROVE  w[C \union s] = w[C] + w[s]
    <3>1. s = {} /\ C \union s = C
      BY <1>2, <2>2
    <3>2. w[s] = 0
      BY <3>1 DEF Adds
    <3>3. w[C] \in Nat
      BY <1>3
    <3>4. QED
      BY <3>1, <3>2, <3>3
  <2>3. QED
    BY <2>1, <2>2, Zenon
<1>5. ASSUME NEW k \in 1..N, k - 1 \in T
      PROVE  k \in T
  <2>1. ASSUME NEW s \in SUBSET B, Cardinality(s) = k
        PROVE  w[C \union s] = w[C] + w[s]
    <3>1. s # {}
      BY <1>2, <2>1
    <3>2. PICK x \in s : TRUE
      BY <3>1
    <3>3. PICK r \in SUBSET B : r = s \ {x} /\ Cardinality(r) = k - 1
      BY <1>2, <2>1, <3>2, Zenon
    <3>4. w[C \union r] = w[C] + w[r]
      BY <1>5, <3>3
    <3>5. w[s] = g[x] + w[r]
      BY <3>2, <3>3 DEF Adds
    <3>6. PICK v \in SUBSET U : v = C \union s
      BY Zenon
    <3>7. x \in v /\ v \ {x} = C \union r
      BY <3>2, <3>3, <3>6
    <3>8. w[v] = g[x] + w[C \union r]
      BY <3>7 DEF Adds
    <3>9. g[x] \in Nat /\ w[C] \in Nat /\ w[r] \in Nat
      BY <1>3, <3>2
    <3>10. QED
      BY <3>4, <3>5, <3>6, <3>8, <3>9
  <2>2. k \in 0..N
    BY <1>1
  <2>3. QED
    BY <2>1, <2>2, Zenon
<1>6. HIDE DEF T
<1>7. \A k \in 0..N : k \in T
  BY <1>1, <1>4, <1>5, UpTo, Zenon
<1>8. N \in T
  BY <1>1, <1>7
<1>9. QED
  BY <1>8 DEF T
-----------------------------------------------------------------------------
(***************************************************************************)
(* The addresses that the API server's answer is decoded to, and the sums  *)
(* of the amounts at them.                                                 *)
(***************************************************************************)
PodsOK ==
  \E n \in 1..MaxPods :
    pods \in [1..n -> [node : Range(Nodes), terminated : BOOLEAN,
                       containers : UNION {[1..m -> Containers] : m \in 1..MaxInPod}]]

Addresses == Nat \X Nat \X Kinds

Asking == DOMAIN Decoded(pods)

Worth == CHOOSE w : Adds(w, Asking, Decoded(pods))

\* The addresses are those of the quantities in the pods.
LEMMA AskingAt ==
  ASSUME PodsOK, NEW a
  PROVE  a \in Asking <=>
           /\ a \in (1..MaxPods) \X (1..MaxInPod) \X Kinds
           /\ a[1] \in DOMAIN pods
           /\ a[2] \in DOMAIN pods[a[1]].containers
           /\ a[3] \in DOMAIN pods[a[1]].containers[a[2]]
BY DEF Asking, Decoded

\* What is asked for has a format and an amount, and its address is none of a copy.
LEMMA AskedIs ==
  ASSUME PodsOK, NEW a \in Asking
  PROVE  /\ a \in Addresses /\ a[1] # 0 /\ a[3] \in Kinds
         /\ AskedAt(a).format \in {"decimal", "binary"} /\ AskedAt(a).amount \in Nat
         /\ Decoded(pods)[a] = AskedAt(a).amount
<1>1. /\ a \in (1..MaxPods) \X (1..MaxInPod) \X Kinds
      /\ a[1] \in DOMAIN pods
      /\ a[2] \in DOMAIN pods[a[1]].containers
      /\ a[3] \in DOMAIN pods[a[1]].containers[a[2]]
  BY AskingAt
<1>2. a \in Addresses /\ a[1] # 0 /\ a[3] \in Kinds
  BY <1>1, ConstantsAssumption DEF Addresses
<1>3. Decoded(pods)[a] = AskedAt(a).amount
  BY <1>1 DEF Decoded, AskedAt, Asking
<1>4. AskedAt(a) \in Ask
  <2>1. PICK n \in 1..MaxPods :
          pods \in [1..n -> [node : Range(Nodes), terminated : BOOLEAN,
                             containers : UNION {[1..m -> Containers] : m \in 1..MaxInPod}]]
    BY DEF PodsOK
  <2>2. pods[a[1]].containers \in UNION {[1..m -> Containers] : m \in 1..MaxInPod}
    BY <1>1, <2>1
  <2>3. PICK m \in 1..MaxInPod : pods[a[1]].containers \in [1..m -> Containers]
    BY <2>2
  <2>4. pods[a[1]].containers[a[2]] \in Containers
    BY <1>1, <2>3
  <2>5. QED
    BY <1>1, <2>4, ConstantsAssumption DEF AskedAt
<1>5. QED
  BY <1>2, <1>3, <1>4 DEF Ask

\* The containers ask for finitely many amounts, which Decoded puts on the heap.
LEMMA AskingFinite ==
  ASSUME PodsOK
  PROVE  IsFiniteSet(Asking) /\ Decoded(pods) \in [Asking -> Nat]
<1> DEFINE P == (1..MaxPods) \X (1..MaxInPod)
           T == (1..MaxPods) \X (1..MaxInPod) \X Kinds
<1>1. IsFiniteSet(P)
  <2>1. IsFiniteSet(1..MaxPods) /\ IsFiniteSet(1..MaxInPod)
    BY FS_Interval, ConstantsAssumption
  <2>2. QED
    BY <2>1, FS_Product, Zenon
<1>2. IsFiniteSet(P \X Kinds)
  <2> HIDE DEF P
  <2> QED
    BY <1>1, FS_Product, ConstantsAssumption
<1>3. PICK f : f = [x \in P \X Kinds |-> <<x[1][1], x[1][2], x[2]>>]
  BY Zenon
<1>4. f \in [P \X Kinds -> T]
  BY <1>3
<1>5. ASSUME NEW a \in T
      PROVE  \E x \in P \X Kinds : f[x] = a
  <2>1. PICK x : x = <<<<a[1], a[2]>>, a[3]>>
    BY Zenon
  <2>2. x \in P \X Kinds /\ x[1][1] = a[1] /\ x[1][2] = a[2] /\ x[2] = a[3]
    BY <2>1
  <2>3. f[x] = <<a[1], a[2], a[3]>>
    BY <1>3, <2>2
  <2>4. a = <<a[1], a[2], a[3]>>
    OBVIOUS
  <2>5. QED
    BY <2>2, <2>3, <2>4, Zenon
<1> HIDE DEF P, T
<1>6. f \in Surjection(P \X Kinds, T)
  BY <1>4, <1>5, Zenon DEF Surjection
<1>7. IsFiniteSet(T)
  BY <1>2, <1>6, FS_Surjection
<1>8. Asking \subseteq T
  BY AskingAt DEF T
<1>9. IsFiniteSet(Asking)
  BY <1>7, <1>8, FS_Subset
<1>10. Decoded(pods) \in [Asking -> Nat]
  <2>1. \A a \in Asking : Decoded(pods)[a] \in Nat
    BY AskedIs
  <2>2. Decoded(pods) = [a \in Asking |-> Decoded(pods)[a]]
    BY DEF Asking, Decoded
  <2>3. QED
    BY <2>1, <2>2, Zenon
<1>11. QED
  BY <1>9, <1>10

\* Worth is such a sum, over what the containers ask for.
LEMMA WorthAdds ==
  ASSUME PodsOK
  PROVE  Adds(Worth, Asking, Decoded(pods))
<1>1. \E w : Adds(w, Asking, Decoded(pods))
  BY AskingFinite, SumExists
<1>2. QED
  BY <1>1, Zenon DEF Worth

\* It is additive.
LEMMA WorthUnion ==
  ASSUME PodsOK, NEW C \in SUBSET Asking, NEW B \in SUBSET Asking, B \intersect C = {}
  PROVE  Worth[C \union B] = Worth[C] + Worth[B] /\ Worth[C] \in Nat /\ Worth[B] \in Nat
<1>1. Worth[C \union B] = Worth[C] + Worth[B]
  <2>1. PICK w, U, g : w = Worth /\ U = Asking /\ g = Decoded(pods)
    BY Zenon
  <2>2. IsFiniteSet(U) /\ g \in [U -> Nat] /\ Adds(w, U, g)
    BY <2>1, AskingFinite, WorthAdds, Zenon
  <2>3. C \in SUBSET U /\ B \in SUBSET U
    BY <2>1
  <2>4. w[C \union B] = w[C] + w[B]
    BY <2>2, <2>3, SumUnion
  <2>5. QED
    BY <2>1, <2>4, Zenon
<1>2. QED
  BY <1>1, WorthAdds DEF Adds

\* Of one address it is the amount asked for there, and of none 0.
LEMMA WorthOne ==
  ASSUME PodsOK, NEW a \in Asking
  PROVE  Worth[{a}] = AskedAt(a).amount /\ Worth[{}] = 0
<1>1. Worth[{}] = 0
  BY WorthAdds DEF Adds
<1>2. {a} \in SUBSET Asking /\ a \in {a} /\ {a} \ {a} = {}
  OBVIOUS
<1>3. Worth[{a}] = Decoded(pods)[a] + Worth[{}]
  <2>1. Worth[{a}] = Decoded(pods)[a] + Worth[{a} \ {a}]
    BY <1>2, WorthAdds, Zenon DEF Adds
  <2>2. QED
    BY <1>2, <2>1, Zenon
<1>4. QED
  BY <1>1, <1>3, AskedIs

\* What MapThenSumSet makes of the amounts, for any set of addresses.
LEMMA SumOfAsked ==
  ASSUME PodsOK, NEW S \in SUBSET Asking
  PROVE  MapThenSumSet(LAMBDA a : AskedAt(a).amount, S) = Worth[S]
<1> DEFINE Step(g) == [s \in SUBSET S |->
                         IF s = {} THEN 0
                         ELSE AskedAt(CHOOSE x \in s : TRUE).amount + g[s \ {CHOOSE x \in s : TRUE}]]
           iter == CHOOSE g : g = Step(g)
<1>1. MapThenSumSet(LAMBDA a : AskedAt(a).amount, S) = iter[S]
  BY DEF MapThenSumSet, MapThenFoldSet
<1>2. PICK w : w = [s \in SUBSET S |-> Worth[s]]
  BY Zenon
<1>3. ASSUME NEW s \in SUBSET S, NEW x \in s
      PROVE  Worth[s] = AskedAt(x).amount + Worth[s \ {x}]
  <2>1. s \in SUBSET Asking /\ x \in Asking
    OBVIOUS
  <2>2. Worth[s] = Decoded(pods)[x] + Worth[s \ {x}]
    BY <2>1, WorthAdds, Zenon DEF Adds
  <2>3. QED
    BY <2>1, <2>2, AskedIs
<1>4. Worth[{}] = 0
  BY WorthAdds DEF Adds
<1>5. w = Step(w)
  <2>1. ASSUME NEW s \in SUBSET S, s # {}
        PROVE  w[s] = AskedAt(CHOOSE x \in s : TRUE).amount + w[s \ {CHOOSE x \in s : TRUE}]
    <3>1. PICK y \in s : y = CHOOSE x \in s : TRUE
      BY <2>1, Zenon
    <3>2. PICK r \in SUBSET S : r = s \ {y}
      BY Zenon
    <3>3. w[s] = Worth[s] /\ w[r] = Worth[r]
      BY <1>2
    <3>4. Worth[s] = AskedAt(y).amount + Worth[r]
      BY <1>3, <3>2, Zenon
    <3>5. QED
      BY <3>1, <3>2, <3>3, <3>4, Zenon
  <2>2. w[{}] = 0
    BY <1>2, <1>4
  <2>3. QED
    BY <1>2, <2>1, <2>2, Zenon
<1>6. iter = Step(iter)
  <2> HIDE DEF Step
  <2> QED
    BY <1>5
<1>7. ASSUME NEW s \in SUBSET S
      PROVE  iter[s] = IF s = {} THEN 0
                       ELSE AskedAt(CHOOSE x \in s : TRUE).amount + iter[s \ {CHOOSE x \in s : TRUE}]
  <2> HIDE DEF iter
  <2> QED
    BY <1>6, Zenon
<1>8. PICK it : it = iter
  BY Zenon
<1> HIDE DEF iter, Step
<1>9. PICK c : c = [s \in (SUBSET S) \ {{}} |-> CHOOSE x \in s : TRUE]
  BY Zenon
<1>10. ASSUME NEW s \in (SUBSET S) \ {{}}
       PROVE  c[s] \in s /\ c[s] = CHOOSE x \in s : TRUE
  BY <1>9, Zenon
<1>11. Chooser(c, S)
  BY <1>9, <1>10, Zenon DEF Chooser
<1>12. ASSUME NEW s \in SUBSET S, s # {}, it[s \ {c[s]}] = w[s \ {c[s]}]
       PROVE  it[s] = w[s]
  <2>1. PICK r \in SUBSET S, y \in s : y = c[s] /\ r = s \ {y} /\ y = CHOOSE x \in s : TRUE
    BY <1>10, <1>12, Zenon
  <2>2. it[s] = AskedAt(y).amount + it[r]
    BY <1>7, <1>8, <1>12, <2>1, Zenon
  <2>3. w[s] = Worth[s] /\ w[r] = Worth[r]
    BY <1>2
  <2>4. Worth[s] = AskedAt(y).amount + Worth[r]
    BY <1>3, <2>1, Zenon
  <2>5. QED
    BY <1>12, <2>1, <2>2, <2>3, <2>4, Zenon
<1>13. it[{}] = w[{}]
  <2>1. it[{}] = 0 /\ w[{}] = Worth[{}]
    BY <1>2, <1>7, <1>8, Zenon
  <2>2. QED
    BY <1>4, <2>1
<1>14. SameSteps(it, w, S, c)
  BY <1>12, <1>13, Zenon DEF SameSteps
<1>15. IsFiniteSet(S)
  BY AskingFinite, FS_Subset
<1>16. \A s \in SUBSET S : it[s] = w[s]
  BY <1>11, <1>14, <1>15, SameFold
<1>17. it[S] = w[S] /\ w[S] = Worth[S]
  BY <1>2, <1>16, Zenon
<1>18. QED
  BY <1>1, <1>8, <1>17, Zenon
-----------------------------------------------------------------------------
(***************************************************************************)
(* A map of totals whose amounts are on the heap. Its cells are those that *)
(* its quantities point to. Tally says that it is the total of what is     *)
(* asked for at the addresses in D, or that formats are mixed there, and   *)
(* that every cell has been made by Copy. Frame says what a sum may do to  *)
(* the heap: nothing to the cells that it has not made itself.             *)
(***************************************************************************)
Quantity == [format : {"decimal", "binary"}, at : Addresses]

Heaps == UNION {[X -> Nat] : X \in SUBSET Addresses}

Maps == UNION {[T -> Quantity] : T \in SUBSET Kinds}

Sums == [heap : Heaps, totals : Maps, ok : BOOLEAN]

OfKind(D, k) == {a \in D : a[3] = k}

Cells(s) == {s.totals[k].at : k \in DOMAIN s.totals}

\* The copies on a heap are numbered below its size, so that the next is new.
Fresh(h) == IsFiniteSet(DOMAIN h) /\ \A a \in DOMAIN h : a[1] = 0 => a[2] < Cardinality(DOMAIN h)

Placed(s) == \A k \in DOMAIN s.totals : s.totals[k].at \in DOMAIN s.heap /\ s.totals[k].at[3] = k

Totalled(s, D) ==
  /\ \A a \in D : a[3] \in DOMAIN s.totals /\ s.totals[a[3]].format = AskedAt(a).format
  /\ \A k \in DOMAIN s.totals : OfKind(D, k) # {} /\ s.heap[s.totals[k].at] = Worth[OfKind(D, k)]

Clash(D) == \E a, b \in D : a[3] = b[3] /\ AskedAt(a).format # AskedAt(b).format

Tally(s, D) ==
  /\ s \in Sums /\ Fresh(s.heap) /\ Placed(s) /\ D \subseteq Asking
  /\ IF s.ok THEN Totalled(s, D) ELSE Clash(D)

Frame(s, t) ==
  /\ DOMAIN s.heap \subseteq DOMAIN t.heap
  /\ \A a \in DOMAIN s.heap : a \notin Cells(s) => t.heap[a] = s.heap[a] /\ a \notin Cells(t)

\* A sum that goes on keeps what it has kept.
LEMMA FrameTransitive ==
  ASSUME NEW s, NEW t, NEW u, Frame(s, t), Frame(t, u)
  PROVE  Frame(s, u)
BY DEF Frame

\* A quantity of kind k, outside the map of totals, that is the total of B.
Offers(s, k, q, B) ==
  /\ k \in Kinds /\ q \in Quantity
  /\ q.at \in DOMAIN s.heap /\ q.at \notin Cells(s)
  /\ B \in SUBSET Asking /\ B # {}
  /\ \A a \in B : a[3] = k /\ AskedAt(a).format = q.format
  /\ s.heap[q.at] = Worth[B]

\* The parts of a sum.
LEMMA SumIs ==
  ASSUME NEW s \in Sums
  PROVE  /\ DOMAIN s.heap \subseteq Addresses /\ s.heap \in [DOMAIN s.heap -> Nat]
         /\ DOMAIN s.totals \subseteq Kinds /\ s.totals \in [DOMAIN s.totals -> Quantity]
         /\ s.ok \in BOOLEAN
         /\ s = [heap |-> s.heap, totals |-> s.totals, ok |-> s.ok]
<1>1. s.heap \in Heaps /\ s.totals \in Maps /\ s.ok \in BOOLEAN
      /\ s = [heap |-> s.heap, totals |-> s.totals, ok |-> s.ok]
  BY DEF Sums
<1>2. DOMAIN s.heap \subseteq Addresses /\ s.heap \in [DOMAIN s.heap -> Nat]
  <2>1. PICK X \in SUBSET Addresses : s.heap \in [X -> Nat]
    BY <1>1, Zenon DEF Heaps
  <2>2. QED
    BY <2>1
<1>3. DOMAIN s.totals \subseteq Kinds /\ s.totals \in [DOMAIN s.totals -> Quantity]
  <2>1. PICK T \in SUBSET Kinds : s.totals \in [T -> Quantity]
    BY <1>1, Zenon DEF Maps
  <2>2. QED
    BY <2>1
<1>4. QED
  BY <1>1, <1>2, <1>3

\* What has the parts of a sum is one.
LEMMA IsSum ==
  ASSUME NEW X \in SUBSET Addresses, NEW h \in [X -> Nat], NEW T \in SUBSET Kinds, NEW m \in [T -> Quantity],
         NEW b \in BOOLEAN, NEW s, s = [heap |-> h, totals |-> m, ok |-> b]
  PROVE  s \in Sums
<1>1. h \in Heaps
  BY Zenon DEF Heaps
<1>2. m \in Maps
  BY Zenon DEF Maps
<1>3. QED
  BY <1>1, <1>2 DEF Sums

\* The first quantity of its kind is copied to a new cell.
LEMMA CopyTally ==
  ASSUME PodsOK, NEW s, NEW D, Tally(s, D), s.ok = TRUE, NEW k, NEW q, NEW B, Offers(s, k, q, B),
         B \intersect D = {}, k \notin DOMAIN s.totals
  PROVE  Tally(Copy(s, k, q), D \union B) /\ Frame(s, Copy(s, k, q))
<1>1. s \in Sums /\ Fresh(s.heap) /\ Placed(s) /\ D \subseteq Asking /\ Totalled(s, D)
  BY DEF Tally
<1>2. PICK C \in Nat : C = Cardinality(DOMAIN s.heap)
  BY <1>1, FS_CardinalityType DEF Fresh
<1>3. PICK at : at = <<0, C, k>>
  BY Zenon
<1>4. at \in Addresses /\ at[1] = 0 /\ at[2] = C /\ at[3] = k
  BY <1>3 DEF Addresses, Offers
<1>5. at \notin DOMAIN s.heap
  BY <1>1, <1>2, <1>4 DEF Fresh
<1>6. PICK t : t = Copy(s, k, q)
  BY Zenon
<1>7. PICK new : new = [format |-> q.format, at |-> at]
  BY Zenon
<1>8. new \in Quantity /\ new.format = q.format /\ new.at = at
  BY <1>4, <1>7 DEF Offers, Quantity
<1>9. /\ t.heap = Put(s.heap, at, s.heap[q.at]) /\ t.totals = Put(s.totals, k, new) /\ t.ok = TRUE
      /\ t = [heap |-> t.heap, totals |-> t.totals, ok |-> TRUE]
  <2>1. s = [heap |-> s.heap, totals |-> s.totals, ok |-> TRUE]
    BY <1>1, SumIs
  <2>2. t = [s EXCEPT !.heap = Put(s.heap, at, s.heap[q.at]), !.totals = Put(s.totals, k, new)]
    BY <1>2, <1>3, <1>6, <1>7 DEF Copy
  <2>3. t = [heap |-> Put(s.heap, at, s.heap[q.at]), totals |-> Put(s.totals, k, new), ok |-> TRUE]
    BY <2>1, <2>2, Zenon
  <2>4. QED
    BY <2>3
<1>10. DOMAIN t.heap = DOMAIN s.heap \union {at} /\ t.heap[at] = Worth[B]
       /\ \A y \in DOMAIN s.heap : t.heap[y] = s.heap[y]
  <2>1. PICK h, m : h = s.heap /\ m = h[q.at]
    BY Zenon
  <2>2. DOMAIN Put(h, at, m) = DOMAIN h \union {at} /\ Put(h, at, m)[at] = m
        /\ \A y \in DOMAIN h : y # at => Put(h, at, m)[y] = h[y]
    BY DEF Put
  <2>3. t.heap = Put(h, at, m) /\ m = Worth[B]
    BY <1>9, <2>1, Zenon DEF Offers
  <2>4. QED
    BY <1>5, <2>1, <2>2, <2>3, Zenon
<1>11. DOMAIN t.totals = DOMAIN s.totals \union {k} /\ t.totals[k] = new
       /\ \A j \in DOMAIN s.totals : t.totals[j] = s.totals[j]
  <2>1. PICK m : m = s.totals
    BY Zenon
  <2>2. DOMAIN Put(m, k, new) = DOMAIN m \union {k} /\ Put(m, k, new)[k] = new
        /\ \A y \in DOMAIN m : y # k => Put(m, k, new)[y] = m[y]
    BY DEF Put
  <2>3. QED
    BY <1>9, <2>1, <2>2, Zenon
<1>12. t \in Sums
  <2>1. s.heap[q.at] \in Nat
    BY <1>1, SumIs DEF Offers
  <2>2. t.heap \in [DOMAIN s.heap \union {at} -> Nat]
    <3>1. s.heap \in [DOMAIN s.heap -> Nat]
      BY <1>1, SumIs
    <3>2. QED
      BY <1>9, <2>1, <3>1 DEF Put
  <2>3. t.totals \in [DOMAIN s.totals \union {k} -> Quantity]
    <3>1. s.totals \in [DOMAIN s.totals -> Quantity]
      BY <1>1, SumIs
    <3>2. QED
      BY <1>8, <1>9, <3>1 DEF Put
  <2>4. DOMAIN s.heap \union {at} \in SUBSET Addresses /\ DOMAIN s.totals \union {k} \in SUBSET Kinds
    BY <1>1, <1>4, SumIs DEF Offers
  <2>5. QED
    BY <1>9, <2>2, <2>3, <2>4, IsSum, Zenon
<1>13. Fresh(t.heap)
  <2>1. IsFiniteSet(DOMAIN t.heap) /\ Cardinality(DOMAIN t.heap) = C + 1
    BY <1>1, <1>2, <1>5, <1>10, FS_AddElement DEF Fresh
  <2>2. ASSUME NEW a \in DOMAIN t.heap, a[1] = 0
        PROVE  a[2] < C + 1
    <3>1. CASE a = at
      BY <1>4, <3>1
    <3>2. CASE a \in DOMAIN s.heap
      <4>1. a[2] < C /\ a[2] \in Nat
        BY <1>1, <1>2, <2>2, <3>2, SumIs DEF Fresh, Addresses
      <4>2. QED
        BY <4>1
    <3>3. QED
      BY <1>10, <3>1, <3>2
  <2>3. QED
    BY <2>1, <2>2 DEF Fresh
<1>14. Placed(t)
  BY <1>1, <1>4, <1>8, <1>10, <1>11 DEF Placed
<1>15. D \union B \subseteq Asking
  BY <1>1 DEF Offers
<1>16. Totalled(t, D \union B)
  <2>1. ASSUME NEW a \in D \union B
        PROVE  a[3] \in DOMAIN t.totals /\ t.totals[a[3]].format = AskedAt(a).format
    <3>1. CASE a \in D
      BY <1>1, <1>11, <3>1 DEF Totalled
    <3>2. CASE a \in B
      BY <1>8, <1>11, <3>2 DEF Offers
    <3>3. QED
      BY <3>1, <3>2
  <2>2. ASSUME NEW j \in DOMAIN t.totals
        PROVE  OfKind(D \union B, j) # {} /\ t.heap[t.totals[j].at] = Worth[OfKind(D \union B, j)]
    <3>1. CASE j = k
      <4>1. OfKind(D \union B, k) = B
        BY <1>1 DEF OfKind, Totalled, Offers
      <4>2. B # {}
        BY DEF Offers
      <4>3. QED
        BY <1>8, <1>10, <1>11, <3>1, <4>1, <4>2
    <3>2. CASE j # k
      <4>1. OfKind(D \union B, j) = OfKind(D, j)
        BY <3>2 DEF OfKind, Offers
      <4>2. j \in DOMAIN s.totals /\ t.totals[j] = s.totals[j]
        BY <1>11, <3>2
      <4>3. s.totals[j].at \in DOMAIN s.heap
        BY <1>1, <4>2 DEF Placed
      <4>4. OfKind(D, j) # {} /\ s.heap[s.totals[j].at] = Worth[OfKind(D, j)]
        BY <1>1, <4>2 DEF Totalled
      <4>5. QED
        BY <1>10, <4>1, <4>2, <4>3, <4>4
    <3>3. QED
      BY <3>1, <3>2
  <2>3. QED
    BY <2>1, <2>2, Zenon DEF Totalled
<1>17. Frame(s, t)
  <2>1. ASSUME NEW a \in DOMAIN s.heap, a \notin Cells(s)
        PROVE  a \notin Cells(t)
    BY <1>5, <1>8, <1>11, <2>1 DEF Cells
  <2>2. QED
    BY <1>10, <2>1 DEF Frame
<1>18. QED
  BY <1>6, <1>9, <1>12, <1>13, <1>14, <1>15, <1>16, <1>17 DEF Tally

\* A further quantity of its kind is added to the cell, which it is not in itself.
LEMMA AddTally ==
  ASSUME PodsOK, NEW s, NEW D, Tally(s, D), s.ok = TRUE, NEW k, NEW q, NEW B, Offers(s, k, q, B),
         B \intersect D = {}, k \in DOMAIN s.totals, s.totals[k].format = q.format
  PROVE  Tally(Add(s, s.totals[k], q), D \union B) /\ Frame(s, Add(s, s.totals[k], q))
<1>1. s \in Sums /\ Fresh(s.heap) /\ Placed(s) /\ D \subseteq Asking /\ Totalled(s, D)
  BY DEF Tally
<1>2. PICK at \in DOMAIN s.heap : at = s.totals[k].at /\ at[3] = k
  BY <1>1 DEF Placed
<1>3. PICK t : t = Add(s, s.totals[k], q)
  BY Zenon
<1>4. /\ t.heap = [s.heap EXCEPT ![at] = s.heap[at] + s.heap[q.at]] /\ t.totals = s.totals /\ t.ok = TRUE
      /\ t = [heap |-> t.heap, totals |-> t.totals, ok |-> TRUE]
  <2>1. s = [heap |-> s.heap, totals |-> s.totals, ok |-> TRUE]
    BY <1>1, SumIs
  <2>2. t = [s EXCEPT !.heap = [s.heap EXCEPT ![at] = s.heap[at] + s.heap[q.at]]]
    BY <1>2, <1>3 DEF Add
  <2>3. QED
    BY <2>1, <2>2, Zenon
<1>5. s.heap \in [DOMAIN s.heap -> Nat] /\ DOMAIN s.heap \in SUBSET Addresses
      /\ s.totals \in [DOMAIN s.totals -> Quantity] /\ DOMAIN s.totals \in SUBSET Kinds
  BY <1>1, SumIs
<1>6. s.heap[at] \in Nat /\ s.heap[q.at] \in Nat /\ s.heap[q.at] = Worth[B]
  BY <1>5 DEF Offers
<1>7. DOMAIN t.heap = DOMAIN s.heap /\ t.heap[at] = s.heap[at] + Worth[B]
      /\ \A y \in DOMAIN s.heap : y # at => t.heap[y] = s.heap[y]
  BY <1>4, <1>6
<1>8. t \in Sums
  <2>1. t.heap \in [DOMAIN s.heap -> Nat]
    BY <1>4, <1>5, <1>6
  <2>2. QED
    BY <1>4, <1>5, <2>1, IsSum, Zenon
<1>9. Fresh(t.heap)
  BY <1>1, <1>7 DEF Fresh
<1>10. Placed(t)
  BY <1>1, <1>4, <1>7 DEF Placed
<1>11. D \union B \subseteq Asking
  BY <1>1 DEF Offers
<1>12. Totalled(t, D \union B)
  <2>1. ASSUME NEW a \in D \union B
        PROVE  a[3] \in DOMAIN t.totals /\ t.totals[a[3]].format = AskedAt(a).format
    <3>1. CASE a \in D
      BY <1>1, <1>4, <3>1 DEF Totalled
    <3>2. CASE a \in B
      BY <1>4, <3>2 DEF Offers
    <3>3. QED
      BY <3>1, <3>2
  <2>2. ASSUME NEW j \in DOMAIN t.totals
        PROVE  OfKind(D \union B, j) # {} /\ t.heap[t.totals[j].at] = Worth[OfKind(D \union B, j)]
    <3>1. OfKind(D, j) # {} /\ s.heap[s.totals[j].at] = Worth[OfKind(D, j)] /\ s.totals[j].at[3] = j
          /\ s.totals[j].at \in DOMAIN s.heap
      BY <1>1, <1>4 DEF Totalled, Placed
    <3>2. CASE j = k
      <4>1. PICK C : C = OfKind(D, k)
        BY Zenon
      <4>2. OfKind(D \union B, k) = C \union B /\ C \in SUBSET Asking /\ B \in SUBSET Asking /\ B \intersect C = {}
        BY <1>1, <4>1 DEF OfKind, Offers
      <4>3. Worth[C \union B] = Worth[C] + Worth[B]
        BY <4>2, WorthUnion
      <4>4. C # {} /\ s.heap[at] = Worth[C]
        BY <1>2, <3>1, <3>2, <4>1
      <4>5. t.totals[j].at = at
        BY <1>2, <1>4, <3>2
      <4>6. C \union B # {}
        BY <4>4
      <4>7. QED
        BY <1>7, <3>2, <4>2, <4>3, <4>4, <4>5, <4>6
    <3>3. CASE j # k
      <4>1. OfKind(D \union B, j) = OfKind(D, j)
        BY <3>3 DEF OfKind, Offers
      <4>2. s.totals[j].at # at
        BY <1>2, <3>1, <3>3
      <4>3. QED
        BY <1>4, <1>7, <3>1, <4>1, <4>2
    <3>4. QED
      BY <3>2, <3>3
  <2>3. QED
    BY <2>1, <2>2, Zenon DEF Totalled
<1>13. Frame(s, t)
  <2>1. Cells(t) = Cells(s) /\ at \in Cells(s)
    BY <1>2, <1>4 DEF Cells
  <2>2. QED
    BY <1>7, <2>1 DEF Frame
<1>14. QED
  BY <1>3, <1>4, <1>8, <1>9, <1>10, <1>11, <1>12, <1>13 DEF Tally

\* A sum that has failed stays as it is, and its clash stays.
LEMMA FailTally ==
  ASSUME NEW s, NEW D, Tally(s, D), NEW E, E \subseteq Asking, D \subseteq E, Clash(E),
         NEW t, t = [s EXCEPT !.ok = FALSE]
  PROVE  Tally(t, E) /\ Frame(s, t)
<1>1. s \in Sums /\ Fresh(s.heap) /\ Placed(s)
  BY DEF Tally
<1>2. s = [heap |-> s.heap, totals |-> s.totals, ok |-> s.ok]
  BY <1>1, SumIs
<1>3. t = [heap |-> s.heap, totals |-> s.totals, ok |-> FALSE]
  BY <1>2, Zenon
<1>4. t.heap = s.heap /\ t.totals = s.totals /\ t.ok = FALSE /\ t \in Sums
  BY <1>1, <1>3, Zenon DEF Sums
<1>5. Placed(t) /\ Fresh(t.heap) /\ Cells(t) = Cells(s)
  BY <1>1, <1>4 DEF Placed, Cells
<1>6. QED
  BY <1>4, <1>5, Zenon DEF Tally, Frame

\* One turn of a loop over quantities adds what the quantity is the total of.
LEMMA AddOneTally ==
  ASSUME PodsOK, NEW s, NEW D, Tally(s, D), s.ok = TRUE, NEW k, NEW q, NEW B, Offers(s, k, q, B),
         B \intersect D = {}
  PROVE  Tally(AddOne(s, k, q), D \union B) /\ Frame(s, AddOne(s, k, q))
<1>1. CASE k \notin DOMAIN s.totals
  <2>1. AddOne(s, k, q) = Copy(s, k, q)
    BY <1>1 DEF AddOne
  <2>2. Tally(Copy(s, k, q), D \union B) /\ Frame(s, Copy(s, k, q))
    BY <1>1, CopyTally, Zenon
  <2>3. QED
    BY <2>1, <2>2, Zenon
<1>2. CASE k \in DOMAIN s.totals /\ s.totals[k].format = q.format
  <2>1. AddOne(s, k, q) = Add(s, s.totals[k], q)
    BY <1>2 DEF AddOne
  <2>2. Tally(Add(s, s.totals[k], q), D \union B) /\ Frame(s, Add(s, s.totals[k], q))
    BY <1>2, AddTally, Zenon
  <2>3. QED
    BY <2>1, <2>2, Zenon
<1>3. CASE k \in DOMAIN s.totals /\ s.totals[k].format # q.format
  <2>1. AddOne(s, k, q) = [s EXCEPT !.ok = FALSE]
    BY <1>3 DEF AddOne, Add
  <2>2. Totalled(s, D) /\ D \subseteq Asking
    BY DEF Tally
  <2>3. PICK a \in OfKind(D, k) : TRUE
    BY <1>3, <2>2 DEF Totalled
  <2>4. PICK b \in B : TRUE
    BY DEF Offers
  <2>5. a \in D /\ a[3] = k /\ AskedAt(a).format = s.totals[k].format
    BY <2>2, <2>3 DEF OfKind, Totalled
  <2>6. b[3] = k /\ AskedAt(b).format = q.format
    BY <2>4 DEF Offers
  <2>7. Clash(D \union B)
    BY <1>3, <2>4, <2>5, <2>6 DEF Clash
  <2>8. D \union B \subseteq Asking /\ D \subseteq D \union B
    BY <2>2 DEF Offers
  <2>9. QED
    BY <2>1, <2>7, <2>8, FailTally
<1>4. QED
  BY <1>1, <1>2, <1>3

(***************************************************************************)
(* AddAll: a loop over a map Q of quantities, in any order; b says which   *)
(* addresses the quantity of each kind is the total of.                    *)
(***************************************************************************)
Offered(s, D, Q, b) ==
  /\ DOMAIN Q \in SUBSET Kinds
  /\ b \in [DOMAIN Q -> SUBSET Asking]
  /\ \A k \in DOMAIN Q : Offers(s, k, Q[k], b[k]) /\ b[k] \intersect D = {}

Taken(D, b, r) == D \union UNION {b[k] : k \in r}

AddTurn(Q, k, v) == IF v.ok THEN AddOne(v, k, Q[k]) ELSE v

\* Other turns leave a quantity as it was.
LEMMA OffersKept ==
  ASSUME NEW s, NEW v, Frame(s, v), NEW k, NEW q, NEW B, Offers(s, k, q, B)
  PROVE  Offers(v, k, q, B)
BY DEF Offers, Frame

\* A turn of AddAll, which does nothing after an error.
LEMMA AddTurnTally ==
  ASSUME PodsOK, NEW s, NEW D, NEW Q, NEW b, Offered(s, D, Q, b), D \subseteq Asking,
         NEW r \in SUBSET DOMAIN Q, NEW x \in r, NEW v, Tally(v, Taken(D, b, r \ {x})), Frame(s, v)
  PROVE  Tally(AddTurn(Q, x, v), Taken(D, b, r)) /\ Frame(s, AddTurn(Q, x, v))
<1>1. PICK E : E = Taken(D, b, r \ {x})
  BY Zenon
<1>2. Taken(D, b, r) = E \union b[x]
  BY <1>1 DEF Taken
<1>3. Offers(s, x, Q[x], b[x]) /\ b[x] \intersect D = {} /\ b[x] \in SUBSET Asking
  BY DEF Offered
<1>4. \A k \in DOMAIN Q : \A a \in b[k] : a[3] = k
  BY DEF Offered, Offers
<1>5. b[x] \intersect E = {}
  BY <1>1, <1>3, <1>4 DEF Taken
<1>6. Tally(v, E)
  BY <1>1
<1>7. CASE v.ok = TRUE
  <2>1. Offers(v, x, Q[x], b[x])
    BY <1>3, OffersKept, Zenon
  <2>2. Tally(AddOne(v, x, Q[x]), E \union b[x]) /\ Frame(v, AddOne(v, x, Q[x]))
    BY <1>5, <1>6, <1>7, <2>1, AddOneTally, Zenon
  <2>3. AddTurn(Q, x, v) = AddOne(v, x, Q[x])
    BY <1>7 DEF AddTurn
  <2>4. Frame(s, AddOne(v, x, Q[x]))
    BY <2>2, FrameTransitive, Zenon
  <2>5. QED
    BY <1>2, <2>2, <2>3, <2>4, Zenon
<1>8. CASE v.ok = FALSE
  <2>1. v \in Sums /\ Clash(E) /\ E \subseteq Asking
    BY <1>6, <1>8 DEF Tally
  <2>2. v = [v EXCEPT !.ok = FALSE]
    BY <1>8, <2>1, SumIs
  <2>3. Clash(E \union b[x])
    BY <2>1 DEF Clash
  <2>4. Tally(v, E \union b[x])
    BY <1>3, <1>6, <2>1, <2>2, <2>3, FailTally
  <2>5. AddTurn(Q, x, v) = v
    BY <1>8 DEF AddTurn
  <2>6. QED
    BY <1>2, <2>4, <2>5, Zenon
<1>9. v.ok \in BOOLEAN
  BY <1>6, SumIs DEF Tally
<1>10. QED
  BY <1>7, <1>8, <1>9, Zenon

\* The loop over a map of quantities adds them all, in whichever order.
LEMMA AddAllTally ==
  ASSUME PodsOK, IsFiniteSet(Kinds), NEW s, NEW D, Tally(s, D), NEW Q, NEW b, Offered(s, D, Q, b)
  PROVE  Tally(AddAll(s, Q), Taken(D, b, DOMAIN Q)) /\ Frame(s, AddAll(s, Q))
<1> DEFINE Step(g) == [r \in SUBSET DOMAIN Q |->
                         IF r = {} THEN s
                         ELSE AddTurn(Q, CHOOSE x \in r : TRUE, g[r \ {CHOOSE x \in r : TRUE}])]
           iter == CHOOSE g : g = Step(g)
<1>1. AddAll(s, Q) = iter[DOMAIN Q]
  BY DEF AddAll, FoldSet, MapThenFoldSet, AddTurn
<1>2. PICK K \in SUBSET Kinds : K = DOMAIN Q
  BY DEF Offered
<1>3. IsFiniteSet(K)
  BY <1>2, FS_Subset
<1>4. PICK c : c = [r \in (SUBSET K) \ {{}} |-> CHOOSE x \in r : TRUE]
  BY Zenon
<1>5. ASSUME NEW r \in (SUBSET K) \ {{}}
      PROVE  c[r] \in r /\ c[r] = CHOOSE x \in r : TRUE
  BY <1>4, Zenon
<1>6. Chooser(c, K)
  BY <1>4, <1>5, Zenon DEF Chooser
<1>7. PICK I : I = [r \in SUBSET K |-> {v \in Sums : Tally(v, Taken(D, b, r)) /\ Frame(s, v)}]
  BY Zenon
<1>8. PICK op : op = [k \in K |-> [v \in Sums |-> IF AddTurn(Q, k, v) \in Sums THEN AddTurn(Q, k, v) ELSE v]]
  BY Zenon
<1>9. op \in [K -> [Sums -> Sums]]
  BY <1>8, Zenon
<1>10. s \in Sums /\ D \subseteq Asking
  BY DEF Tally
<1>11. s \in I[{}]
  <2>1. Taken(D, b, {}) = D /\ Frame(s, s)
    BY DEF Taken, Frame
  <2>2. QED
    BY <1>7, <1>10, <2>1, Zenon
<1>12. ASSUME NEW r \in SUBSET K, r # {}, NEW v \in I[r \ {c[r]}]
       PROVE  AddTurn(Q, c[r], v) \in I[r] /\ op[c[r]][v] = AddTurn(Q, c[r], v)
  <2>1. PICK x \in r, t \in SUBSET K : x = c[r] /\ t = r \ {x}
    BY <1>5, <1>12, Zenon
  <2>2. v \in Sums /\ Tally(v, Taken(D, b, r \ {x})) /\ Frame(s, v)
    BY <1>7, <2>1, Zenon
  <2>3. Tally(AddTurn(Q, x, v), Taken(D, b, r)) /\ Frame(s, AddTurn(Q, x, v))
    BY <1>2, <1>10, <2>2, AddTurnTally, Zenon
  <2>4. AddTurn(Q, x, v) \in Sums
    BY <2>3, Zenon DEF Tally
  <2>5. op[x][v] = AddTurn(Q, x, v)
    BY <1>8, <2>2, <2>4, Zenon
  <2>6. AddTurn(Q, x, v) \in I[r]
    BY <1>7, <2>3, <2>4, Zenon
  <2>7. QED
    BY <2>1, <2>5, <2>6, Zenon
<1>13. KeptBy(I, K, Sums, s, c, op)
  <2>1. I \in [SUBSET K -> SUBSET Sums]
    BY <1>7, Zenon
  <2>2. QED
    BY <1>11, <1>12, <2>1, Zenon DEF KeptBy
<1>14. PICK f : FoldResult(f, K, Sums, s, c, op) /\ \A r \in SUBSET K : f[r] \in I[r]
  BY <1>3, <1>6, <1>9, <1>10, <1>13, FoldKeeps, Zenon
<1>15. f[{}] = s
  BY <1>14, Zenon DEF FoldResult, FoldStep
<1>16. ASSUME NEW r \in SUBSET K, r # {}
       PROVE  f[r] = AddTurn(Q, CHOOSE x \in r : TRUE, f[r \ {CHOOSE x \in r : TRUE}])
  <2>1. PICK x \in r, t \in SUBSET K : x = c[r] /\ t = r \ {x} /\ x = CHOOSE y \in r : TRUE
    BY <1>5, <1>16, Zenon
  <2>2. f[r] = op[x][f[t]]
    BY <1>14, <1>16, <2>1, Zenon DEF FoldResult, FoldStep
  <2>3. f[t] \in I[r \ {c[r]}]
    BY <1>14, <2>1, Zenon
  <2>4. op[x][f[t]] = AddTurn(Q, x, f[t])
    BY <1>12, <1>16, <2>1, <2>3, Zenon
  <2>5. QED
    BY <2>1, <2>2, <2>4, Zenon
<1>17. f = Step(f)
  <2>1. f \in [SUBSET K -> Sums]
    BY <1>14, Zenon DEF FoldResult
  <2>2. QED
    BY <1>2, <1>15, <1>16, <2>1, Zenon
<1>18. iter = Step(iter)
  <2> HIDE DEF Step
  <2> QED
    BY <1>17
<1>19. ASSUME NEW r \in SUBSET K
       PROVE  iter[r] = IF r = {} THEN s
                        ELSE AddTurn(Q, CHOOSE x \in r : TRUE, iter[r \ {CHOOSE x \in r : TRUE}])
  <2> HIDE DEF iter
  <2> QED
    BY <1>2, <1>18, Zenon
<1>20. PICK it : it = iter
  BY Zenon
<1> HIDE DEF iter, Step
<1>21. ASSUME NEW r \in SUBSET K, r # {}, it[r \ {c[r]}] = f[r \ {c[r]}]
       PROVE  it[r] = f[r]
  <2>1. PICK x \in r, t \in SUBSET K : x = c[r] /\ t = r \ {x} /\ x = CHOOSE y \in r : TRUE
    BY <1>5, <1>21, Zenon
  <2>2. it[r] = AddTurn(Q, x, it[t]) /\ f[r] = AddTurn(Q, x, f[t])
    BY <1>16, <1>19, <1>20, <1>21, <2>1, Zenon
  <2>3. QED
    BY <1>21, <2>1, <2>2, Zenon
<1>22. SameSteps(it, f, K, c)
  <2>1. it[{}] = f[{}]
    BY <1>15, <1>19, <1>20, Zenon
  <2>2. QED
    BY <1>21, <2>1, Zenon DEF SameSteps
<1>23. \A r \in SUBSET K : it[r] = f[r]
  BY <1>3, <1>6, <1>22, SameFold
<1>24. f[K] \in I[K] /\ it[K] = f[K]
  BY <1>14, <1>23, Zenon
<1>25. Tally(f[K], Taken(D, b, K)) /\ Frame(s, f[K])
  BY <1>7, <1>24, Zenon
<1>26. AddAll(s, Q) = f[K]
  BY <1>1, <1>2, <1>20, <1>24, Zenon
<1>27. QED
  BY <1>2, <1>25, <1>26, Zenon

(***************************************************************************)
(* The sum over the containers of one pod starts with an empty map, on a   *)
(* heap with what the pods ask for.                                        *)
(***************************************************************************)
Ready(h) ==
  /\ DOMAIN h \in SUBSET Addresses /\ h \in [DOMAIN h -> Nat] /\ Fresh(h)
  /\ Asking \subseteq DOMAIN h /\ \A a \in Asking : h[a] = AskedAt(a).amount

AskedIn(p, r) == {a \in Asking : a[1] = p /\ a[2] \in r}

AskedBy(p) == {a \in Asking : a[1] = p}

\* An empty sum is the total of nothing.
LEMMA SumEmpty ==
  ASSUME NEW h, Ready(h)
  PROVE  Tally(Sum(h), {}) /\ Cells(Sum(h)) = {} /\ Sum(h).heap = h /\ Sum(h).ok = TRUE
<1>1. PICK s : s = Sum(h)
  BY Zenon
<1>2. s.heap = h /\ s.totals = <<>> /\ s.ok = TRUE /\ DOMAIN s.totals = {}
      /\ s = [heap |-> s.heap, totals |-> s.totals, ok |-> TRUE]
  BY <1>1 DEF Sum
<1>3. s.totals \in [{} -> Quantity]
  BY <1>2
<1>4. s \in Sums
  <2>1. h \in Heaps
    BY DEF Heaps, Ready
  <2>2. s.totals \in Maps
    <3>1. {} \in SUBSET Kinds
      OBVIOUS
    <3>2. QED
      BY <1>3, <3>1, Zenon DEF Maps
  <2>3. QED
    BY <1>2, <2>1, <2>2, Zenon DEF Sums
<1>5. Placed(s) /\ Totalled(s, {}) /\ Cells(s) = {}
  BY <1>2 DEF Placed, Totalled, Cells
<1>6. QED
  BY <1>1, <1>2, <1>4, <1>5 DEF Tally, Ready

\* One turn of the loop over the containers of a pod.
LEMMA ContainerTally ==
  ASSUME PodsOK, NEW h, Ready(h), NEW p \in DOMAIN pods,
         NEW r \in SUBSET DOMAIN pods[p].containers, NEW x \in r,
         NEW v, Tally(v, AskedIn(p, r \ {x})), Frame(Sum(h), v)
  PROVE  /\ Tally(AddAll(v, Quantities(p, x)), AskedIn(p, r))
         /\ Frame(Sum(h), AddAll(v, Quantities(p, x)))
<1>1. PICK Q, D : Q = Quantities(p, x) /\ D = AskedIn(p, r \ {x})
  BY Zenon
<1>2. PICK b : b = [k \in DOMAIN Q |-> {<<p, x, k>>}]
  BY Zenon
<1>3. PICK n \in 1..MaxPods, m \in 1..MaxInPod :
         DOMAIN pods = 1..n /\ pods[p].containers \in [1..m -> Containers]
  <2>1. PICK n \in 1..MaxPods :
          pods \in [1..n -> [node : Range(Nodes), terminated : BOOLEAN,
                             containers : UNION {[1..m -> Containers] : m \in 1..MaxInPod}]]
    BY DEF PodsOK
  <2>2. pods[p].containers \in UNION {[1..m -> Containers] : m \in 1..MaxInPod}
    BY <2>1
  <2>3. QED
    BY <2>1, <2>2
<1>4. p \in 1..MaxPods /\ x \in 1..MaxInPod /\ pods[p].containers[x] \in Containers
      /\ x \in DOMAIN pods[p].containers
  BY <1>3, ConstantsAssumption
<1>5. DOMAIN Q = DOMAIN pods[p].containers[x] /\ DOMAIN Q \in SUBSET Kinds
  BY <1>1, <1>4, ConstantsAssumption DEF Quantities
<1>6. ASSUME NEW k \in DOMAIN Q
      PROVE  /\ <<p, x, k>> \in Asking /\ b[k] = {<<p, x, k>>}
             /\ Q[k] = [format |-> AskedAt(<<p, x, k>>).format, at |-> <<p, x, k>>]
  <2>1. <<p, x, k>> \in Asking
    BY <1>4, <1>5, AskingAt
  <2>2. QED
    BY <1>1, <1>2, <1>5, <2>1 DEF Quantities, AskedAt
<1>7. ASSUME NEW k \in DOMAIN Q
      PROVE  Offers(v, k, Q[k], b[k]) /\ b[k] \intersect D = {}
  <2>1. PICK a \in Asking : a = <<p, x, k>>
    BY <1>6, Zenon
  <2>2. b[k] = {a} /\ Q[k].format = AskedAt(a).format /\ Q[k].at = a /\ a[1] = p /\ a[2] = x /\ a[3] = k
        /\ Q[k] = [format |-> AskedAt(a).format, at |-> a]
    BY <1>6, <2>1
  <2>3. a \in Addresses /\ AskedAt(a).format \in {"decimal", "binary"}
    BY AskedIs
  <2>4. Q[k] \in Quantity
    BY <2>2, <2>3 DEF Quantity
  <2>5. a \in DOMAIN v.heap /\ a \notin Cells(v) /\ v.heap[a] = AskedAt(a).amount
    BY SumEmpty, Zenon DEF Frame, Ready
  <2>6. Worth[{a}] = AskedAt(a).amount
    BY WorthOne
  <2>7. Offers(v, k, Q[k], b[k])
    BY <1>5, <2>2, <2>4, <2>5, <2>6 DEF Offers
  <2>8. a \notin D
    BY <1>1, <2>2 DEF AskedIn
  <2>9. QED
    BY <2>2, <2>7, <2>8
<1>8. b \in [DOMAIN Q -> SUBSET Asking]
  BY <1>2, <1>6
<1>9. Offered(v, D, Q, b)
  BY <1>5, <1>7, <1>8 DEF Offered
<1>10. Tally(AddAll(v, Q), Taken(D, b, DOMAIN Q)) /\ Frame(v, AddAll(v, Q))
  BY <1>1, <1>9, AddAllTally, ConstantsAssumption, Zenon
<1>11. Taken(D, b, DOMAIN Q) = AskedIn(p, r)
  <2>1. Taken(D, b, DOMAIN Q) \subseteq AskedIn(p, r)
    <3>1. D \subseteq AskedIn(p, r)
      BY <1>1 DEF AskedIn
    <3>2. ASSUME NEW k \in DOMAIN Q
          PROVE  b[k] \subseteq AskedIn(p, r)
      <4>1. PICK a \in Asking : a = <<p, x, k>>
        BY <1>6, Zenon
      <4>2. a[1] = p /\ a[2] = x
        BY <4>1
      <4>3. b[k] = {a}
        BY <1>6, <4>1
      <4>4. QED
        BY <4>2, <4>3 DEF AskedIn
    <3>3. QED
      BY <3>1, <3>2 DEF Taken
  <2>2. ASSUME NEW a \in AskedIn(p, r)
        PROVE  a \in Taken(D, b, DOMAIN Q)
    <3>1. a \in Asking /\ a[1] = p /\ a[2] \in r
      BY DEF AskedIn
    <3>2. CASE a[2] # x
      BY <1>1, <3>1, <3>2 DEF AskedIn, Taken
    <3>3. CASE a[2] = x
      <4>1. a[3] \in DOMAIN Q /\ a \in (1..MaxPods) \X (1..MaxInPod) \X Kinds
        BY <1>5, <3>1, <3>3, AskingAt
      <4>2. a = <<p, x, a[3]>>
        BY <3>1, <3>3, <4>1
      <4>3. a \in b[a[3]]
        BY <1>6, <4>1, <4>2
      <4>4. QED
        BY <4>1, <4>3 DEF Taken
    <3>4. QED
      BY <3>2, <3>3
  <2>3. QED
    BY <2>1, <2>2, Zenon
<1>12. Frame(Sum(h), AddAll(v, Q))
  BY <1>10, FrameTransitive, Zenon
<1>13. QED
  BY <1>1, <1>10, <1>11, <1>12, Zenon

\* The sum over one pod is the total of what its containers ask for.
LEMMA SingleTally ==
  ASSUME PodsOK, NEW h, Ready(h), NEW p \in DOMAIN pods
  PROVE  /\ Tally(GetSinglePodTotalRequestsAndLimits(h, p), AskedBy(p))
         /\ Frame(Sum(h), GetSinglePodTotalRequestsAndLimits(h, p))
<1> DEFINE list == [i \in DOMAIN pods[p].containers |-> i]
           Step(g) == [r \in SUBSET DOMAIN list |->
                         IF r = {} THEN Sum(h)
                         ELSE AddAll(g[r \ {Max(r)}], Quantities(p, list[Max(r)]))]
           iter == CHOOSE g : g = Step(g)
<1>1. GetSinglePodTotalRequestsAndLimits(h, p) = iter[DOMAIN list]
  BY DEF GetSinglePodTotalRequestsAndLimits, FoldLeft, MapThenFoldSet
<1>2. PICK m \in 1..MaxInPod : DOMAIN pods[p].containers = 1..m
  <2>1. PICK n \in 1..MaxPods :
          pods \in [1..n -> [node : Range(Nodes), terminated : BOOLEAN,
                             containers : UNION {[1..m -> Containers] : m \in 1..MaxInPod}]]
    BY DEF PodsOK
  <2>2. pods[p].containers \in UNION {[1..m -> Containers] : m \in 1..MaxInPod}
    BY <2>1
  <2>3. QED
    BY <2>1, <2>2
<1>3. PICK K : K = DOMAIN list /\ K = 1..m /\ K = DOMAIN pods[p].containers
  BY <1>2, Zenon
<1>4. IsFiniteSet(K) /\ m \in Nat
  BY <1>3, FS_Interval, ConstantsAssumption
<1>5. PICK c : c = [r \in (SUBSET K) \ {{}} |-> Max(r)]
  BY Zenon
<1>6. ASSUME NEW r \in (SUBSET K) \ {{}}
      PROVE  c[r] \in r /\ c[r] = Max(r) /\ list[Max(r)] = Max(r)
  <2>1. Max(r) \in r
    BY <1>3, <1>4, MaxOf, Zenon
  <2>2. QED
    BY <1>3, <1>5, <2>1, Zenon
<1> HIDE DEF list
<1>7. Chooser(c, K)
  BY <1>5, <1>6, Zenon DEF Chooser
<1>8. PICK I : I = [r \in SUBSET K |-> {v \in Sums : Tally(v, AskedIn(p, r)) /\ Frame(Sum(h), v)}]
  BY Zenon
<1>9. PICK op : op = [x \in K |-> [v \in Sums |-> IF AddAll(v, Quantities(p, x)) \in Sums
                                                   THEN AddAll(v, Quantities(p, x)) ELSE v]]
  BY Zenon
<1>10. op \in [K -> [Sums -> Sums]]
  BY <1>9, Zenon
<1>11. Sum(h) \in Sums /\ Sum(h) \in I[{}]
  <2>1. AskedIn(p, {}) = {} /\ Frame(Sum(h), Sum(h))
    BY DEF AskedIn, Frame
  <2>2. Sum(h) \in Sums
    BY SumEmpty, Zenon DEF Tally
  <2>3. QED
    BY <1>8, <2>1, <2>2, SumEmpty, Zenon
<1>12. ASSUME NEW r \in SUBSET K, r # {}, NEW v \in I[r \ {c[r]}]
       PROVE  AddAll(v, Quantities(p, c[r])) \in I[r] /\ op[c[r]][v] = AddAll(v, Quantities(p, c[r]))
  <2>1. PICK x \in r, t \in SUBSET K : x = c[r] /\ t = r \ {x}
    BY <1>6, <1>12, Zenon
  <2>2. v \in Sums /\ Tally(v, AskedIn(p, r \ {x})) /\ Frame(Sum(h), v)
    BY <1>8, <2>1, Zenon
  <2>3. Tally(AddAll(v, Quantities(p, x)), AskedIn(p, r)) /\ Frame(Sum(h), AddAll(v, Quantities(p, x)))
    BY <1>3, <2>2, ContainerTally, Zenon
  <2>4. AddAll(v, Quantities(p, x)) \in Sums
    BY <2>3, Zenon DEF Tally
  <2>5. op[x][v] = AddAll(v, Quantities(p, x))
    BY <1>9, <2>2, <2>4, Zenon
  <2>6. AddAll(v, Quantities(p, x)) \in I[r]
    BY <1>8, <2>3, <2>4, Zenon
  <2>7. QED
    BY <2>1, <2>5, <2>6, Zenon
<1>13. KeptBy(I, K, Sums, Sum(h), c, op)
  <2>1. I \in [SUBSET K -> SUBSET Sums]
    BY <1>8, Zenon
  <2>2. QED
    BY <1>11, <1>12, <2>1, Zenon DEF KeptBy
<1>14. PICK f : FoldResult(f, K, Sums, Sum(h), c, op) /\ \A r \in SUBSET K : f[r] \in I[r]
  BY <1>4, <1>7, <1>10, <1>11, <1>13, FoldKeeps, Zenon
<1>15. f[{}] = Sum(h)
  BY <1>14, Zenon DEF FoldResult, FoldStep
<1>16. ASSUME NEW r \in SUBSET K, r # {}
       PROVE  f[r] = AddAll(f[r \ {Max(r)}], Quantities(p, list[Max(r)]))
  <2>1. PICK x \in r, t \in SUBSET K : x = c[r] /\ t = r \ {x} /\ x = Max(r) /\ list[Max(r)] = x
    BY <1>6, <1>16, Zenon
  <2>2. f[r] = op[x][f[t]]
    BY <1>14, <1>16, <2>1, Zenon DEF FoldResult, FoldStep
  <2>3. f[t] \in I[r \ {c[r]}]
    BY <1>14, <2>1, Zenon
  <2>4. op[x][f[t]] = AddAll(f[t], Quantities(p, x))
    BY <1>12, <1>16, <2>1, <2>3, Zenon
  <2>5. QED
    BY <2>1, <2>2, <2>4, Zenon
<1>17. f = Step(f)
  <2>1. f \in [SUBSET K -> Sums]
    BY <1>14, Zenon DEF FoldResult
  <2>2. QED
    BY <1>3, <1>15, <1>16, <2>1, Zenon
<1>18. iter = Step(iter)
  <2> HIDE DEF Step
  <2> QED
    BY <1>17
<1>19. ASSUME NEW r \in SUBSET K
       PROVE  iter[r] = IF r = {} THEN Sum(h)
                        ELSE AddAll(iter[r \ {Max(r)}], Quantities(p, list[Max(r)]))
  <2> HIDE DEF iter
  <2> QED
    BY <1>3, <1>18, Zenon
<1>20. PICK it : it = iter
  BY Zenon
<1> HIDE DEF iter, Step
<1>21. ASSUME NEW r \in SUBSET K, r # {}, it[r \ {c[r]}] = f[r \ {c[r]}]
       PROVE  it[r] = f[r]
  <2>1. PICK x \in r, t \in SUBSET K : x = c[r] /\ t = r \ {x} /\ x = Max(r)
    <3>1. c[r] \in r /\ c[r] = Max(r)
      BY <1>6, <1>21, Zenon
    <3>2. QED
      BY <3>1, Zenon
  <2>2. it[r] = AddAll(it[t], Quantities(p, list[x])) /\ f[r] = AddAll(f[t], Quantities(p, list[x]))
    BY <1>16, <1>19, <1>20, <1>21, <2>1, Zenon
  <2>3. QED
    BY <1>21, <2>1, <2>2, Zenon
<1>22. SameSteps(it, f, K, c)
  <2>1. it[{}] = f[{}]
    BY <1>15, <1>19, <1>20, Zenon
  <2>2. QED
    BY <1>21, <2>1, Zenon DEF SameSteps
<1>23. \A r \in SUBSET K : it[r] = f[r]
  BY <1>4, <1>7, <1>22, SameFold
<1>24. f[K] \in I[K] /\ it[K] = f[K]
  BY <1>14, <1>23, Zenon
<1>25. Tally(f[K], AskedIn(p, K)) /\ Frame(Sum(h), f[K])
  BY <1>8, <1>24, Zenon
<1>26. GetSinglePodTotalRequestsAndLimits(h, p) = f[K]
  BY <1>1, <1>3, <1>20, <1>24, Zenon
<1>27. AskedIn(p, K) = AskedBy(p)
  BY <1>3, AskingAt DEF AskedIn, AskedBy
<1>28. QED
  BY <1>25, <1>26, <1>27, Zenon

(***************************************************************************)
(* The sum over a list of pods adds up the sums over each of them, which   *)
(* are made on the same heap.                                              *)
(***************************************************************************)
LEMMA StillReady ==
  ASSUME NEW h, Ready(h), NEW v, NEW D, Tally(v, D), Frame(Sum(h), v)
  PROVE  Ready(v.heap)
<1>1. DOMAIN v.heap \in SUBSET Addresses /\ v.heap \in [DOMAIN v.heap -> Nat] /\ Fresh(v.heap)
  BY SumIs DEF Tally
<1>2. DOMAIN h \subseteq DOMAIN v.heap /\ \A a \in DOMAIN h : v.heap[a] = h[a]
  BY SumEmpty, Zenon DEF Frame
<1>3. QED
  BY <1>1, <1>2 DEF Ready

Extends(h, g) == DOMAIN g \subseteq DOMAIN h /\ \A a \in DOMAIN g : h[a] = g[a]

\* A sum goes on with the heap that the sum of a pod has left.
LEMMA OnNewHeap ==
  ASSUME NEW v, NEW D, Tally(v, D), v.ok = TRUE, NEW pod \in Sums, Fresh(pod.heap),
         Extends(pod.heap, v.heap), NEW w, w = [v EXCEPT !.heap = pod.heap]
  PROVE  Tally(w, D) /\ Frame(v, w) /\ Cells(w) = Cells(v) /\ w.heap = pod.heap
<1>1. v \in Sums /\ Placed(v) /\ D \subseteq Asking /\ Totalled(v, D)
  BY DEF Tally
<1>2. v = [heap |-> v.heap, totals |-> v.totals, ok |-> TRUE]
  BY <1>1, SumIs
<1>3. w = [heap |-> pod.heap, totals |-> v.totals, ok |-> TRUE]
  BY <1>2, Zenon
<1>4. w.heap = pod.heap /\ w.totals = v.totals /\ w.ok = TRUE /\ w \in Sums
  BY <1>1, <1>3 DEF Sums
<1>5. Placed(w) /\ Cells(w) = Cells(v)
  BY <1>1, <1>4 DEF Placed, Cells, Extends
<1>6. Totalled(w, D)
  BY <1>1, <1>4 DEF Totalled, Placed, Extends
<1>7. Frame(v, w)
  BY <1>4, <1>5 DEF Frame, Extends
<1>8. QED
  BY <1>1, <1>4, <1>5, <1>6, <1>7 DEF Tally

\* One turn of the loop over the pods.
LEMMA AddPodTally ==
  ASSUME PodsOK, NEW h, Ready(h), NEW p \in DOMAIN pods, NEW v, NEW D, Tally(v, D), Frame(Sum(h), v),
         AskedBy(p) \intersect D = {}
  PROVE  Tally(AddPod(v, p), D \union AskedBy(p)) /\ Frame(Sum(h), AddPod(v, p))
<1>1. Ready(v.heap)
  BY StillReady, Zenon
<1>2. PICK pod : pod = GetSinglePodTotalRequestsAndLimits(v.heap, p)
  BY Zenon
<1>3. Tally(pod, AskedBy(p)) /\ Frame(Sum(v.heap), pod)
  BY <1>1, <1>2, SingleTally, Zenon
<1>4. /\ v \in Sums /\ v.ok \in BOOLEAN /\ D \subseteq Asking
      /\ pod \in Sums /\ pod.ok \in BOOLEAN /\ Fresh(pod.heap) /\ Placed(pod) /\ Placed(v)
      /\ AskedBy(p) \subseteq Asking
  BY <1>3, SumIs DEF Tally
<1>5. D \union AskedBy(p) \subseteq Asking /\ D \subseteq D \union AskedBy(p)
  BY <1>4
<1>6. CASE v.ok = FALSE
  <2>1. Clash(D)
    BY <1>6 DEF Tally
  <2>2. Clash(D \union AskedBy(p))
    BY <2>1 DEF Clash
  <2>3. v = [v EXCEPT !.ok = FALSE]
    BY <1>4, <1>6, SumIs
  <2>4. Tally(v, D \union AskedBy(p))
    BY <1>5, <2>2, <2>3, FailTally
  <2>5. AddPod(v, p) = v
    BY <1>6 DEF AddPod
  <2>6. QED
    BY <2>4, <2>5, Zenon
<1>7. CASE v.ok = TRUE /\ pod.ok = FALSE
  <2>1. Clash(AskedBy(p))
    BY <1>3, <1>7 DEF Tally
  <2>2. Clash(D \union AskedBy(p))
    BY <2>1 DEF Clash
  <2>3. PICK t : t = [v EXCEPT !.ok = FALSE]
    BY Zenon
  <2>4. Tally(t, D \union AskedBy(p)) /\ Frame(v, t)
    BY <1>5, <2>2, <2>3, FailTally
  <2>5. AddPod(v, p) = t
    BY <1>2, <1>7, <2>3 DEF AddPod
  <2>6. Frame(Sum(h), t)
    BY <2>4, FrameTransitive, Zenon
  <2>7. QED
    BY <2>4, <2>5, <2>6, Zenon
<1>8. CASE v.ok = TRUE /\ pod.ok = TRUE
  <2>1. PICK w : w = [v EXCEPT !.heap = pod.heap]
    BY Zenon
  <2>2. AddPod(v, p) = AddAll(w, pod.totals)
    BY <1>2, <1>8, <2>1 DEF AddPod
  <2>3. /\ DOMAIN v.heap \subseteq DOMAIN pod.heap
        /\ \A a \in DOMAIN v.heap : pod.heap[a] = v.heap[a] /\ a \notin Cells(pod)
    BY <1>1, <1>3, SumEmpty, Zenon DEF Frame
  <2>4. Tally(w, D) /\ Frame(v, w) /\ Cells(w) = Cells(v) /\ w.heap = pod.heap
    <3>1. Extends(pod.heap, v.heap) /\ pod \in Sums /\ Fresh(pod.heap) /\ v.ok = TRUE
      BY <1>4, <1>8, <2>3 DEF Extends
    <3>2. QED
      BY <2>1, <3>1, OnNewHeap, Zenon
  <2>5. PICK Q : Q = pod.totals /\ DOMAIN Q \in SUBSET Kinds /\ Q \in [DOMAIN Q -> Quantity]
    BY <1>4, SumIs
  <2>6. PICK b : b = [k \in DOMAIN Q |-> OfKind(AskedBy(p), k)]
    BY Zenon
  <2>7. Totalled(pod, AskedBy(p))
    BY <1>3, <1>8 DEF Tally
  <2>8. ASSUME NEW k \in DOMAIN Q
        PROVE  Offers(w, k, Q[k], b[k]) /\ b[k] \intersect D = {}
    <3>1. b[k] = OfKind(AskedBy(p), k) /\ Q[k] \in Quantity /\ k \in Kinds
      BY <2>5, <2>6
    <3>2. Q[k].at \in DOMAIN w.heap /\ Q[k].at \in Cells(pod)
      BY <1>4, <2>4, <2>5 DEF Placed, Cells
    <3>3. Q[k].at \notin Cells(w)
      BY <1>4, <2>3, <2>4, <3>2, Zenon DEF Placed, Cells
    <3>4. b[k] # {} /\ w.heap[Q[k].at] = Worth[b[k]]
      BY <2>4, <2>5, <2>7, <3>1 DEF Totalled
    <3>5. b[k] \in SUBSET Asking /\ b[k] \intersect D = {} /\ \A a \in b[k] : a[3] = k
      BY <1>4, <3>1 DEF OfKind
    <3>6. \A a \in b[k] : AskedAt(a).format = Q[k].format
      BY <2>5, <2>7, <3>1 DEF Totalled, OfKind
    <3>7. QED
      BY <3>1, <3>2, <3>3, <3>4, <3>5, <3>6 DEF Offers
  <2>9. b \in [DOMAIN Q -> SUBSET Asking]
    BY <1>4, <2>6 DEF OfKind
  <2>10. Offered(w, D, Q, b)
    BY <2>5, <2>8, <2>9 DEF Offered
  <2>11. Tally(AddAll(w, Q), Taken(D, b, DOMAIN Q)) /\ Frame(w, AddAll(w, Q))
    BY <2>4, <2>10, AddAllTally, ConstantsAssumption, Zenon
  <2>12. Taken(D, b, DOMAIN Q) = D \union AskedBy(p)
    <3>1. \A a \in AskedBy(p) : a[3] \in DOMAIN Q /\ a \in b[a[3]]
      BY <2>5, <2>6, <2>7 DEF Totalled, OfKind
    <3>2. \A k \in DOMAIN Q : b[k] \subseteq AskedBy(p)
      BY <2>6 DEF OfKind
    <3>3. QED
      BY <3>1, <3>2 DEF Taken
  <2>13. Frame(Sum(h), w)
    BY <2>4, FrameTransitive, Zenon
  <2>14. Frame(Sum(h), AddAll(w, Q))
    BY <2>11, <2>13, FrameTransitive, Zenon
  <2>15. QED
    BY <2>2, <2>5, <2>11, <2>12, <2>14, Zenon
<1>9. QED
  BY <1>4, <1>6, <1>7, <1>8, Zenon

AskedOf(list, r) == {a \in Asking : \E i \in r : a[1] = list[i]}

Distinct(list) == \A i, j \in DOMAIN list : list[i] = list[j] => i = j

\* GetPodsTotalRequestsAndLimits: the total of the pods, or an error if formats clash.
LEMMA PodsTally ==
  ASSUME PodsOK, NEW h, Ready(h), NEW list \in Seq(DOMAIN pods), Distinct(list)
  PROVE  /\ Tally(GetPodsTotalRequestsAndLimits(h, list), AskedOf(list, DOMAIN list))
         /\ Frame(Sum(h), GetPodsTotalRequestsAndLimits(h, list))
<1> DEFINE Step(g) == [r \in SUBSET DOMAIN list |->
                         IF r = {} THEN Sum(h) ELSE AddPod(g[r \ {Max(r)}], list[Max(r)])]
           iter == CHOOSE g : g = Step(g)
<1>1. GetPodsTotalRequestsAndLimits(h, list) = iter[DOMAIN list]
  BY DEF GetPodsTotalRequestsAndLimits, FoldLeft, MapThenFoldSet
<1>2. PICK m \in Nat : DOMAIN list = 1..m
  BY LenProperties
<1>3. PICK K : K = DOMAIN list /\ K = 1..m
  BY <1>2, Zenon
<1>4. IsFiniteSet(K)
  BY <1>3, FS_Interval
<1>5. PICK c : c = [r \in (SUBSET K) \ {{}} |-> Max(r)]
  BY Zenon
<1>6. ASSUME NEW r \in (SUBSET K) \ {{}}
      PROVE  c[r] \in r /\ c[r] = Max(r)
  <2>1. Max(r) \in r
    BY <1>3, <1>4, MaxOf, Zenon
  <2>2. QED
    BY <1>3, <1>5, <2>1, Zenon
<1>7. Chooser(c, K)
  BY <1>5, <1>6, Zenon DEF Chooser
<1>8. PICK I : I = [r \in SUBSET K |-> {v \in Sums : Tally(v, AskedOf(list, r)) /\ Frame(Sum(h), v)}]
  BY Zenon
<1>9. PICK op : op = [x \in K |-> [v \in Sums |-> IF AddPod(v, list[x]) \in Sums
                                                   THEN AddPod(v, list[x]) ELSE v]]
  BY Zenon
<1>10. op \in [K -> [Sums -> Sums]]
  BY <1>9, Zenon
<1>11. Sum(h) \in Sums /\ Sum(h) \in I[{}]
  <2>1. AskedOf(list, {}) = {} /\ Frame(Sum(h), Sum(h))
    BY DEF AskedOf, Frame
  <2>2. Sum(h) \in Sums
    BY SumEmpty, Zenon DEF Tally
  <2>3. QED
    BY <1>8, <2>1, <2>2, SumEmpty, Zenon
<1>12. ASSUME NEW r \in SUBSET K, r # {}, NEW v \in I[r \ {c[r]}]
       PROVE  AddPod(v, list[c[r]]) \in I[r] /\ op[c[r]][v] = AddPod(v, list[c[r]])
  <2>1. PICK x \in r, t \in SUBSET K : x = c[r] /\ t = r \ {x}
    BY <1>6, <1>12, Zenon
  <2>2. v \in Sums /\ Tally(v, AskedOf(list, r \ {x})) /\ Frame(Sum(h), v)
    BY <1>8, <2>1, Zenon
  <2>3. Tally(AddPod(v, list[x]), AskedOf(list, r)) /\ Frame(Sum(h), AddPod(v, list[x]))
    <3>1. PICK D : D = AskedOf(list, r \ {x})
      BY Zenon
    <3>2. PICK q \in DOMAIN pods : q = list[x]
      <4>1. x \in DOMAIN list
        BY <1>3
      <4>2. list[x] \in DOMAIN pods
        BY <4>1, ElementOfSeq
      <4>3. QED
        BY <4>2
    <3>3. AskedOf(list, r) = D \union AskedBy(q)
      BY <2>1, <3>1, <3>2 DEF AskedOf, AskedBy
    <3>4. AskedBy(q) \intersect D = {}
      BY <1>3, <2>1, <3>1, <3>2 DEF AskedOf, AskedBy, Distinct
    <3>5. Tally(AddPod(v, q), D \union AskedBy(q)) /\ Frame(Sum(h), AddPod(v, q))
      BY <2>2, <3>1, <3>4, AddPodTally, Zenon
    <3>6. QED
      BY <3>2, <3>3, <3>5, Zenon
  <2>4. AddPod(v, list[x]) \in Sums
    BY <2>3, Zenon DEF Tally
  <2>5. op[x][v] = AddPod(v, list[x])
    BY <1>9, <2>2, <2>4, Zenon
  <2>6. AddPod(v, list[x]) \in I[r]
    BY <1>8, <2>3, <2>4, Zenon
  <2>7. QED
    BY <2>1, <2>5, <2>6, Zenon
<1>13. KeptBy(I, K, Sums, Sum(h), c, op)
  <2>1. I \in [SUBSET K -> SUBSET Sums]
    BY <1>8, Zenon
  <2>2. QED
    BY <1>11, <1>12, <2>1, Zenon DEF KeptBy
<1>14. PICK f : FoldResult(f, K, Sums, Sum(h), c, op) /\ \A r \in SUBSET K : f[r] \in I[r]
  BY <1>4, <1>7, <1>10, <1>11, <1>13, FoldKeeps, Zenon
<1>15. f[{}] = Sum(h)
  BY <1>14, Zenon DEF FoldResult, FoldStep
<1>16. ASSUME NEW r \in SUBSET K, r # {}
       PROVE  f[r] = AddPod(f[r \ {Max(r)}], list[Max(r)])
  <2>1. PICK x \in r, t \in SUBSET K : x = c[r] /\ t = r \ {x} /\ x = Max(r)
    BY <1>6, <1>16, Zenon
  <2>2. f[r] = op[x][f[t]]
    BY <1>14, <1>16, <2>1, Zenon DEF FoldResult, FoldStep
  <2>3. f[t] \in I[r \ {c[r]}]
    BY <1>14, <2>1, Zenon
  <2>4. op[x][f[t]] = AddPod(f[t], list[x])
    BY <1>12, <1>16, <2>1, <2>3, Zenon
  <2>5. QED
    BY <2>1, <2>2, <2>4, Zenon
<1>17. f = Step(f)
  <2>1. f \in [SUBSET K -> Sums]
    BY <1>14, Zenon DEF FoldResult
  <2>2. QED
    BY <1>3, <1>15, <1>16, <2>1, Zenon
<1>18. iter = Step(iter)
  <2> HIDE DEF Step
  <2> QED
    BY <1>17
<1>19. ASSUME NEW r \in SUBSET K
       PROVE  iter[r] = IF r = {} THEN Sum(h)
                        ELSE AddPod(iter[r \ {Max(r)}], list[Max(r)])
  <2> HIDE DEF iter
  <2> QED
    BY <1>3, <1>18, Zenon
<1>20. PICK it : it = iter
  BY Zenon
<1> HIDE DEF iter, Step
<1>21. ASSUME NEW r \in SUBSET K, r # {}, it[r \ {c[r]}] = f[r \ {c[r]}]
       PROVE  it[r] = f[r]
  <2>1. PICK x \in r, t \in SUBSET K : x = c[r] /\ t = r \ {x} /\ x = Max(r)
    <3>1. c[r] \in r /\ c[r] = Max(r)
      BY <1>6, <1>21, Zenon
    <3>2. QED
      BY <3>1, Zenon
  <2>2. it[r] = AddPod(it[t], list[x]) /\ f[r] = AddPod(f[t], list[x])
    BY <1>16, <1>19, <1>20, <1>21, <2>1, Zenon
  <2>3. QED
    BY <1>21, <2>1, <2>2, Zenon
<1>22. SameSteps(it, f, K, c)
  <2>1. it[{}] = f[{}]
    BY <1>15, <1>19, <1>20, Zenon
  <2>2. QED
    BY <1>21, <2>1, Zenon DEF SameSteps
<1>23. \A r \in SUBSET K : it[r] = f[r]
  BY <1>4, <1>7, <1>22, SameFold
<1>24. f[K] \in I[K] /\ it[K] = f[K]
  BY <1>14, <1>23, Zenon
<1>25. Tally(f[K], AskedOf(list, K)) /\ Frame(Sum(h), f[K])
  BY <1>8, <1>24, Zenon
<1>26. GetPodsTotalRequestsAndLimits(h, list) = f[K]
  BY <1>1, <1>3, <1>20, <1>24, Zenon
<1>27. QED
  BY <1>3, <1>25, <1>26, Zenon
=============================================================================
