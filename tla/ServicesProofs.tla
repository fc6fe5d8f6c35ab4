--------------------------- MODULE ServicesProofs ---------------------------
(***************************************************************************)
(* Proofs about the page of a namespace: the ages on it are right at every *)
(* moment, not only around the limits that TLC looks at, and the texts of  *)
(* services and endpoints are right for lists of any length.               *)
(***************************************************************************)
EXTENDS Services, FiniteSetTheorems, SequenceTheorems, WellFoundedInduction, TLAPS

\* The state as far as the proofs need it: the text is that of the age.
Current ==
  /\ age \in Int /\ known \in BOOLEAN
  /\ shown = TranslateTimestamp(known, age)

(***************************************************************************)
(* The units, and whole numbers of them, in terms of half seconds: what    *)
(* int(d.Seconds()) and its like compute.                                  *)
(***************************************************************************)
LEMMA Units ==
  /\ Unit.s = 2 /\ Unit.m = 120 /\ Unit.h = 7200 /\ Unit.d = 172800 /\ Unit.y = 63072000
  /\ DOMAIN Unit = {"s", "m", "h", "d", "y"}
BY DEF Unit

LEMMA WholeSeconds ==
  ASSUME NEW d \in Int
  PROVE  /\ Whole(d, "s") \in Int
         /\ d >= 0 => 2 * Whole(d, "s") <= d /\ d < 2 * Whole(d, "s") + 2
         /\ d < 0 => 2 * Whole(d, "s") >= d /\ d > 2 * Whole(d, "s") - 2
<1>1. Whole(d, "s") = IF d < 0 THEN -((-d) \div 2) ELSE d \div 2
  BY Units, SMT DEF Whole
<1>2. QED
  BY <1>1, SMT

LEMMA WholeMinutes ==
  ASSUME NEW d \in Int, d >= 0
  PROVE  /\ Whole(d, "m") \in Int
         /\ 120 * Whole(d, "m") <= d /\ d < 120 * Whole(d, "m") + 120
<1>1. Whole(d, "m") = d \div 120
  BY Units, SMT DEF Whole
<1>2. QED
  BY <1>1, SMT

LEMMA WholeHours ==
  ASSUME NEW d \in Int, d >= 0
  PROVE  /\ Whole(d, "h") \in Int
         /\ 7200 * Whole(d, "h") <= d /\ d < 7200 * Whole(d, "h") + 7200
<1>1. Whole(d, "h") = d \div 7200
  BY Units, SMT DEF Whole
<1>2. QED
  BY <1>1, SMT

LEMMA WholeDays ==
  ASSUME NEW d \in Int, d >= 0
  PROVE  /\ Whole(d, "d") \in Int
         /\ 172800 * Whole(d, "d") <= d /\ d < 172800 * Whole(d, "d") + 172800
<1>1. Whole(d, "d") = d \div 172800
  BY Units, SMT DEF Whole
<1>2. QED
  BY <1>1, SMT

LEMMA WholeYears ==
  ASSUME NEW d \in Int, d >= 0
  PROVE  /\ Whole(d, "y") \in Int
         /\ 63072000 * Whole(d, "y") <= d /\ d < 63072000 * Whole(d, "y") + 63072000
<1>1. Whole(d, "y") = d \div 63072000
  BY Units, SMT DEF Whole
<1>2. QED
  BY <1>1, SMT

(***************************************************************************)
(* Which of the returns of shortHumanDuration is taken, by age.            *)
(***************************************************************************)
LEMMA Text ==
  ASSUME NEW d \in Int
  PROVE  /\ d <= -4 => shortHumanDuration(d) = Invalid
         /\ -4 < d /\ d < 0 => shortHumanDuration(d) = [n |-> 0, unit |-> "s"]
         /\ 0 <= d /\ d < 120 => shortHumanDuration(d) = In(d, "s")
         /\ 120 <= d /\ d < 7200 => shortHumanDuration(d) = In(d, "m")
         /\ 7200 <= d /\ d < 172800 => shortHumanDuration(d) = In(d, "h")
         /\ 172800 <= d /\ d < 62899200 => shortHumanDuration(d) = In(d, "d")
         /\ 62899200 <= d => shortHumanDuration(d) = In(d, "y")
<1>1. ASSUME d <= -4 PROVE shortHumanDuration(d) = Invalid
  <2>1. Whole(d, "s") \in Int /\ Whole(d, "s") < -1
    BY <1>1, WholeSeconds
  <2>2. QED
    BY <2>1 DEF shortHumanDuration
<1>2. ASSUME -4 < d, d < 0 PROVE shortHumanDuration(d) = [n |-> 0, unit |-> "s"]
  <2>1. Whole(d, "s") \in Int /\ -2 < Whole(d, "s") /\ Whole(d, "s") < 1
    BY <1>2, WholeSeconds
  <2>2. QED
    BY <2>1 DEF shortHumanDuration, In
<1>3. ASSUME 0 <= d, d < 120 PROVE shortHumanDuration(d) = In(d, "s")
  <2>1. Whole(d, "s") \in Int /\ 0 <= Whole(d, "s") /\ Whole(d, "s") < 60
    BY <1>3, WholeSeconds
  <2>2. QED
    BY <2>1 DEF shortHumanDuration
<1>4. ASSUME 120 <= d, d < 7200 PROVE shortHumanDuration(d) = In(d, "m")
  <2>1. Whole(d, "s") \in Int /\ 60 <= Whole(d, "s")
    BY <1>4, WholeSeconds
  <2>2. Whole(d, "m") \in Int /\ 1 <= Whole(d, "m") /\ Whole(d, "m") < 60
    BY <1>4, WholeMinutes
  <2>3. Whole(d, "h") = 0
    BY <1>4, WholeHours
  <2>4. QED
    BY <2>1, <2>2, <2>3 DEF shortHumanDuration
<1>5. ASSUME 7200 <= d, d < 172800 PROVE shortHumanDuration(d) = In(d, "h")
  <2>1. Whole(d, "s") \in Int /\ 60 <= Whole(d, "s")
    BY <1>5, WholeSeconds
  <2>2. Whole(d, "m") \in Int /\ 60 <= Whole(d, "m")
    BY <1>5, WholeMinutes
  <2>3. Whole(d, "h") \in Int /\ 1 <= Whole(d, "h") /\ Whole(d, "h") < 24
    BY <1>5, WholeHours
  <2>4. QED
    BY <2>1, <2>2, <2>3 DEF shortHumanDuration
<1>6. ASSUME 172800 <= d, d < 62899200 PROVE shortHumanDuration(d) = In(d, "d")
  <2>1. Whole(d, "s") \in Int /\ 60 <= Whole(d, "s")
    BY <1>6, WholeSeconds
  <2>2. Whole(d, "m") \in Int /\ 60 <= Whole(d, "m")
    BY <1>6, WholeMinutes
  <2>3. Whole(d, "h") \in Int /\ 24 <= Whole(d, "h") /\ Whole(d, "h") < 24 * 364
    BY <1>6, WholeHours
  <2>4. QED
    BY <2>1, <2>2, <2>3 DEF shortHumanDuration
<1>7. ASSUME 62899200 <= d PROVE shortHumanDuration(d) = In(d, "y")
  <2>1. Whole(d, "s") \in Int /\ 60 <= Whole(d, "s")
    BY <1>7, WholeSeconds
  <2>2. Whole(d, "m") \in Int /\ 60 <= Whole(d, "m")
    BY <1>7, WholeMinutes
  <2>3. Whole(d, "h") \in Int /\ 24 * 364 <= Whole(d, "h")
    BY <1>7, WholeHours
  <2>4. QED
    BY <2>1, <2>2, <2>3 DEF shortHumanDuration
<1>8. QED
  BY <1>1, <1>2, <1>3, <1>4, <1>5, <1>6, <1>7
-----------------------------------------------------------------------------
LEMMA CurrentInvariant == Spec => []Current
<1>1. Init => Current
  BY ConstantsAssumption DEF Init, Current
<1>2. Current /\ [Next]_vars => Current'
  BY ConstantsAssumption, Zenon DEF Current, Next, Reload, vars
<1>3. QED
  BY <1>1, <1>2, PTL DEF Spec

(***************************************************************************)
(* The least age that a text stands for, by the age it was made of.        *)
(***************************************************************************)
LEMMA LeastOfText ==
  ASSUME NEW d \in Int
  PROVE  LET text == shortHumanDuration(d) IN
         /\ d < 0 => Least(text) = 0
         /\ 0 <= d /\ d < 120 => Least(text) = 2 * Whole(d, "s") /\ text.unit = "s"
         /\ 120 <= d /\ d < 7200 => Least(text) = 120 * Whole(d, "m") /\ text.unit = "m"
         /\ 7200 <= d /\ d < 172800 => Least(text) = 7200 * Whole(d, "h") /\ text.unit = "h"
         /\ 172800 <= d /\ d < 62899200 => Least(text) = 172800 * Whole(d, "d") /\ text.unit = "d"
         /\ 62899200 <= d => Least(text) = 63072000 * Whole(d, "y") /\ text.unit = "y"
<1>1. ASSUME d < 0 PROVE Least(shortHumanDuration(d)) = 0
  BY <1>1, Text, Units DEF Least, Invalid
<1>2. ASSUME NEW u \in {"s", "m", "h", "d", "y"}, shortHumanDuration(d) = In(d, u)
      PROVE  /\ Least(shortHumanDuration(d)) = Whole(d, u) * Unit[u]
             /\ shortHumanDuration(d).unit = u
  BY <1>2, Units DEF Least, In
<1>3. ASSUME 0 <= d, d < 120
      PROVE  Least(shortHumanDuration(d)) = 2 * Whole(d, "s") /\ shortHumanDuration(d).unit = "s"
  BY <1>2, <1>3, Text, WholeSeconds, Units
<1>4. ASSUME 120 <= d, d < 7200
      PROVE  Least(shortHumanDuration(d)) = 120 * Whole(d, "m") /\ shortHumanDuration(d).unit = "m"
  BY <1>2, <1>4, Text, WholeMinutes, Units
<1>5. ASSUME 7200 <= d, d < 172800
      PROVE  Least(shortHumanDuration(d)) = 7200 * Whole(d, "h") /\ shortHumanDuration(d).unit = "h"
  BY <1>2, <1>5, Text, WholeHours, Units
<1>6. ASSUME 172800 <= d, d < 62899200
      PROVE  Least(shortHumanDuration(d)) = 172800 * Whole(d, "d") /\ shortHumanDuration(d).unit = "d"
  BY <1>2, <1>6, Text, WholeDays, Units
<1>7. ASSUME 62899200 <= d
      PROVE  Least(shortHumanDuration(d)) = 63072000 * Whole(d, "y") /\ shortHumanDuration(d).unit = "y"
  BY <1>2, <1>7, Text, WholeYears, Units
<1>8. QED
  BY <1>1, <1>3, <1>4, <1>5, <1>6, <1>7

\* A text never stands for more than the age.
LEMMA AtMostAge ==
  ASSUME NEW d \in Int
  PROVE  LET least == Least(shortHumanDuration(d)) IN
         least \in Int /\ 0 <= least /\ (d >= 0 => least <= d)
<1>1. CASE d < 0
  BY <1>1, LeastOfText
<1>2. CASE 0 <= d /\ d < 120
  BY <1>2, LeastOfText, WholeSeconds
<1>3. CASE 120 <= d /\ d < 7200
  BY <1>3, LeastOfText, WholeMinutes
<1>4. CASE 7200 <= d /\ d < 172800
  BY <1>4, LeastOfText, WholeHours
<1>5. CASE 172800 <= d /\ d < 62899200
  BY <1>5, LeastOfText, WholeDays
<1>6. CASE 62899200 <= d
  BY <1>6, LeastOfText, WholeYears
<1>7. QED
  BY <1>1, <1>2, <1>3, <1>4, <1>5, <1>6

(***************************************************************************)
(* Theorem: at every moment the text is the age rounded down to its unit,  *)
(* with the tolerance for clocks that are ahead (TranslateTimestamp).      *)
(***************************************************************************)
THEOREM Floor == Spec => []ShownIsFloor
<1>1. Current => ShownIsFloor
  <2> SUFFICES ASSUME Current PROVE ShownIsFloor
    OBVIOUS
  <2>1. CASE ~known
    BY <2>1 DEF Current, ShownIsFloor, TranslateTimestamp
  <2>2. CASE known
    <3>1. shown = shortHumanDuration(age) /\ age \in Int
      BY <2>2 DEF Current, TranslateTimestamp
    <3>2. CASE age <= -4
      BY <2>2, <3>1, <3>2, Text, Units DEF ShownIsFloor
    <3>3. CASE -4 < age /\ age < 0
      BY <2>2, <3>1, <3>3, Text, Units DEF ShownIsFloor, Invalid
    <3>4. ASSUME age >= 0, NEW u \in {"s", "m", "h", "d", "y"}, shown.unit = u,
                 Least(shown) <= age, age < Least(shown) + Unit[u]
          PROVE  ShownIsFloor
      BY <2>2, <3>1, <3>4, Units DEF ShownIsFloor, Invalid
    <3>5. CASE 0 <= age /\ age < 120
      BY <3>1, <3>4, <3>5, LeastOfText, WholeSeconds, Units
    <3>6. CASE 120 <= age /\ age < 7200
      BY <3>1, <3>4, <3>6, LeastOfText, WholeMinutes, Units
    <3>7. CASE 7200 <= age /\ age < 172800
      BY <3>1, <3>4, <3>7, LeastOfText, WholeHours, Units
    <3>8. CASE 172800 <= age /\ age < 62899200
      BY <3>1, <3>4, <3>8, LeastOfText, WholeDays, Units
    <3>9. CASE 62899200 <= age
      BY <3>1, <3>4, <3>9, LeastOfText, WholeYears, Units
    <3>10. QED
      BY <3>1, <3>2, <3>3, <3>5, <3>6, <3>7, <3>8, <3>9
  <2>3. QED
    BY <2>1, <2>2
<1>2. QED
  BY <1>1, CurrentInvariant, PTL

(***************************************************************************)
(* Two ages, the later of which stands for no less than the earlier unless *)
(* it lies in the 365th day.                                               *)
(***************************************************************************)
LEMMA Monotone ==
  ASSUME NEW d \in Int, NEW e \in Int, d < e
  PROVE  \/ Least(shortHumanDuration(d)) <= Least(shortHumanDuration(e))
         \/ /\ 62899200 <= e /\ e < 63072000
            /\ shortHumanDuration(e) = [n |-> 0, unit |-> "y"]
<1>1. CASE e < 0
  BY <1>1, LeastOfText
<1>2. CASE d < 0
  BY <1>2, LeastOfText, AtMostAge
<1>3. CASE 0 <= d /\ e < 120
  BY <1>3, LeastOfText, WholeSeconds
<1>4. CASE 0 <= d /\ 120 <= e /\ e < 7200
  <2>1. CASE d < 120
    BY <1>4, <2>1, LeastOfText, AtMostAge, WholeMinutes
  <2>2. CASE 120 <= d
    BY <1>4, <2>2, LeastOfText, WholeMinutes
  <2>3. QED
    BY <2>1, <2>2
<1>5. CASE 0 <= d /\ 7200 <= e /\ e < 172800
  <2>1. CASE d < 7200
    BY <1>5, <2>1, LeastOfText, AtMostAge, WholeHours
  <2>2. CASE 7200 <= d
    BY <1>5, <2>2, LeastOfText, WholeHours
  <2>3. QED
    BY <2>1, <2>2
<1>6. CASE 0 <= d /\ 172800 <= e /\ e < 62899200
  <2>1. CASE d < 172800
    BY <1>6, <2>1, LeastOfText, AtMostAge, WholeDays
  <2>2. CASE 172800 <= d
    BY <1>6, <2>2, LeastOfText, WholeDays
  <2>3. QED
    BY <2>1, <2>2
<1>7. CASE 62899200 <= e /\ e < 63072000
  <2>1. Whole(e, "y") = 0
    BY <1>7, WholeYears
  <2>2. QED
    BY <1>7, <2>1, Text DEF In
<1>8. CASE 0 <= d /\ 63072000 <= e
  <2>1. CASE d < 62899200
    BY <1>8, <2>1, LeastOfText, AtMostAge, WholeYears
  <2>2. CASE 62899200 <= d
    BY <1>8, <2>2, LeastOfText, WholeYears
  <2>3. QED
    BY <2>1, <2>2
<1>9. QED
  BY <1>1, <1>2, <1>3, <1>4, <1>5, <1>6, <1>7, <1>8

(***************************************************************************)
(* Theorem: whenever the page is loaded again nothing looks younger than   *)
(* before, except during the 365th day, when it is 0 years old.            *)
(***************************************************************************)
THEOREM Older == Spec => NeverYounger
<1>1. Current /\ Current' /\ [Next]_vars
        => [\/ Least(shown') >= Least(shown)
            \/ age' >= 364 * Unit["d"] /\ age' < 365 * Unit["d"] /\ shown' = [n |-> 0, unit |-> "y"]]_vars
  <2> SUFFICES ASSUME Current, Current', Reload
               PROVE  \/ Least(shown') >= Least(shown)
                      \/ /\ age' >= 364 * Unit["d"] /\ age' < 365 * Unit["d"]
                         /\ shown' = [n |-> 0, unit |-> "y"]
    BY DEF Next, vars
  <2>1. age \in Int /\ age' \in Int /\ age < age' /\ known' = known
    BY ConstantsAssumption DEF Current, Reload
  <2>2. CASE ~known
    <3>1. shown = Unknown /\ shown' = Unknown
      BY <2>1, <2>2 DEF Current, TranslateTimestamp
    <3>2. QED
      BY <3>1, Units DEF Least, Unknown
  <2>3. CASE known
    <3>1. shown = shortHumanDuration(age) /\ shown' = shortHumanDuration(age')
      BY <2>1, <2>3 DEF Current, TranslateTimestamp
    <3>2. Least(shortHumanDuration(age)) \in Int /\ Least(shortHumanDuration(age')) \in Int
      BY <2>1, AtMostAge
    <3>3. QED
      BY <2>1, <3>1, <3>2, Monotone, Units
  <2>4. QED
    BY <2>2, <2>3
<1>2. QED
  BY <1>1, CurrentInvariant, PTL DEF NeverYounger, Spec

-----------------------------------------------------------------------------
(***************************************************************************)
(* What holds of 0, and of a number when it holds of the one before it,    *)
(* holds of all numbers: T is the set of those of which it holds.          *)
(***************************************************************************)
LEMMA UpTo ==
  ASSUME NEW n \in Nat, NEW T, 0 \in T, \A m \in 1..n : m - 1 \in T => m \in T
  PROVE  \A m \in 0..n : m \in T
<1>1. SUFFICES ASSUME NEW k \in 0..n, k \notin T
               PROVE  FALSE
  OBVIOUS
<1>2. DEFINE Bad == {m \in 0..n : m \notin T}
<1>3. Bad \subseteq Nat /\ Bad # {}
  BY <1>1
<1>4. PICK m \in Bad : \A z \in Bad : ~(<<z, m>> \in OpToRel(<, Nat))
  <2>1. IsWellFoundedOn(OpToRel(<, Nat), Nat)
    BY NatLessThanWellFounded, Zenon
  <2>2. QED
    BY <1>3, <2>1, WFMin, Zenon
<1>5. \A z \in Bad : ~(z < m)
  BY <1>3, <1>4, Zenon DEF OpToRel
<1>6. m \in 1..n
  <2>1. m \in 0..n /\ m \notin T
    BY <1>4, Zenon
  <2>2. m # 0
    BY <2>1, Zenon
  <2>3. QED
    BY <2>1, <2>2
<1>7. m - 1 \in 0..n /\ m - 1 < m
  BY <1>6
<1>8. m - 1 \in T
  BY <1>5, <1>7
<1>9. QED
  BY <1>4, <1>6, <1>8, Zenon

\* The greatest of some of the numbers from 1 to n.
LEMMA MaxOf ==
  ASSUME NEW n \in Nat, NEW s \in SUBSET (1..n), s # {}
  PROVE  Max(s) \in s /\ \A y \in s : y <= Max(s)
<1>1. DEFINE Bounds == {k \in 0..n : \A y \in s : y <= k}
<1>2. \A k \in 0..n : k \in {k2 \in 0..n : (n - k2) \in Bounds} \/ \E x \in s : \A y \in s : y <= x
  <2>1. DEFINE T == {k2 \in 0..n : (n - k2) \in Bounds \/ \E x \in s : \A y \in s : y <= x}
  <2>2. 0 \in T
    OBVIOUS
  <2>3. ASSUME NEW m \in 1..n, m - 1 \in T
        PROVE  m \in T
    <3>1. CASE \E x \in s : \A y \in s : y <= x
      BY <3>1
    <3>2. CASE n - (m - 1) \in Bounds /\ ~ \E x \in s : \A y \in s : y <= x
      <4>1. PICK b \in 0..n : b = n - (m - 1)
        OBVIOUS
      <4>2. b \notin s /\ \A y \in s : y <= b
        BY <3>2, <4>1
      <4>3. \A y \in s : y <= b - 1
        BY <4>2
      <4>4. n - m = b - 1 /\ n - m \in 0..n
        BY <4>1
      <4>5. QED
        BY <4>3, <4>4
    <3>3. QED
      BY <2>3, <3>1, <3>2
  <2>4. HIDE DEF T
  <2>5. \A m \in 0..n : m \in T
    BY <2>2, <2>3, UpTo, Zenon
  <2>6. QED
    BY <2>5 DEF T
<1>3. n \in {k2 \in 0..n : (n - k2) \in Bounds} \/ \E x \in s : \A y \in s : y <= x
  BY <1>2
<1>4. ~(0 \in Bounds)
  <2>1. PICK y \in s : TRUE
    BY Zenon
  <2>2. y \in 1..n /\ ~(y <= 0)
    OBVIOUS
  <2>3. QED
    BY <2>2
<1>5. \E x \in s : \A y \in s : x >= y
  BY <1>3, <1>4
<1>6. Max(s) \in s /\ \A y \in s : Max(s) >= y
  BY <1>5, Zenon DEF Max
<1>7. QED
  BY <1>6

\* The last of the first m numbers, and those before it.
LEMMA MaxOfFirst ==
  ASSUME NEW n \in Nat, NEW m \in 1..n
  PROVE  Max(1..m) = m /\ (1..m) \ {m} = 1..(m - 1) /\ 1..m # {} /\ 1..m \in SUBSET (1..n)
<1>1. 1..m \in SUBSET (1..n) /\ 1..m # {} /\ m \in 1..m
  OBVIOUS
<1>2. Max(1..m) \in 1..m /\ m <= Max(1..m)
  BY <1>1, MaxOf, Zenon
<1>3. QED
  BY <1>1, <1>2

(***************************************************************************)
(* The loops of the source are folds. A fold is defined by a recursion on  *)
(* the sets of positions that are still to do, and a function with that    *)
(* recursion is what FoldResult says: it takes c(s) out of s. For a finite *)
(* set and a step op from A to A there is one.                             *)
(***************************************************************************)
Chooser(c, S) == c \in [(SUBSET S) \ {{}} -> S] /\ \A s \in (SUBSET S) \ {{}} : c[s] \in s

FoldStep(f, s, base, c, op) == IF s = {} THEN base ELSE op[c[s]][f[s \ {c[s]}]]

FoldResult(f, S, A, base, c, op) ==
  f \in [SUBSET S -> A] /\ \A s \in SUBSET S : f[s] = FoldStep(f, s, base, c, op)

LEMMA FoldExists ==
  ASSUME NEW S, IsFiniteSet(S), NEW A, NEW base \in A, NEW c, Chooser(c, S), NEW op \in [S -> [A -> A]]
  PROVE  \E f : FoldResult(f, S, A, base, c, op)
<1> DEFINE N == Cardinality(S)
           Upto(f, k) == \A s \in SUBSET S : Cardinality(s) <= k => f[s] = FoldStep(f, s, base, c, op)
           T == {k \in 0..N : \E f \in [SUBSET S -> A] : Upto(f, k)}
<1>1. N \in Nat
  BY FS_CardinalityType
<1>2. ASSUME NEW s \in SUBSET S
      PROVE  /\ IsFiniteSet(s) /\ Cardinality(s) \in Nat /\ Cardinality(s) <= N
             /\ Cardinality(s) <= 0 => s = {}
  <2>1. IsFiniteSet(s) /\ Cardinality(s) <= N
    BY FS_Subset
  <2>2. Cardinality(s) \in Nat
    BY <2>1, FS_CardinalityType
  <2>3. Cardinality(s) = 0 <=> s = {}
    BY <2>1, FS_EmptySet
  <2>4. QED
    BY <2>1, <2>2, <2>3
<1>3. ASSUME NEW s \in SUBSET S, s # {}
      PROVE  /\ c[s] \in s /\ c[s] \in S /\ s \ {c[s]} \in SUBSET S
             /\ Cardinality(s \ {c[s]}) = Cardinality(s) - 1
  <2>1. c[s] \in s /\ c[s] \in S
    BY <1>3 DEF Chooser
  <2>2. Cardinality(s \ {c[s]}) = Cardinality(s) - 1
    BY <1>2, <2>1, FS_RemoveElement
  <2>3. QED
    BY <2>1, <2>2
<1>4. ASSUME NEW f \in [SUBSET S -> A], NEW s \in SUBSET S
      PROVE  FoldStep(f, s, base, c, op) \in A
  <2>1. CASE s = {}
    BY <2>1 DEF FoldStep
  <2>2. CASE s # {}
    <3>1. c[s] \in S /\ s \ {c[s]} \in SUBSET S
      BY <1>3, <2>2, Zenon
    <3>2. f[s \ {c[s]}] \in A
      BY <3>1
    <3>3. op[c[s]] \in [A -> A]
      BY <3>1
    <3>4. op[c[s]][f[s \ {c[s]}]] \in A
      BY <3>2, <3>3, Zenon
    <3>5. QED
      BY <2>2, <3>4 DEF FoldStep
  <2>3. QED
    BY <2>1, <2>2
<1>5. 0 \in T
  <2>1. DEFINE f == [s \in SUBSET S |-> base]
  <2>2. f \in [SUBSET S -> A]
    OBVIOUS
  <2>3. Upto(f, 0)
    <3>1. ASSUME NEW s \in SUBSET S, Cardinality(s) <= 0
          PROVE  f[s] = FoldStep(f, s, base, c, op)
      <4>1. s = {}
        BY <1>2, <3>1
      <4>2. f[s] = base
        OBVIOUS
      <4>3. QED
        BY <4>1, <4>2 DEF FoldStep
    <3>2. QED
      BY <3>1
  <2>4. 0 \in 0..N
    BY <1>1
  <2>5. HIDE DEF f, N, Upto
  <2>6. QED
    BY <2>2, <2>3, <2>4
<1>6. ASSUME NEW k \in 1..N, k - 1 \in T
      PROVE  k \in T
  <2>1. PICK f \in [SUBSET S -> A] : Upto(f, k - 1)
    BY <1>6, Zenon
  <2>2. DEFINE g == [s \in SUBSET S |-> IF Cardinality(s) <= k - 1 THEN f[s] ELSE FoldStep(f, s, base, c, op)]
  <2>3. g \in [SUBSET S -> A]
    BY <1>4, Zenon
  <2>4. ASSUME NEW s \in SUBSET S
        PROVE  g[s] = IF Cardinality(s) <= k - 1 THEN f[s] ELSE FoldStep(f, s, base, c, op)
    OBVIOUS
  <2>5. HIDE DEF g
  <2>6. ASSUME NEW s \in SUBSET S, Cardinality(s) <= k
        PROVE  g[s] = FoldStep(g, s, base, c, op)
    <3>1. g[s] = FoldStep(f, s, base, c, op)
      BY <2>1, <2>4
    <3>2. CASE s = {}
      BY <3>1, <3>2 DEF FoldStep
    <3>3. CASE s # {}
      <4>1. PICK r \in SUBSET S : r = s \ {c[s]}
        BY <1>3, <3>3, Zenon
      <4>2. Cardinality(r) = Cardinality(s) - 1
        BY <1>3, <3>3, <4>1
      <4>3. Cardinality(r) <= k - 1
        BY <1>1, <1>2, <2>6, <4>2
      <4>4. g[r] = f[r]
        BY <2>4, <4>3
      <4>5. QED
        BY <3>1, <3>3, <4>1, <4>4 DEF FoldStep
    <3>4. QED
      BY <3>2, <3>3
  <2>7. QED
    BY <1>1, <2>3, <2>6
<1>7. HIDE DEF T
<1>8. \A m \in 0..N : m \in T
  BY <1>1, <1>5, <1>6, UpTo, Zenon
<1>9. N \in T
  BY <1>1, <1>8
<1>10. PICK f \in [SUBSET S -> A] : Upto(f, N)
  BY <1>9, Zenon DEF T
<1>11. QED
  BY <1>2, <1>10 DEF FoldResult

\* The same for a fold of a sequence from the left, which takes the last position out.
LeftStep(f, s, base, op) == IF s = {} THEN base ELSE op[Max(s)][f[s \ {Max(s)}]]

LeftResult(f, n, A, base, op) ==
  f \in [SUBSET (1..n) -> A] /\ \A s \in SUBSET (1..n) : f[s] = LeftStep(f, s, base, op)

LEMMA LeftExists ==
  ASSUME NEW n \in Nat, NEW A, NEW base \in A, NEW op \in [1..n -> [A -> A]]
  PROVE  \E f : LeftResult(f, n, A, base, op)
<1>1. PICK c : c = [s \in (SUBSET (1..n)) \ {{}} |-> Max(s)]
  BY Zenon
<1>2. ASSUME NEW s \in SUBSET (1..n), s # {}
      PROVE  c[s] = Max(s) /\ c[s] \in s
  BY <1>1, <1>2, MaxOf, Zenon
<1>3. Chooser(c, 1..n)
  BY <1>1, <1>2, Zenon DEF Chooser
<1>4. IsFiniteSet(1..n)
  BY FS_Interval
<1>5. PICK f : FoldResult(f, 1..n, A, base, c, op)
  BY <1>3, <1>4, FoldExists
<1>6. ASSUME NEW s \in SUBSET (1..n)
      PROVE  FoldStep(f, s, base, c, op) = LeftStep(f, s, base, op)
  BY <1>2, Zenon DEF FoldStep, LeftStep
<1>7. QED
  BY <1>5, <1>6, Zenon DEF FoldResult, LeftResult

(***************************************************************************)
(* What FormatEndpoints' variables hold once it has gone through the pairs *)
(* in done, and that the body of the inmost loop keeps it so.              *)
(***************************************************************************)
Told(done) ==
  [list |-> IF Len(done) <= max THEN done ELSE SubSeq(done, 1, max),
   more |-> Len(done) > max, count |-> Len(done)]

LEMMA ToldShort ==
  ASSUME NEW P, NEW done \in Seq(P), Len(done) <= 3
  PROVE  Told(done) = [list |-> done, more |-> FALSE, count |-> Len(done)]
<1>1. PICK k \in Nat : k = Len(done)
  BY LenProperties
<1>2. k <= max /\ ~(k > max)
  BY <1>1 DEF max
<1>3. (Len(done) > max) = FALSE
  BY <1>1, <1>2
<1>4. (IF Len(done) <= max THEN done ELSE SubSeq(done, 1, max)) = done
  BY <1>1, <1>2, Zenon
<1>5. QED
  BY <1>3, <1>4, Zenon DEF Told

LEMMA ToldLong ==
  ASSUME NEW P, NEW done \in Seq(P), Len(done) >= 3
  PROVE  Told(done) = [list |-> SubSeq(done, 1, 3), more |-> Len(done) > 3, count |-> Len(done)]
<1>1. PICK k \in Nat : k = Len(done)
  BY LenProperties
<1>2. CASE k = 3
  <2>1. SubSeq(done, 1, 3) = done
    BY <1>1, <1>2, SubSeqFull, Zenon
  <2>2. Told(done) = [list |-> done, more |-> FALSE, count |-> Len(done)]
    BY <1>1, <1>2, ToldShort, Zenon
  <2>3. (Len(done) > 3) = FALSE
    BY <1>1, <1>2
  <2>4. QED
    BY <2>1, <2>2, <2>3, Zenon
<1>3. CASE k > 3
  <2>1. ~(k <= max) /\ max = 3
    BY <1>1, <1>3 DEF max
  <2>2. (IF Len(done) <= max THEN done ELSE SubSeq(done, 1, max)) = SubSeq(done, 1, 3)
    BY <1>1, <2>1, Zenon
  <2>3. QED
    BY <2>1, <2>2, Zenon DEF Told
<1>4. QED
  BY <1>1, <1>2, <1>3

LEMMA ToldNext ==
  ASSUME NEW P, NEW done \in Seq(P), NEW address, NEW port, <<address, port>> \in P
  PROVE  OneAddress(Told(done), address, port) = Told(Append(done, <<address, port>>))
<1>1. PICK x \in P : x = <<address, port>>
  BY Zenon
<1>2. PICK next : next = Append(done, x)
  BY Zenon
<1>3. next \in Seq(P) /\ Len(next) = Len(done) + 1 /\ \A i \in 1..Len(done) : next[i] = done[i]
  BY <1>2, AppendProperties, Zenon
<1>4. PICK k \in Nat : k = Len(done)
  BY LenProperties, Zenon
<1>5. CASE k < 3
  <2>1. k <= 3 /\ k + 1 <= 3 /\ k # 3
    BY <1>5
  <2>2. Told(done) = [list |-> done, more |-> FALSE, count |-> k]
    BY <1>4, <2>1, ToldShort, Zenon
  <2>3. Told(next) = [list |-> next, more |-> FALSE, count |-> k + 1]
    BY <1>3, <1>4, <2>1, ToldShort, Zenon
  <2>4. OneAddress(Told(done), address, port)
          = [list |-> Append(done, <<address, port>>), more |-> FALSE, count |-> k + 1]
    <3>1. (Told(done).more \/ Len(Told(done).list) = max) = FALSE
      BY <1>4, <2>1, <2>2 DEF max
    <3>2. Told(done).list = done /\ Told(done).count = k
      BY <2>2
    <3>3. QED
      BY <3>1, <3>2, Zenon DEF OneAddress
  <2>5. QED
    BY <1>1, <1>2, <2>3, <2>4, Zenon
<1>6. CASE k >= 3
  <2>1. k + 1 >= 3 /\ k + 1 > 3
    BY <1>6
  <2>2. PICK first : first = SubSeq(done, 1, 3)
    BY Zenon
  <2>3. SubSeq(next, 1, 3) = first /\ Len(first) = 3
    <3>1. \A i \in 1..3 : i \in 1..k /\ done[i] \in P /\ next[i] \in P
      BY <1>3, <1>4, <1>6
    <3>2. first \in Seq(P) /\ Len(first) = 3 /\ \A i \in 1..3 : first[i] = done[i]
      BY <2>2, <3>1, SubSeqProperties
    <3>3. PICK other : other = SubSeq(next, 1, 3)
      BY Zenon
    <3>4. other \in Seq(P) /\ Len(other) = 3 /\ \A i \in 1..3 : other[i] = next[i]
      BY <3>1, <3>3, SubSeqProperties
    <3>5. \A i \in 1..3 : other[i] = first[i]
      BY <1>3, <1>4, <3>1, <3>2, <3>4, Zenon
    <3>6. other = first
      BY <3>2, <3>4, <3>5, SeqEqual
    <3>7. QED
      BY <3>2, <3>3, <3>6
  <2>4. Told(done) = [list |-> first, more |-> k > 3, count |-> k]
    BY <1>4, <1>6, <2>2, ToldLong, Zenon
  <2>5. Told(next) = [list |-> first, more |-> k + 1 > 3, count |-> k + 1]
    BY <1>3, <1>4, <2>1, <2>3, ToldLong, Zenon
  <2>6. OneAddress(Told(done), address, port) = [list |-> first, more |-> TRUE, count |-> k + 1]
    <3>1. (Told(done).more \/ Len(Told(done).list) = max) = TRUE
      BY <2>3, <2>4 DEF max
    <3>2. Told(done).list = first /\ Told(done).count = k
      BY <2>4
    <3>3. QED
      BY <3>1, <3>2, Zenon DEF OneAddress
  <2>7. QED
    BY <1>1, <1>2, <2>1, <2>5, <2>6, Zenon
<1>7. QED
  BY <1>4, <1>5, <1>6

(***************************************************************************)
(* Pieces that a loop puts behind done one after another: there is such a  *)
(* fold, and in the end it has done and all pieces, which FlattenSeq joins.*)
(***************************************************************************)
Piecewise(f, n, P, done, pieces) ==
  /\ done \in Seq(P) /\ pieces \in [1..n -> Seq(P)]
  /\ f \in [SUBSET (1..n) -> Seq(P)]
  /\ \A s \in SUBSET (1..n) : f[s] = IF s = {} THEN done ELSE f[s \ {Max(s)}] \o pieces[Max(s)]

LEMMA PiecesExist ==
  ASSUME NEW P, NEW n \in Nat, NEW done \in Seq(P), NEW pieces \in [1..n -> Seq(P)]
  PROVE  \E f : Piecewise(f, n, P, done, pieces)
<1>1. PICK A : A = Seq(P)
  BY Zenon
<1>2. ASSUME NEW m \in 1..n, NEW a \in A
      PROVE  a \o pieces[m] \in A
  BY <1>1, ConcatProperties
<1>3. PICK op : op = [m \in 1..n |-> [a \in A |-> a \o pieces[m]]]
  BY Zenon
<1>4. op \in [1..n -> [A -> A]]
  BY <1>2, <1>3
<1>5. ASSUME NEW m \in 1..n, NEW a \in A
      PROVE  op[m][a] = a \o pieces[m]
  BY <1>3
<1>6. PICK f : LeftResult(f, n, A, done, op)
  <2>1. done \in A
    BY <1>1, Zenon
  <2>2. QED
    BY <1>4, <2>1, LeftExists, Zenon
<1>7. ASSUME NEW s \in SUBSET (1..n), s # {}
      PROVE  f[s] = f[s \ {Max(s)}] \o pieces[Max(s)]
  <2>1. Max(s) \in 1..n /\ s \ {Max(s)} \in SUBSET (1..n)
    BY <1>7, MaxOf, Zenon
  <2>2. f[s \ {Max(s)}] \in A
    BY <1>6, <2>1 DEF LeftResult
  <2>3. f[s] = op[Max(s)][f[s \ {Max(s)}]]
    BY <1>6, <1>7, Zenon DEF LeftResult, LeftStep
  <2>4. QED
    BY <1>5, <2>1, <2>2, <2>3, Zenon
<1>8. f[{}] = done
  BY <1>6, Zenon DEF LeftResult, LeftStep
<1>9. QED
  BY <1>1, <1>6, <1>7, <1>8, Zenon DEF LeftResult, Piecewise

\* The recursion along the first positions only.
Runs(f, n, P, done, pieces) ==
  /\ f[{}] = done /\ 1..0 = {}
  /\ \A m \in 0..n : f[1..m] \in Seq(P)
  /\ \A m \in 1..n : f[1..m] = f[1..(m - 1)] \o pieces[m]

LEMMA PiecesRun ==
  ASSUME NEW P, NEW n \in Nat, NEW done, NEW pieces, NEW f, Piecewise(f, n, P, done, pieces)
  PROVE  Runs(f, n, P, done, pieces)
<1>1. f[{}] = done /\ 1..0 = {}
  <2>1. {} \in SUBSET (1..n) /\ 1..0 = {}
    OBVIOUS
  <2>2. QED
    BY <2>1, Zenon DEF Piecewise
<1>2. ASSUME NEW m \in 0..n
      PROVE  f[1..m] \in Seq(P)
  <2>1. 1..m \in SUBSET (1..n)
    OBVIOUS
  <2>2. QED
    BY <2>1 DEF Piecewise
<1>3. ASSUME NEW m \in 1..n
      PROVE  f[1..m] = f[1..(m - 1)] \o pieces[m]
  <2>1. Max(1..m) = m /\ (1..m) \ {m} = 1..(m - 1) /\ 1..m # {} /\ 1..m \in SUBSET (1..n)
    BY MaxOfFirst, Zenon
  <2>2. f[1..m] = f[(1..m) \ {Max(1..m)}] \o pieces[Max(1..m)]
    BY <2>1, Zenon DEF Piecewise
  <2>3. QED
    BY <2>1, <2>2, Zenon
<1>4. QED
  BY <1>1, <1>2, <1>3 DEF Runs

Joins(f, n, P, done, pieces) ==
  FlattenSeq(pieces) \in Seq(P) /\ f[1..n] = done \o FlattenSeq(pieces)

LEMMA Flat ==
  ASSUME NEW P, NEW n \in Nat, NEW done, NEW pieces, NEW f, Piecewise(f, n, P, done, pieces)
  PROVE  Joins(f, n, P, done, pieces)
<1> SUFFICES FlattenSeq(pieces) \in Seq(P) /\ f[1..n] = done \o FlattenSeq(pieces)
  BY Zenon DEF Joins
<1>0. done \in Seq(P) /\ pieces \in [1..n -> Seq(P)]
  BY DEF Piecewise
<1> USE <1>0
<1>1. Len(pieces) = n /\ DOMAIN pieces = 1..n
  OBVIOUS
<1>r. Runs(f, n, P, done, pieces)
  BY PiecesRun, Zenon
<1>2. CASE n = 0
  <2>1. pieces = <<>>
    BY <1>2
  <2>2. FlattenSeq(pieces) = <<>>
    BY <1>1, <1>2, <2>1 DEF FlattenSeq
  <2>3. 1..n = {} /\ f[{}] = done
    BY <1>2, <1>r, Zenon DEF Runs
  <2>4. QED
    BY <2>2, <2>3, ConcatEmptySeq, EmptySeq, Zenon
<1>3. CASE n # 0
  <2> DEFINE Step(g) == [i \in 1..n |-> IF i = 1 THEN pieces[i] ELSE g[i - 1] \o pieces[i]]
             flatten == CHOOSE g : g = Step(g)
  <2>1. FlattenSeq(pieces) = flatten[n]
    BY <1>1, <1>3 DEF FlattenSeq
  <2>2. PICK h : Piecewise(h, n, P, <<>>, pieces)
    BY PiecesExist, EmptySeq, Zenon
  <2>x. Runs(h, n, P, <<>>, pieces)
    BY <2>2, PiecesRun, Zenon
  <2>3. /\ h[{}] = <<>> /\ 1..0 = {}
        /\ \A m \in 0..n : h[1..m] \in Seq(P)
        /\ \A m \in 1..n : h[1..m] = h[1..(m - 1)] \o pieces[m]
    BY <2>x, Zenon DEF Runs
  <2>4. PICK g : g = [i \in 1..n |-> h[1..i]]
    BY Zenon
  <2>5. g = Step(g)
    <3>1. ASSUME NEW i \in 1..n
          PROVE  g[i] = IF i = 1 THEN pieces[i] ELSE g[i - 1] \o pieces[i]
      <4>1. CASE i = 1
        <5>1. 1 \in 1..n /\ pieces[1] \in Seq(P) /\ 1 - 1 = 0
          BY <4>1
        <5>2. h[1..1] = <<>> \o pieces[1]
          BY <2>3, <5>1, Zenon
        <5>3. h[1..1] = pieces[1]
          BY <5>1, <5>2, ConcatEmptySeq
        <5>4. QED
          BY <2>4, <4>1, <5>3
      <4>2. CASE i # 1
        <5>1. i - 1 \in 1..n
          BY <4>2
        <5>2. g[i - 1] = h[1..(i - 1)]
          BY <2>4, <5>1
        <5>3. g[i] = h[1..i]
          BY <2>4
        <5>4. QED
          BY <2>3, <4>2, <5>2, <5>3, Zenon
      <4>3. QED
        BY <4>1, <4>2
    <3>2. QED
      BY <2>4, <3>1
  <2>6. flatten = Step(flatten)
    <3> HIDE DEF Step
    <3> QED
      BY <2>5
  <2>7. ASSUME NEW i \in 1..n
        PROVE  flatten[i] = IF i = 1 THEN pieces[i] ELSE flatten[i - 1] \o pieces[i]
    <3> HIDE DEF flatten
    <3> QED
      BY <2>6, Zenon
  <2> HIDE DEF flatten, Step
  <2> DEFINE T == {m \in 0..n : m # 0 => flatten[m] \in Seq(P) /\ f[1..m] = done \o flatten[m]}
  <2>8. 0 \in T
    OBVIOUS
  <2>9. ASSUME NEW m \in 1..n, m - 1 \in T
        PROVE  m \in T
    <3>1. f[1..m] = f[1..(m - 1)] \o pieces[m]
      BY <1>r, Zenon DEF Runs
    <3>2. pieces[m] \in Seq(P) /\ m # 0
      OBVIOUS
    <3>3. CASE m = 1
      <4>1. m - 1 = 0
        BY <3>3
      <4>2. f[1..(m - 1)] = done
        BY <4>1, <1>r, Zenon DEF Runs
      <4>3. flatten[m] = pieces[m]
        BY <2>7, <3>3
      <4>4. QED
        BY <3>1, <3>2, <4>2, <4>3
    <3>4. CASE m # 1
      <4>1. m - 1 # 0
        BY <3>4
      <4>2. PICK before \in Seq(P) : before = flatten[m - 1] /\ f[1..(m - 1)] = done \o before
        BY <2>9, <4>1, Zenon
      <4>3. flatten[m] = before \o pieces[m]
        BY <2>7, <3>4, <4>2, Zenon
      <4>4. flatten[m] \in Seq(P)
        BY <3>2, <4>3, ConcatProperties, Zenon
      <4>5. (done \o before) \o pieces[m] = done \o (before \o pieces[m])
        <5>1. PICK piece \in Seq(P) : piece = pieces[m]
          BY <3>2
        <5>2. (done \o before) \o piece = done \o (before \o piece)
          BY ConcatAssociative
        <5>3. QED
          BY <5>1, <5>2
      <4>6. f[1..m] = done \o flatten[m]
        BY <3>1, <4>2, <4>3, <4>5, Zenon
      <4>7. QED
        BY <4>4, <4>6
    <3>5. QED
      BY <3>3, <3>4, Zenon
  <2> HIDE DEF T
  <2>10. \A m \in 0..n : m \in T
    BY <2>8, <2>9, UpTo, Zenon
  <2>11. n \in T
    BY <2>10
  <2>12. QED
    BY <1>3, <2>1, <2>11 DEF T
<1>4. QED
  BY <1>2, <1>3

LEMMA Flattened ==
  ASSUME NEW P, NEW n \in Nat, NEW pieces \in [1..n -> Seq(P)]
  PROVE  FlattenSeq(pieces) \in Seq(P)
<1>1. PICK none \in Seq(P) : none = <<>>
  BY EmptySeq
<1>2. PICK f : Piecewise(f, n, P, none, pieces)
  BY PiecesExist
<1>3. Joins(f, n, P, none, pieces)
  BY <1>2, Flat, Zenon
<1>4. QED
  BY <1>3, Zenon DEF Joins

(***************************************************************************)
(* The three loops of FormatEndpoints, from the inmost. When the body of a *)
(* loop always adds the pairs of its piece to what is told, the whole loop *)
(* adds those of all pieces.                                               *)
(***************************************************************************)
TellsAddress(addresses, port, n, P, pieces) ==
  \A j \in 1..n : \A d \in Seq(P) : OneAddress(Told(d), addresses[j], port) = Told(d \o pieces[j])

LEMMA PortLoop ==
  ASSUME NEW P, NEW done \in Seq(P), NEW n \in Nat, NEW pieces \in [1..n -> Seq(P)],
         NEW addresses, DOMAIN addresses = 1..n, NEW port, TellsAddress(addresses, port, n, P, pieces)
  PROVE  OnePort(addresses, Told(done), port) = Told(done \o FlattenSeq(pieces))
<1> DEFINE Step(g) == [s \in SUBSET (1..n) |->
                         IF s = {} THEN Told(done) ELSE OneAddress(g[s \ {Max(s)}], addresses[Max(s)], port)]
           iter == CHOOSE g : g = Step(g)
<1>1. OnePort(addresses, Told(done), port) = iter[1..n]
  BY DEF OnePort, FoldLeft, MapThenFoldSet
<1>2. PICK f : Piecewise(f, n, P, done, pieces)
  BY PiecesExist
<1>3. PICK told : told = [s \in SUBSET (1..n) |-> Told(f[s])]
  BY Zenon
<1>4. told = Step(told)
  <2>1. ASSUME NEW s \in SUBSET (1..n), s # {}
        PROVE  told[s] = OneAddress(told[s \ {Max(s)}], addresses[Max(s)], port)
    <3>1. PICK j \in 1..n : j = Max(s)
      BY <2>1, MaxOf, Zenon
    <3>2. PICK rest \in SUBSET (1..n) : rest = s \ {j}
      BY Zenon
    <3>3. f[rest] \in Seq(P) /\ f[s] = f[rest] \o pieces[j]
      BY <1>2, <2>1, <3>1, <3>2, Zenon DEF Piecewise
    <3>4. OneAddress(Told(f[rest]), addresses[j], port) = Told(f[rest] \o pieces[j])
      BY <3>3, Zenon DEF TellsAddress
    <3>5. told[s] = Told(f[s]) /\ told[rest] = Told(f[rest])
      BY <1>3
    <3>6. QED
      BY <3>1, <3>2, <3>3, <3>4, <3>5, Zenon
  <2>2. told[{}] = Told(done)
    BY <1>2, <1>3, Zenon DEF Piecewise
  <2>3. QED
    BY <1>3, <2>1, <2>2, Zenon
<1>5. iter = Step(iter)
  <2> HIDE DEF Step
  <2> QED
    BY <1>4
<1>6. ASSUME NEW s \in SUBSET (1..n)
      PROVE  iter[s] = IF s = {} THEN Told(done) ELSE OneAddress(iter[s \ {Max(s)}], addresses[Max(s)], port)
  <2> HIDE DEF iter
  <2> QED
    BY <1>5, Zenon
<1>7. Runs(f, n, P, done, pieces)
  BY <1>2, PiecesRun, Zenon
<1> HIDE DEF iter, Step
<1> DEFINE T == {m \in 0..n : iter[1..m] = Told(f[1..m])}
<1>8. 0 \in T
  <2>1. f[1..0] = done /\ 1..0 = {}
    BY <1>7, Zenon DEF Runs
  <2>2. iter[{}] = Told(done)
    BY <1>6, Zenon
  <2>3. QED
    BY <2>1, <2>2
<1>9. ASSUME NEW m \in 1..n, m - 1 \in T
      PROVE  m \in T
  <2>1. Max(1..m) = m /\ (1..m) \ {m} = 1..(m - 1) /\ 1..m # {} /\ 1..m \in SUBSET (1..n)
    BY MaxOfFirst, Zenon
  <2>2. iter[1..m] = OneAddress(iter[1..(m - 1)], addresses[m], port)
    BY <1>6, <2>1, Zenon
  <2>3. iter[1..(m - 1)] = Told(f[1..(m - 1)]) /\ m - 1 \in 0..n /\ m \in 0..n
    BY <1>9
  <2>4. f[1..(m - 1)] \in Seq(P) /\ f[1..m] = f[1..(m - 1)] \o pieces[m]
    BY <1>7, <2>3, Zenon DEF Runs
  <2>5. OneAddress(Told(f[1..(m - 1)]), addresses[m], port) = Told(f[1..m])
    BY <2>4, Zenon DEF TellsAddress
  <2>6. QED
    BY <2>2, <2>3, <2>5, Zenon
<1> HIDE DEF T
<1>10. \A m \in 0..n : m \in T
  BY <1>8, <1>9, UpTo, Zenon
<1>11. n \in T
  BY <1>10
<1>12. Joins(f, n, P, done, pieces)
  BY <1>2, Flat, Zenon
<1>13. QED
  BY <1>1, <1>11, <1>12, Zenon DEF T, Joins

TellsPort(subset, n, P, pieces) ==
  \A j \in 1..n : \A d \in Seq(P) : OnePort(subset.addresses, Told(d), subset.ports[j]) = Told(d \o pieces[j])

LEMMA SubsetLoop ==
  ASSUME NEW P, NEW done \in Seq(P), NEW n \in Nat, NEW pieces \in [1..n -> Seq(P)],
         NEW subset, DOMAIN subset.ports = 1..n, TellsPort(subset, n, P, pieces)
  PROVE  OneSubset(Told(done), subset) = Told(done \o FlattenSeq(pieces))
<1> DEFINE Step(g) == [s \in SUBSET (1..n) |->
                         IF s = {} THEN Told(done) ELSE OnePort(subset.addresses, g[s \ {Max(s)}], subset.ports[Max(s)])]
           iter == CHOOSE g : g = Step(g)
<1>1. OneSubset(Told(done), subset) = iter[1..n]
  BY DEF OneSubset, FoldLeft, MapThenFoldSet
<1>2. PICK f : Piecewise(f, n, P, done, pieces)
  BY PiecesExist
<1>3. PICK told : told = [s \in SUBSET (1..n) |-> Told(f[s])]
  BY Zenon
<1>4. told = Step(told)
  <2>1. ASSUME NEW s \in SUBSET (1..n), s # {}
        PROVE  told[s] = OnePort(subset.addresses, told[s \ {Max(s)}], subset.ports[Max(s)])
    <3>1. PICK j \in 1..n : j = Max(s)
      BY <2>1, MaxOf, Zenon
    <3>2. PICK rest \in SUBSET (1..n) : rest = s \ {j}
      BY Zenon
    <3>3. f[rest] \in Seq(P) /\ f[s] = f[rest] \o pieces[j]
      BY <1>2, <2>1, <3>1, <3>2, Zenon DEF Piecewise
    <3>4. OnePort(subset.addresses, Told(f[rest]), subset.ports[j]) = Told(f[rest] \o pieces[j])
      BY <3>3, Zenon DEF TellsPort
    <3>5. told[s] = Told(f[s]) /\ told[rest] = Told(f[rest])
      BY <1>3
    <3>6. QED
      BY <3>1, <3>2, <3>3, <3>4, <3>5, Zenon
  <2>2. told[{}] = Told(done)
    BY <1>2, <1>3, Zenon DEF Piecewise
  <2>3. QED
    BY <1>3, <2>1, <2>2, Zenon
<1>5. iter = Step(iter)
  <2> HIDE DEF Step
  <2> QED
    BY <1>4
<1>6. ASSUME NEW s \in SUBSET (1..n)
      PROVE  iter[s] = IF s = {} THEN Told(done) ELSE OnePort(subset.addresses, iter[s \ {Max(s)}], subset.ports[Max(s)])
  <2> HIDE DEF iter
  <2> QED
    BY <1>5, Zenon
<1>7. Runs(f, n, P, done, pieces)
  BY <1>2, PiecesRun, Zenon
<1> HIDE DEF iter, Step
<1> DEFINE T == {m \in 0..n : iter[1..m] = Told(f[1..m])}
<1>8. 0 \in T
  <2>1. f[1..0] = done /\ 1..0 = {}
    BY <1>7, Zenon DEF Runs
  <2>2. iter[{}] = Told(done)
    BY <1>6, Zenon
  <2>3. QED
    BY <2>1, <2>2
<1>9. ASSUME NEW m \in 1..n, m - 1 \in T
      PROVE  m \in T
  <2>1. Max(1..m) = m /\ (1..m) \ {m} = 1..(m - 1) /\ 1..m # {} /\ 1..m \in SUBSET (1..n)
    BY MaxOfFirst, Zenon
  <2>2. iter[1..m] = OnePort(subset.addresses, iter[1..(m - 1)], subset.ports[m])
    BY <1>6, <2>1, Zenon
  <2>3. iter[1..(m - 1)] = Told(f[1..(m - 1)]) /\ m - 1 \in 0..n /\ m \in 0..n
    BY <1>9
  <2>4. f[1..(m - 1)] \in Seq(P) /\ f[1..m] = f[1..(m - 1)] \o pieces[m]
    BY <1>7, <2>3, Zenon DEF Runs
  <2>5. OnePort(subset.addresses, Told(f[1..(m - 1)]), subset.ports[m]) = Told(f[1..m])
    BY <2>4, Zenon DEF TellsPort
  <2>6. QED
    BY <2>2, <2>3, <2>5, Zenon
<1> HIDE DEF T
<1>10. \A m \in 0..n : m \in T
  BY <1>8, <1>9, UpTo, Zenon
<1>11. n \in T
  BY <1>10
<1>12. Joins(f, n, P, done, pieces)
  BY <1>2, Flat, Zenon
<1>13. QED
  BY <1>1, <1>11, <1>12, Zenon DEF T, Joins

TellsSubset(subsets, n, P, pieces) ==
  \A j \in 1..n : \A d \in Seq(P) : OneSubset(Told(d), subsets[j]) = Told(d \o pieces[j])

LEMMA AllLoop ==
  ASSUME NEW P, NEW done \in Seq(P), NEW n \in Nat, NEW pieces \in [1..n -> Seq(P)],
         NEW subsets, DOMAIN subsets = 1..n, TellsSubset(subsets, n, P, pieces)
  PROVE  FoldLeft(OneSubset, Told(done), subsets) = Told(done \o FlattenSeq(pieces))
<1> DEFINE Step(g) == [s \in SUBSET (1..n) |->
                         IF s = {} THEN Told(done) ELSE OneSubset(g[s \ {Max(s)}], subsets[Max(s)])]
           iter == CHOOSE g : g = Step(g)
<1>1. FoldLeft(OneSubset, Told(done), subsets) = iter[1..n]
  BY DEF FoldLeft, MapThenFoldSet
<1>2. PICK f : Piecewise(f, n, P, done, pieces)
  BY PiecesExist
<1>3. PICK told : told = [s \in SUBSET (1..n) |-> Told(f[s])]
  BY Zenon
<1>4. told = Step(told)
  <2>1. ASSUME NEW s \in SUBSET (1..n), s # {}
        PROVE  told[s] = OneSubset(told[s \ {Max(s)}], subsets[Max(s)])
    <3>1. PICK j \in 1..n : j = Max(s)
      BY <2>1, MaxOf, Zenon
    <3>2. PICK rest \in SUBSET (1..n) : rest = s \ {j}
      BY Zenon
    <3>3. f[rest] \in Seq(P) /\ f[s] = f[rest] \o pieces[j]
      BY <1>2, <2>1, <3>1, <3>2, Zenon DEF Piecewise
    <3>4. OneSubset(Told(f[rest]), subsets[j]) = Told(f[rest] \o pieces[j])
      BY <3>3, Zenon DEF TellsSubset
    <3>5. told[s] = Told(f[s]) /\ told[rest] = Told(f[rest])
      BY <1>3
    <3>6. QED
      BY <3>1, <3>2, <3>3, <3>4, <3>5, Zenon
  <2>2. told[{}] = Told(done)
    BY <1>2, <1>3, Zenon DEF Piecewise
  <2>3. QED
    BY <1>3, <2>1, <2>2, Zenon
<1>5. iter = Step(iter)
  <2> HIDE DEF Step
  <2> QED
    BY <1>4
<1>6. ASSUME NEW s \in SUBSET (1..n)
      PROVE  iter[s] = IF s = {} THEN Told(done) ELSE OneSubset(iter[s \ {Max(s)}], subsets[Max(s)])
  <2> HIDE DEF iter
  <2> QED
    BY <1>5, Zenon
<1>7. Runs(f, n, P, done, pieces)
  BY <1>2, PiecesRun, Zenon
<1> HIDE DEF iter, Step
<1> DEFINE T == {m \in 0..n : iter[1..m] = Told(f[1..m])}
<1>8. 0 \in T
  <2>1. f[1..0] = done /\ 1..0 = {}
    BY <1>7, Zenon DEF Runs
  <2>2. iter[{}] = Told(done)
    BY <1>6, Zenon
  <2>3. QED
    BY <2>1, <2>2
<1>9. ASSUME NEW m \in 1..n, m - 1 \in T
      PROVE  m \in T
  <2>1. Max(1..m) = m /\ (1..m) \ {m} = 1..(m - 1) /\ 1..m # {} /\ 1..m \in SUBSET (1..n)
    BY MaxOfFirst, Zenon
  <2>2. iter[1..m] = OneSubset(iter[1..(m - 1)], subsets[m])
    BY <1>6, <2>1, Zenon
  <2>3. iter[1..(m - 1)] = Told(f[1..(m - 1)]) /\ m - 1 \in 0..n /\ m \in 0..n
    BY <1>9
  <2>4. f[1..(m - 1)] \in Seq(P) /\ f[1..m] = f[1..(m - 1)] \o pieces[m]
    BY <1>7, <2>3, Zenon DEF Runs
  <2>5. OneSubset(Told(f[1..(m - 1)]), subsets[m]) = Told(f[1..m])
    BY <2>4, Zenon DEF TellsSubset
  <2>6. QED
    BY <2>2, <2>3, <2>5, Zenon
<1> HIDE DEF T
<1>10. \A m \in 0..n : m \in T
  BY <1>8, <1>9, UpTo, Zenon
<1>11. n \in T
  BY <1>10
<1>12. Joins(f, n, P, done, pieces)
  BY <1>2, Flat, Zenon
<1>13. QED
  BY <1>1, <1>11, <1>12, Zenon DEF T, Joins

\* Pieces of one element each are joined to the sequence of the elements.
Ones(q, n) == [j \in 1..n |-> <<q[j]>>]

LEMMA Singles ==
  ASSUME NEW P, NEW n \in Nat, NEW q \in [1..n -> P]
  PROVE  Ones(q, n) \in [1..n -> Seq(P)] /\ FlattenSeq(Ones(q, n)) = q
<1>0. PICK pieces : pieces = Ones(q, n)
  BY Zenon
<1>1. pieces \in [1..n -> Seq(P)]
  BY <1>0 DEF Ones
<1>2. q \in Seq(P) /\ Len(q) = n
  OBVIOUS
<1>3. <<>> \in Seq(P)
  BY EmptySeq
<1>4. PICK f : Piecewise(f, n, P, <<>>, pieces)
  BY <1>1, <1>3, PiecesExist, Zenon
<1>5. Runs(f, n, P, <<>>, pieces)
  BY <1>1, <1>3, <1>4, PiecesRun, Zenon
<1>6. FlattenSeq(pieces) \in Seq(P) /\ f[1..n] = <<>> \o FlattenSeq(pieces)
  <2>1. PICK none \in Seq(P) : none = <<>>
    BY <1>3, Zenon
  <2>2. Piecewise(f, n, P, none, pieces)
    BY <1>4, <2>1, Zenon
  <2>3. Joins(f, n, P, none, pieces)
    BY <2>2, Flat, Zenon
  <2>4. QED
    BY <2>1, <2>3, Zenon DEF Joins
<1> DEFINE T == {m \in 0..n : f[1..m] = SubSeq(q, 1, m)}
<1>7. 0 \in T
  <2>1. f[1..0] = <<>>
    BY <1>5, Zenon DEF Runs
  <2>2. SubSeq(q, 1, 0) = <<>>
    BY SubSeqEmpty
  <2>3. 0 \in 0..n
    OBVIOUS
  <2>4. QED
    BY <2>1, <2>2, <2>3, Zenon
<1>8. ASSUME NEW m \in 1..n, m - 1 \in T
      PROVE  m \in T
  <2>1. f[1..m] = f[1..(m - 1)] \o pieces[m]
    BY <1>5, Zenon DEF Runs
  <2>2. pieces[m] = <<q[m]>>
    BY <1>0 DEF Ones
  <2>3. m \in 1..Len(q) /\ 1 \in 1..Len(q) /\ m \in 1..Len(q)
    BY <1>2
  <2>4. SubSeq(q, 1, m) = SubSeq(q, 1, m - 1) \o <<q[m]>>
    BY <1>2, <2>3, SubSeqRecursiveSecond
  <2>5. f[1..(m - 1)] = SubSeq(q, 1, m - 1) /\ m \in 0..n
    BY <1>8
  <2>6. QED
    BY <2>1, <2>2, <2>4, <2>5, Zenon
<1> HIDE DEF T
<1>9. \A m \in 0..n : m \in T
  BY <1>7, <1>8, UpTo, Zenon
<1>10. n \in T
  BY <1>9
<1>11. f[1..n] = SubSeq(q, 1, n)
  BY <1>10 DEF T
<1>12. SubSeq(q, 1, n) = q
  BY <1>2, SubSeqFull
<1>13. <<>> \o FlattenSeq(pieces) = FlattenSeq(pieces)
  BY <1>6, ConcatEmptySeq
<1>14. QED
  BY <1>0, <1>1, <1>6, <1>11, <1>12, <1>13, Zenon

(***************************************************************************)
(* So each loop tells the pairs that it goes through, for lists of any     *)
(* length: the addresses of a port, the ports of a subset, the subsets.    *)
(***************************************************************************)
PairSet == IPs \X Ports

PairsOf(addresses, port) == [j \in DOMAIN addresses |-> <<addresses[j], port>>]

Tellable(subset) == subset.addresses \in Seq(IPs) /\ subset.ports \in Seq(Ports)

LEMMA PortTold ==
  ASSUME NEW addresses \in Seq(IPs), NEW port \in Ports, NEW done \in Seq(PairSet)
  PROVE  /\ PairsOf(addresses, port) \in Seq(PairSet)
         /\ OnePort(addresses, Told(done), port) = Told(done \o PairsOf(addresses, port))
<1>1. PICK n \in Nat : DOMAIN addresses = 1..n /\ \A j \in 1..n : addresses[j] \in IPs
  BY LenProperties
<1>2. PICK q : q = PairsOf(addresses, port)
  BY Zenon
<1>3. ASSUME NEW j \in 1..n
      PROVE  q[j] = <<addresses[j], port>> /\ q[j] \in PairSet
  BY <1>1, <1>2 DEF PairsOf, PairSet
<1>4. q = [j \in 1..n |-> q[j]]
  BY <1>1, <1>2 DEF PairsOf
<1>5. q \in [1..n -> PairSet]
  BY <1>3, <1>4
<1>6. PICK pieces : pieces = Ones(q, n)
  BY Zenon
<1>7. pieces \in [1..n -> Seq(PairSet)] /\ FlattenSeq(pieces) = q
  BY <1>5, <1>6, Singles
<1>8. TellsAddress(addresses, port, n, PairSet, pieces)
  <2>1. ASSUME NEW j \in 1..n, NEW d \in Seq(PairSet)
        PROVE  OneAddress(Told(d), addresses[j], port) = Told(d \o pieces[j])
    <3>1. <<addresses[j], port>> \in PairSet
      BY <1>3, Zenon
    <3>2. OneAddress(Told(d), addresses[j], port) = Told(Append(d, <<addresses[j], port>>))
      <4>1. PICK a : a = addresses[j]
        BY Zenon
      <4>2. <<a, port>> \in PairSet
        BY <3>1, <4>1, Zenon
      <4>3. OneAddress(Told(d), a, port) = Told(Append(d, <<a, port>>))
        BY <4>2, ToldNext
      <4>4. QED
        BY <4>1, <4>3, Zenon
    <3>3. Append(d, <<addresses[j], port>>) = d \o << <<addresses[j], port>> >>
      BY <3>1, AppendIsConcat, Zenon
    <3>4. pieces[j] = << <<addresses[j], port>> >>
      BY <1>3, <1>6, Zenon DEF Ones
    <3>5. QED
      BY <3>2, <3>3, <3>4, Zenon
  <2>2. QED
    BY <2>1, Zenon DEF TellsAddress
<1>9. OnePort(addresses, Told(done), port) = Told(done \o FlattenSeq(pieces))
  BY <1>1, <1>7, <1>8, PortLoop
<1>10. q \in Seq(PairSet)
  BY <1>5
<1>11. QED
  BY <1>2, <1>7, <1>9, <1>10, Zenon

LEMMA SubsetTold ==
  ASSUME NEW subset, Tellable(subset), NEW done \in Seq(PairSet)
  PROVE  /\ Pairs(subset) \in Seq(PairSet)
         /\ OneSubset(Told(done), subset) = Told(done \o Pairs(subset))
<1>1. PICK n \in Nat : DOMAIN subset.ports = 1..n /\ \A i \in 1..n : subset.ports[i] \in Ports
  BY LenProperties DEF Tellable
<1>2. PICK pieces : pieces = [i \in 1..n |-> PairsOf(subset.addresses, subset.ports[i])]
  BY Zenon
<1>3. Pairs(subset) = FlattenSeq(pieces)
  BY <1>1, <1>2, Zenon DEF Pairs, PairsOf
<1>4. ASSUME NEW i \in 1..n, NEW d \in Seq(PairSet)
      PROVE  /\ pieces[i] \in Seq(PairSet)
             /\ OnePort(subset.addresses, Told(d), subset.ports[i]) = Told(d \o pieces[i])
  <2>1. pieces[i] = PairsOf(subset.addresses, subset.ports[i])
    BY <1>2
  <2>2. QED
    BY <1>1, <2>1, PortTold, Zenon DEF Tellable
<1>5. pieces \in [1..n -> Seq(PairSet)]
  BY <1>2, <1>4
<1>6. TellsPort(subset, n, PairSet, pieces)
  BY <1>4, Zenon DEF TellsPort
<1>7. OneSubset(Told(done), subset) = Told(done \o FlattenSeq(pieces))
  BY <1>1, <1>5, <1>6, SubsetLoop, Zenon
<1>8. FlattenSeq(pieces) \in Seq(PairSet)
  BY <1>5, Flattened, Zenon
<1>9. QED
  BY <1>3, <1>7, <1>8, Zenon

LEMMA AllTold ==
  ASSUME NEW subsets, NEW n \in Nat, DOMAIN subsets = 1..n, \A i \in 1..n : Tellable(subsets[i])
  PROVE  /\ AllPairs(subsets) \in Seq(PairSet)
         /\ FoldLeft(OneSubset, Told(<<>>), subsets) = Told(AllPairs(subsets))
<1>1. PICK pieces : pieces = [i \in 1..n |-> Pairs(subsets[i])]
  BY Zenon
<1>2. AllPairs(subsets) = FlattenSeq(pieces)
  BY <1>1, Zenon DEF AllPairs
<1>3. ASSUME NEW i \in 1..n, NEW d \in Seq(PairSet)
      PROVE  /\ pieces[i] \in Seq(PairSet)
             /\ OneSubset(Told(d), subsets[i]) = Told(d \o pieces[i])
  <2>1. pieces[i] = Pairs(subsets[i]) /\ Tellable(subsets[i])
    BY <1>1
  <2>2. QED
    BY <2>1, SubsetTold, Zenon
<1>4. <<>> \in Seq(PairSet)
  BY EmptySeq
<1>5. pieces \in [1..n -> Seq(PairSet)]
  BY <1>1, <1>3, <1>4, Zenon
<1>6. TellsSubset(subsets, n, PairSet, pieces)
  BY <1>3, Zenon DEF TellsSubset
<1>7. FoldLeft(OneSubset, Told(<<>>), subsets) = Told(<<>> \o FlattenSeq(pieces))
  BY <1>4, <1>5, <1>6, AllLoop, Zenon
<1>8. FlattenSeq(pieces) \in Seq(PairSet)
  BY <1>5, Flattened, Zenon
<1>9. <<>> \o FlattenSeq(pieces) = FlattenSeq(pieces)
  BY <1>8, ConcatEmptySeq
<1>10. QED
  BY <1>2, <1>7, <1>8, <1>9, Zenon

(***************************************************************************)
(* The text of endpoints: the first pairs up to three, and the number of   *)
(* the others.                                                             *)
(***************************************************************************)
LEMMA TextOfEndpoints ==
  ASSUME NEW endpoints, NEW n \in Nat, DOMAIN endpoints.subsets = 1..n,
         \A i \in 1..n : Tellable(endpoints.subsets[i])
  PROVE  LET all == AllPairs(endpoints.subsets)
             text == FormatEndpoints(endpoints)
         IN  /\ text.list \o SubSeq(all, max + 1, Len(all)) = all
             /\ text.more = Len(all) - Len(text.list)
<1>1. PICK all \in Seq(PairSet) : all = AllPairs(endpoints.subsets)
  BY AllTold
<1>2. Told(<<>>) = [list |-> <<>>, more |-> FALSE, count |-> 0]
  <2>1. <<>> \in Seq(PairSet) /\ Len(<<>>) = 0
    BY EmptySeq
  <2>2. PICK none \in Seq(PairSet) : none = <<>> /\ Len(none) = 0
    BY <2>1, Zenon
  <2>3. Told(none) = [list |-> none, more |-> FALSE, count |-> Len(none)]
    BY <2>2, ToldShort, 0 <= 3, Zenon
  <2>4. QED
    BY <2>2, <2>3, Zenon
<1>3. FoldLeft(OneSubset, [list |-> <<>>, more |-> FALSE, count |-> 0], endpoints.subsets) = Told(all)
  BY <1>1, <1>2, AllTold, Zenon
<1>4. FormatEndpoints(endpoints)
        = [list |-> Told(all).list, more |-> IF Told(all).more THEN Told(all).count - max ELSE 0]
  BY <1>3, Zenon DEF FormatEndpoints
<1>5. PICK text : text = FormatEndpoints(endpoints)
  BY Zenon
<1>6. PICK k \in Nat : k = Len(all)
  BY LenProperties
<1>7. CASE k <= 3
  <2>1. Told(all) = [list |-> all, more |-> FALSE, count |-> k]
    BY <1>6, <1>7, ToldShort
  <2>2. text.list = all /\ text.more = 0
    BY <1>4, <1>5, <2>1
  <2>3. SubSeq(all, max + 1, k) = <<>>
    BY <1>6, <1>7, SubSeqEmpty DEF max
  <2>4. all \o <<>> = all
    BY ConcatEmptySeq
  <2>5. k - k = 0
    OBVIOUS
  <2>6. QED
    BY <1>1, <1>5, <1>6, <2>2, <2>3, <2>4, <2>5, Zenon
<1>8. CASE k > 3
  <2>1. Told(all) = [list |-> SubSeq(all, 1, 3), more |-> k > 3, count |-> k]
    BY <1>6, <1>8, ToldLong
  <2>2. text.list = SubSeq(all, 1, 3) /\ text.more = k - 3
    <3>1. PICK first : first = SubSeq(all, 1, 3)
      BY Zenon
    <3>2. Told(all) = [list |-> first, more |-> k > 3, count |-> k]
      BY <2>1, <3>1, Zenon
    <3>3. Told(all).list = first /\ Told(all).more /\ Told(all).count = k
      <4>1. (k > 3) = TRUE
        BY <1>8
      <4>2. Told(all) = [list |-> first, more |-> TRUE, count |-> k]
        BY <3>2, <4>1, Zenon
      <4>3. QED
        BY <4>2
    <3>4. text = [list |-> first, more |-> k - 3]
      BY <1>4, <1>5, <3>3, Zenon DEF max
    <3>5. QED
      BY <3>1, <3>4
  <2>3. SubSeq(all, 1, 3) \o SubSeq(all, 3 + 1, k) = SubSeq(all, 1, k) /\ Len(SubSeq(all, 1, 3)) = 3
    <3>1. 1 \in 1..(Len(all) + 1) /\ 3 \in (1 - 1)..Len(all) /\ k \in 3..Len(all)
      BY <1>6, <1>8
    <3>2. \A i \in 1..3 : all[i] \in PairSet
      BY <1>6, <1>8, ElementOfSeq
    <3>3. Len(SubSeq(all, 1, 3)) = 3
      BY <3>2, SubSeqProperties
    <3>4. QED
      BY <3>1, <3>3, ConcatAdjacentSubSeq
  <2>4. SubSeq(all, 1, k) = all
    BY <1>6, SubSeqFull
  <2>5. QED
    BY <1>1, <1>5, <1>6, <2>2, <2>3, <2>4, Zenon DEF max
<1>9. k <= 3 \/ k > 3
  OBVIOUS
<1>10. QED
  BY <1>7, <1>8, <1>9, Zenon
-----------------------------------------------------------------------------
(***************************************************************************)
(* Without is such a loop too: its pieces are the parts that are kept.     *)
(***************************************************************************)
Keep(kept, part, X) == IF part \in X THEN kept ELSE Append(kept, part)

Keeps(s, X, n, P, pieces) ==
  /\ pieces \in [1..n -> Seq(P)] /\ DOMAIN s = 1..n
  /\ \A j \in 1..n : \A d \in Seq(P) : Keep(d, s[j], X) = d \o pieces[j]

LEMMA WithoutLoop ==
  ASSUME NEW P, NEW n \in Nat, NEW pieces, NEW s, NEW X, Keeps(s, X, n, P, pieces)
  PROVE  Without(s, X) = FlattenSeq(pieces)
<1>0. <<>> \in Seq(P) /\ pieces \in [1..n -> Seq(P)] /\ DOMAIN s = 1..n
  BY EmptySeq DEF Keeps
<1> DEFINE Step(g) == [u \in SUBSET (1..n) |->
                         IF u = {} THEN <<>> ELSE Keep(g[u \ {Max(u)}], s[Max(u)], X)]
           iter == CHOOSE g : g = Step(g)
<1>1. Without(s, X) = iter[1..n]
  BY <1>0 DEF Without, Keep, FoldLeft, MapThenFoldSet
<1>2. PICK f : Piecewise(f, n, P, <<>>, pieces)
  BY <1>0, PiecesExist, Zenon
<1>3. f = [u \in SUBSET (1..n) |-> f[u]]
  BY <1>2 DEF Piecewise
<1>4. f = Step(f)
  <2>1. ASSUME NEW u \in SUBSET (1..n), u # {}
        PROVE  f[u] = Keep(f[u \ {Max(u)}], s[Max(u)], X)
    <3>1. PICK j \in 1..n : j = Max(u)
      BY <2>1, MaxOf, Zenon
    <3>2. PICK rest \in SUBSET (1..n) : rest = u \ {j}
      BY Zenon
    <3>3. f[rest] \in Seq(P) /\ f[u] = f[rest] \o pieces[j]
      BY <1>2, <2>1, <3>1, <3>2, Zenon DEF Piecewise
    <3>4. Keep(f[rest], s[j], X) = f[rest] \o pieces[j]
      BY <3>3, Zenon DEF Keeps
    <3>5. QED
      BY <3>1, <3>2, <3>3, <3>4, Zenon
  <2>2. f[{}] = <<>>
    BY <1>2, Zenon DEF Piecewise
  <2>3. QED
    BY <1>3, <2>1, <2>2, Zenon
<1>5. iter = Step(iter)
  <2> HIDE DEF Step
  <2> QED
    BY <1>4
<1>6. ASSUME NEW u \in SUBSET (1..n)
      PROVE  iter[u] = IF u = {} THEN <<>> ELSE Keep(iter[u \ {Max(u)}], s[Max(u)], X)
  <2> HIDE DEF iter
  <2> QED
    BY <1>5, Zenon
<1>7. Runs(f, n, P, <<>>, pieces)
  BY <1>0, <1>2, PiecesRun, Zenon
<1> HIDE DEF iter, Step
<1> DEFINE T == {m \in 0..n : iter[1..m] = f[1..m]}
<1>8. 0 \in T
  <2>1. f[1..0] = <<>> /\ 1..0 = {}
    BY <1>7, Zenon DEF Runs
  <2>2. iter[{}] = <<>>
    BY <1>6, Zenon
  <2>3. QED
    BY <2>1, <2>2
<1>9. ASSUME NEW m \in 1..n, m - 1 \in T
      PROVE  m \in T
  <2>1. Max(1..m) = m /\ (1..m) \ {m} = 1..(m - 1) /\ 1..m # {} /\ 1..m \in SUBSET (1..n)
    BY MaxOfFirst
  <2>2. iter[1..m] = Keep(iter[1..(m - 1)], s[m], X)
    BY <1>6, <2>1, Zenon
  <2>3. iter[1..(m - 1)] = f[1..(m - 1)] /\ m - 1 \in 0..n /\ m \in 0..n
    BY <1>9
  <2>4. f[1..(m - 1)] \in Seq(P) /\ f[1..m] = f[1..(m - 1)] \o pieces[m]
    BY <1>7, <2>3, Zenon DEF Runs
  <2>5. Keep(f[1..(m - 1)], s[m], X) = f[1..m]
    BY <2>4, Zenon DEF Keeps
  <2>6. QED
    BY <2>2, <2>3, <2>5, Zenon
<1> HIDE DEF T
<1>10. \A m \in 0..n : m \in T
  BY <1>8, <1>9, UpTo, Zenon
<1>11. n \in T
  BY <1>10
<1>12. f[1..n] = FlattenSeq(pieces)
  <2>1. PICK none \in Seq(P) : none = <<>>
    BY <1>0, Zenon
  <2>2. Piecewise(f, n, P, none, pieces)
    BY <1>2, <2>1, Zenon
  <2>x. Joins(f, n, P, none, pieces)
    BY <2>2, Flat, Zenon
  <2>3. FlattenSeq(pieces) \in Seq(P) /\ f[1..n] = none \o FlattenSeq(pieces)
    BY <2>x, Zenon DEF Joins
  <2>4. <<>> \o FlattenSeq(pieces) = FlattenSeq(pieces)
    BY <2>3, ConcatEmptySeq
  <2>5. QED
    BY <2>1, <2>3, <2>4, Zenon
<1>13. QED
  BY <1>1, <1>11, <1>12, Zenon DEF T

\* The pieces of a sequence that Without keeps.
Kept(s, X, n) == [j \in 1..n |-> IF s[j] \in X THEN <<>> ELSE <<s[j]>>]

LEMMA WithoutOf ==
  ASSUME NEW S, NEW n \in Nat, NEW s \in [1..n -> S], NEW X
  PROVE  /\ Kept(s, X, n) \in [1..n -> Seq(S \ X)]
         /\ Without(s, X) = FlattenSeq(Kept(s, X, n)) /\ Without(s, X) \in Seq(S \ X)
<1>1. PICK pieces : pieces = Kept(s, X, n)
  BY Zenon
<1>2. ASSUME NEW j \in 1..n
      PROVE  pieces[j] \in Seq(S \ X) /\ pieces[j] \in Seq(S)
  <2>1. CASE s[j] \in X
    <3>1. pieces[j] = <<>>
      BY <1>1, <2>1 DEF Kept
    <3>2. QED
      BY <3>1, EmptySeq
  <2>2. CASE s[j] \notin X
    <3>1. pieces[j] = <<s[j]>>
      BY <1>1, <2>2 DEF Kept
    <3>2. PICK e : e = s[j] /\ e \in S \ X /\ e \in S
      BY <2>2
    <3>3. <<e>> \in Seq(S \ X) /\ <<e>> \in Seq(S)
      BY <3>2
    <3>4. QED
      BY <3>1, <3>2, <3>3, Zenon
  <2>3. QED
    BY <2>1, <2>2
<1>3. pieces \in [1..n -> Seq(S \ X)] /\ pieces \in [1..n -> Seq(S)]
  BY <1>1, <1>2 DEF Kept
<1>4. Keeps(s, X, n, S, pieces)
  <2>1. ASSUME NEW j \in 1..n, NEW d \in Seq(S)
        PROVE  Keep(d, s[j], X) = d \o pieces[j]
    <3>1. CASE s[j] \in X
      <4>1. pieces[j] = <<>>
        BY <1>1, <3>1 DEF Kept
      <4>2. d \o <<>> = d
        BY ConcatEmptySeq
      <4>3. QED
        BY <3>1, <4>1, <4>2, Zenon DEF Keep
    <3>2. CASE s[j] \notin X
      <4>1. pieces[j] = <<s[j]>>
        BY <1>1, <3>2 DEF Kept
      <4>2. Append(d, s[j]) = d \o <<s[j]>>
        BY AppendIsConcat
      <4>3. QED
        BY <3>2, <4>1, <4>2, Zenon DEF Keep
    <3>3. QED
      BY <3>1, <3>2
  <2>2. DOMAIN s = 1..n
    OBVIOUS
  <2>3. QED
    BY <1>3, <2>1, <2>2, Zenon DEF Keeps
<1>5. Without(s, X) = FlattenSeq(pieces)
  BY <1>4, WithoutLoop
<1>6. FlattenSeq(pieces) \in Seq(S \ X)
  BY <1>3, Flattened, Zenon
<1>7. QED
  BY <1>1, <1>3, <1>5, <1>6, Zenon

\* Nothing is left out of a sequence that has none of the parts.
LEMMA WithoutNone ==
  ASSUME NEW S, NEW n \in Nat, NEW s \in [1..n -> S], NEW X, S \intersect X = {}
  PROVE  Without(s, X) = s
<1>1. \A j \in 1..n : s[j] \notin X
  OBVIOUS
<1>2. Kept(s, X, n) = Ones(s, n)
  BY <1>1, Zenon DEF Kept, Ones
<1>3. Without(s, X) = FlattenSeq(Kept(s, X, n))
  BY WithoutOf, Zenon
<1>4. FlattenSeq(Ones(s, n)) = s
  BY Singles, Zenon
<1>5. QED
  BY <1>2, <1>3, <1>4, Zenon

\* Only the first part is left out of a sequence that has no other of them.
LEMMA WithoutFirst ==
  ASSUME NEW S, NEW c \in Seq(S), NEW X, S \intersect X = {}, NEW b \in X
  PROVE  Without(<<b>> \o c, X) = c
<1>1. PICK k \in Nat : k = Len(c)
  BY LenProperties
<1>2. PICK n \in Nat : n = k + 1
  OBVIOUS
<1>3. PICK s : s = <<b>> \o c
  BY Zenon
<1>4. s \in [1..n -> S \union {b}] /\ s[1] = b /\ \A j \in 1..k : s[j + 1] = c[j]
  <2>1. <<b>> \in Seq(S \union {b}) /\ Len(<<b>>) = 1 /\ <<b>>[1] = b
    OBVIOUS
  <2>2. c \in Seq(S \union {b})
    BY SeqMonotonic
  <2>3. /\ s \in Seq(S \union {b}) /\ Len(s) = 1 + k
        /\ \A i \in 1..(1 + k) : s[i] = IF i <= 1 THEN <<b>>[i] ELSE c[i - 1]
    <3>1. PICK one \in Seq(S \union {b}) : one = <<b>> /\ Len(one) = 1
      BY <2>1, Zenon
    <3>2. /\ one \o c \in Seq(S \union {b}) /\ Len(one \o c) = Len(one) + Len(c)
          /\ \A i \in 1..(Len(one) + Len(c)) : (one \o c)[i] = IF i <= Len(one) THEN one[i] ELSE c[i - Len(one)]
      BY <2>2, ConcatProperties, Zenon
    <3>3. QED
      BY <1>1, <1>3, <3>1, <3>2, Zenon
  <2>4. s \in [1..n -> S \union {b}]
    BY <1>2, <2>3, LenProperties
  <2>5. 1 \in 1..(1 + k) /\ 1 <= 1
    OBVIOUS
  <2>6. s[1] = b
    BY <2>1, <2>3, <2>5, Zenon
  <2>7. ASSUME NEW j \in 1..k
        PROVE  s[j + 1] = c[j]
    <3>1. PICK i \in 1..(1 + k) : i = j + 1 /\ ~(i <= 1) /\ i - 1 = j
      OBVIOUS
    <3>2. s[i] = c[i - 1]
      BY <2>3, <3>1, Zenon
    <3>3. QED
      BY <3>1, <3>2, Zenon
  <2>8. QED
    BY <2>4, <2>6, <2>7
<1>5. PICK pieces : pieces = Kept(s, X, n)
  BY Zenon
<1>6. /\ pieces \in [1..n -> Seq((S \union {b}) \ X)]
      /\ Without(s, X) = FlattenSeq(pieces)
  BY <1>4, <1>5, WithoutOf, Zenon
<1>7. PICK P : P = (S \union {b}) \ X
  BY Zenon
<1>8. pieces[1] = <<>> /\ \A j \in 1..k : pieces[j + 1] = <<c[j]>>
  <2>1. 1 \in 1..n /\ \A j \in 1..k : j + 1 \in 1..n
    BY <1>2
  <2>2. pieces[1] = <<>>
    BY <1>4, <1>5, <2>1, Zenon DEF Kept
  <2>3. ASSUME NEW j \in 1..k
        PROVE  pieces[j + 1] = <<c[j]>>
    <3>1. c[j] \in S /\ c[j] \notin X
      BY <1>1, ElementOfSeq
    <3>2. QED
      BY <1>4, <1>5, <2>1, <3>1, Zenon DEF Kept
  <2>4. QED
    BY <2>2, <2>3, Zenon
<1>t. pieces \in [1..n -> Seq(P)]
  BY <1>6, <1>7, Zenon
<1>9. PICK none \in Seq(P) : none = <<>>
  BY EmptySeq, Zenon
<1>10. PICK f : Piecewise(f, n, P, none, pieces)
  BY <1>t, PiecesExist
<1>11. Runs(f, n, P, none, pieces)
  BY <1>t, <1>10, PiecesRun, Zenon
<1>12. FlattenSeq(pieces) \in Seq(P) /\ f[1..n] = none \o FlattenSeq(pieces)
  <2>1. Joins(f, n, P, none, pieces)
    BY <1>10, Flat, Zenon
  <2>2. QED
    BY <2>1, Zenon DEF Joins
<1> DEFINE T == {m \in 0..k : f[1..(m + 1)] = SubSeq(c, 1, m)}
<1>13. 0 \in T
  <2>1. 1 \in 1..n /\ 1 - 1 = 0 /\ 0 + 1 = 1 /\ 0 \in 0..k
    BY <1>2
  <2>2. f[1..1] = none \o none
    BY <1>8, <1>9, <1>11, <2>1, Zenon DEF Runs
  <2>3. none \o none = none
    BY <1>9, ConcatEmptySeq
  <2>4. SubSeq(c, 1, 0) = <<>>
    BY SubSeqEmpty
  <2>5. QED
    BY <1>9, <2>1, <2>2, <2>3, <2>4, Zenon
<1>14. ASSUME NEW m \in 1..k, m - 1 \in T
       PROVE  m \in T
  <2>1. m + 1 \in 1..n /\ m - 1 + 1 = m /\ m + 1 - 1 = m /\ m \in 0..k
    BY <1>2
  <2>2. f[1..(m + 1)] = f[1..m] \o <<c[m]>>
    <3>1. PICK i \in 1..n : i = m + 1 /\ i - 1 = m
      BY <2>1
    <3>2. f[1..i] = f[1..(i - 1)] \o pieces[i]
      BY <1>11, Zenon DEF Runs
    <3>3. pieces[i] = <<c[m]>>
      BY <1>8, <3>1, Zenon
    <3>4. QED
      BY <3>1, <3>2, <3>3, Zenon
  <2>3. f[1..m] = SubSeq(c, 1, m - 1)
    BY <1>14, <2>1, Zenon
  <2>4. SubSeq(c, 1, m) = SubSeq(c, 1, m - 1) \o <<c[m]>>
    <3>1. m \in 1..Len(c) /\ 1 \in 1..Len(c)
      BY <1>1
    <3>2. QED
      BY <3>1, SubSeqRecursiveSecond
  <2>5. QED
    BY <2>1, <2>2, <2>3, <2>4, Zenon
<1> HIDE DEF T
<1>15. \A m \in 0..k : m \in T
  BY <1>13, <1>14, UpTo, Zenon
<1>16. k \in T
  BY <1>15
<1>17. f[1..n] = c
  <2>1. SubSeq(c, 1, k) = c
    BY <1>1, SubSeqFull
  <2>2. QED
    BY <1>2, <1>16, <2>1, Zenon DEF T
<1>18. <<>> \o FlattenSeq(pieces) = FlattenSeq(pieces)
  BY <1>12, ConcatEmptySeq
<1>19. QED
  BY <1>3, <1>6, <1>9, <1>12, <1>17, <1>18, Zenon
-----------------------------------------------------------------------------
(***************************************************************************)
(* The addresses of a service. The text is its addresses, a blank part in  *)
(* front of addresses, or a word, and each of these tells what it is.      *)
(***************************************************************************)
LEMMA OfUpTo ==
  ASSUME NEW S, NEW k \in Nat, NEW s \in SeqUpTo(S, k)
  PROVE  s \in Seq(S) /\ \E n \in Nat : s \in [1..n -> S]
<1>1. PICK m \in 0..k : s \in [1..m -> S]
  BY Zenon DEF SeqUpTo
<1>2. QED
  BY <1>1

LEMMA Words ==
  /\ Blank \notin IPs /\ "nodes" \notin IPs
  /\ Blank # "nodes" /\ Blank # "unknown"
BY ItemsAssumption

LEMMA AddressesOnly ==
  ASSUME NEW c \in Seq(IPs), c # <<>>
  PROVE  Without(c, {Blank, "nodes"}) = c /\ Blank \notin Range(c) /\ c # <<"nodes">>
<1>1. PICK n \in Nat : n = Len(c) /\ c \in [1..n -> IPs] /\ DOMAIN c = 1..n
  BY LenProperties
<1>2. IPs \intersect {Blank, "nodes"} = {}
  BY Words
<1>3. Without(c, {Blank, "nodes"}) = c
  BY <1>1, <1>2, WithoutNone, Zenon
<1>4. Blank \notin Range(c)
  <2>1. \A j \in 1..n : c[j] # Blank
    BY <1>1, Words
  <2>2. QED
    BY <1>1, <2>1, Zenon DEF Range
<1>5. c # <<"nodes">>
  <2>1. SUFFICES ASSUME c = <<"nodes">> PROVE FALSE
    OBVIOUS
  <2>2. Len(c) = 1 /\ c[1] = "nodes"
    BY <2>1
  <2>3. c[1] \in IPs
    BY <1>1, <2>2
  <2>4. QED
    BY <2>2, <2>3, Words
<1>6. QED
  BY <1>3, <1>4, <1>5

LEMMA BlankInFront ==
  ASSUME NEW c \in Seq(IPs), NEW ips, ips = <<Blank>> \o c
  PROVE  /\ Without(ips, {Blank, "nodes"}) = c
         /\ ips[1] = Blank /\ Blank \notin Range(Tail(ips)) /\ ips # <<"nodes">>
<1>1. Without(ips, {Blank, "nodes"}) = c
  <2>1. IPs \intersect {Blank, "nodes"} = {}
    BY Words
  <2>2. Blank \in {Blank, "nodes"}
    BY Zenon
  <2>3. QED
    BY <2>1, <2>2, WithoutFirst
<1>2. ips[1] = Blank /\ Tail(ips) = c
  OBVIOUS
<1>3. PICK n \in Nat : DOMAIN c = 1..n /\ \A j \in 1..n : c[j] \in IPs
  BY LenProperties
<1>4. Blank \notin Range(c)
  BY <1>3, Words, Zenon DEF Range
<1>5. ips # <<"nodes">>
  <2>1. <<"nodes">>[1] = "nodes"
    OBVIOUS
  <2>2. QED
    BY <1>2, <2>1, Words, Zenon
<1>6. QED
  BY <1>1, <1>2, <1>4, <1>5, Zenon

LEMMA WordOnly ==
  ASSUME NEW word \in {"nodes", "unknown"}
  PROVE  /\ word = "nodes" => Without(<<word>>, {Blank, "nodes"}) = <<>>
         /\ Blank \notin Range(<<word>>)
         /\ <<word>> = <<"nodes">> <=> word = "nodes"
<1>1. ASSUME word = "nodes"
      PROVE  Without(<<word>>, {Blank, "nodes"}) = <<>>
  <2>1. <<>> \in Seq({}) /\ {} \intersect {Blank, "nodes"} = {} /\ word \in {Blank, "nodes"}
    BY <1>1, EmptySeq
  <2>2. PICK none \in Seq({}) : none = <<>>
    BY <2>1, Zenon
  <2>3. Without(<<word>> \o none, {Blank, "nodes"}) = none
    BY <2>1, WithoutFirst
  <2>4. <<word>> \o <<>> = <<word>>
    OBVIOUS
  <2>5. QED
    BY <2>2, <2>3, <2>4, Zenon
<1>2. Blank \notin Range(<<word>>)
  <2>1. DOMAIN <<word>> = {1} /\ <<word>>[1] = word
    OBVIOUS
  <2>2. word # Blank
    BY Words
  <2>3. QED
    BY <2>1, <2>2, Zenon DEF Range
<1>3. <<word>> = <<"nodes">> <=> word = "nodes"
  OBVIOUS
<1>4. QED
  BY <1>1, <1>2, <1>3

\* The part of ServiceShown that is about the addresses ips of svc.
AddressesShown(svc, ips) ==
  LET balancer == svc.type = "LoadBalancer"
      lb == IF balancer THEN Without(svc.ingress, {Blank}) ELSE <<>>
  IN  /\ svc.type # "" => Without(ips, {Blank, "nodes"}) = lb \o svc.external
      /\ ips = <<"nodes">> <=> svc.type = "NodePort" /\ svc.external = <<>>
      /\ Blank \in Range(ips) =>
           /\ lb = <<>>
           /\ ips[1] = Blank /\ Blank \notin Range(Tail(ips))
           /\ svc.external # <<>> => balancer

LEMMA NotEmpty ==
  ASSUME NEW S, NEW s \in Seq(S), NEW c \in Seq(S), s # <<>>
  PROVE  s \o c # <<>> /\ s \o c \in Seq(S)
BY ConcatProperties, ConcatEqualIffEmpty

\* A blank part in front, as a sequence.
LEMMA BlankFirst ==
  ASSUME NEW c \in Seq(IPs)
  PROVE  <<Blank>> \o <<>> = <<Blank>> /\ <<Blank>> \o c # <<>>
<1>1. Len(<<Blank>>) = 1 /\ <<Blank>> \in Seq(IPs \union {Blank}) /\ <<Blank>> # <<>>
  OBVIOUS
<1>2. PICK one \in Seq(IPs \union {Blank}) : one = <<Blank>> /\ one # <<>>
  BY <1>1, Zenon
<1>3. c \in Seq(IPs \union {Blank})
  BY SeqMonotonic
<1>4. one \o <<>> = one /\ one \o c # <<>>
  BY <1>2, <1>3, ConcatEmptySeq, ConcatEqualIffEmpty
<1>5. QED
  BY <1>2, <1>4, Zenon

LEMMA AddressesOf ==
  ASSUME NEW svc \in Service
  PROVE  AddressesShown(svc, GetServiceExternalIP(svc))
<1>1. PICK type \in {"ClusterIP", "NodePort", "LoadBalancer", ""} : type = svc.type
  BY Zenon DEF Service
<1>2. PICK external \in Seq(IPs) : external = svc.external
  <2>1. svc.external \in SeqUpTo(IPs, MaxList) /\ MaxList \in Nat
    BY ItemsAssumption, Zenon DEF Service
  <2>2. QED
    BY <2>1, OfUpTo, Zenon
<1>3. PICK own \in Seq(IPs) : own = Without(svc.ingress, {Blank})
  <2>1. svc.ingress \in SeqUpTo(IPs \union {Blank}, MaxList) /\ MaxList \in Nat
    BY ItemsAssumption, Zenon DEF Service
  <2>2. PICK n \in Nat : svc.ingress \in [1..n -> IPs \union {Blank}]
    BY <2>1, OfUpTo, Zenon
  <2>3. Without(svc.ingress, {Blank}) \in Seq((IPs \union {Blank}) \ {Blank})
    BY <2>2, WithoutOf, Zenon
  <2>4. (IPs \union {Blank}) \ {Blank} = IPs
    BY Words, Zenon
  <2>5. QED
    BY <2>3, <2>4, Zenon
<1>4. PICK ips : ips = GetServiceExternalIP(svc)
  BY Zenon
<1>5. <<>> \o external = external /\ external \o <<>> = external /\ own \o <<>> = own /\ <<>> \in Seq(IPs)
  BY ConcatEmptySeq, EmptySeq, Zenon
<1>6. <<Blank>> \o <<>> = <<Blank>> /\ <<Blank>> \o external # <<>>
  BY BlankFirst, Zenon
<1>7. CASE type \in {"ClusterIP", "NodePort"} /\ external # <<>>
  <2>1. ips = external
    BY <1>1, <1>2, <1>4, <1>7, Zenon DEF GetServiceExternalIP, Join
  <2>2. Without(ips, {Blank, "nodes"}) = external /\ Blank \notin Range(ips) /\ ips # <<"nodes">>
    BY <1>7, <2>1, AddressesOnly, Zenon
  <2>3. type # "LoadBalancer"
    BY <1>7, Zenon
  <2>4. QED
    BY <1>1, <1>2, <1>4, <1>5, <1>7, <2>2, <2>3, Zenon DEF AddressesShown
<1>8. CASE type = "ClusterIP" /\ external = <<>>
  <2>1. ips = <<Blank>> \o <<>>
    <3>1. ips = Join(external)
      BY <1>1, <1>2, <1>4, <1>8 DEF GetServiceExternalIP
    <3>2. QED
      BY <1>6, <1>8, <3>1, Zenon DEF Join
  <2>2. /\ Without(ips, {Blank, "nodes"}) = <<>>
        /\ ips[1] = Blank /\ Blank \notin Range(Tail(ips)) /\ ips # <<"nodes">>
    BY <1>5, <2>1, BlankInFront, Zenon
  <2>3. type # "LoadBalancer" /\ type # "NodePort"
    BY <1>8
  <2>4. QED
    BY <1>1, <1>2, <1>4, <1>5, <1>8, <2>2, <2>3, Zenon DEF AddressesShown
<1>9. CASE type = "NodePort" /\ external = <<>>
  <2>1. ips = <<"nodes">>
    BY <1>1, <1>2, <1>4, <1>9 DEF GetServiceExternalIP
  <2>2. Without(ips, {Blank, "nodes"}) = <<>> /\ Blank \notin Range(ips)
    BY <2>1, WordOnly, Zenon
  <2>3. type # "LoadBalancer"
    BY <1>9
  <2>4. QED
    BY <1>1, <1>2, <1>4, <1>5, <1>9, <2>1, <2>2, <2>3, Zenon DEF AddressesShown
<1>10. CASE type = ""
  <2>1. ips = <<"unknown">>
    BY <1>1, <1>4, <1>10, Zenon DEF GetServiceExternalIP
  <2>2. Blank \notin Range(ips) /\ ips # <<"nodes">>
    BY <2>1, WordOnly, Zenon
  <2>3. type # "NodePort"
    BY <1>10, Zenon
  <2>4. QED
    BY <1>1, <1>4, <1>10, <2>2, <2>3, Zenon DEF AddressesShown
<1>11. CASE type = "LoadBalancer"
  <2>1. ips = IF external # <<>> THEN Join(Join(own) \o external) ELSE Join(own)
    BY <1>1, <1>2, <1>3, <1>4, <1>11 DEF GetServiceExternalIP, loadBalancerStatusStringer
  <2>2. type # "NodePort" /\ type # ""
    BY <1>11
  <2>3. CASE own # <<>>
    <3>1. own \o external # <<>> /\ own \o external \in Seq(IPs)
      BY <2>3, NotEmpty, Zenon
    <3>2. ips = own \o external
      BY <1>5, <2>1, <2>3, <3>1, Zenon DEF Join
    <3>3. Without(ips, {Blank, "nodes"}) = own \o external /\ Blank \notin Range(ips) /\ ips # <<"nodes">>
      BY <3>1, <3>2, AddressesOnly, Zenon
    <3>4. QED
      BY <1>1, <1>2, <1>3, <1>4, <1>11, <2>2, <3>3, Zenon DEF AddressesShown
  <2>4. CASE own = <<>>
    <3>2. ips = <<Blank>> \o external
      BY <1>6, <2>1, <2>4, Zenon DEF Join
    <3>3. /\ Without(ips, {Blank, "nodes"}) = external
          /\ ips[1] = Blank /\ Blank \notin Range(Tail(ips)) /\ ips # <<"nodes">>
      BY <3>2, BlankInFront, Zenon
    <3>4. QED
      BY <1>1, <1>2, <1>3, <1>4, <1>5, <1>11, <2>2, <2>4, <3>3, Zenon DEF AddressesShown
  <2>5. QED
    BY <2>3, <2>4, Zenon
<1>12. QED
  BY <1>1, <1>7, <1>8, <1>9, <1>10, <1>11, Zenon

\* Without "/TCP" other ports still look different.
LEMMA PortsApart ==
  ASSUME NEW ports \in SeqUpTo(Ports \X Protocols, MaxPorts),
         NEW other \in SeqUpTo(Ports \X Protocols, MaxPorts), MakePorts(other) = MakePorts(ports)
  PROVE  other = ports
<1>1. PICK n \in Nat : ports \in [1..n -> Ports \X Protocols]
  BY ItemsAssumption, OfUpTo
<1>2. PICK m \in Nat : other \in [1..m -> Ports \X Protocols]
  BY ItemsAssumption, OfUpTo
<1>3. DOMAIN MakePorts(ports) = 1..n /\ DOMAIN MakePorts(other) = 1..m
  BY <1>1, <1>2 DEF MakePorts
<1>4. 1..m = 1..n
  BY <1>3
<1>5. ASSUME NEW i \in 1..n
      PROVE  other[i] = ports[i]
  <2>1. PICK p \in Ports, q \in Protocols : ports[i] = <<p, q>>
    BY <1>1
  <2>2. PICK op \in Ports, oq \in Protocols : other[i] = <<op, oq>>
    BY <1>2, <1>4
  <2>3. MakePorts(ports)[i] = IF q = "TCP" THEN <<p>> ELSE <<p, q>>
    BY <1>1, <2>1 DEF MakePorts
  <2>4. MakePorts(other)[i] = IF oq = "TCP" THEN <<op>> ELSE <<op, oq>>
    <3>1. other \in [1..n -> Ports \X Protocols]
      BY <1>2, <1>4, Zenon
    <3>2. QED
      BY <2>2, <3>1 DEF MakePorts
  <2>5. (IF q = "TCP" THEN <<p>> ELSE <<p, q>>) = IF oq = "TCP" THEN <<op>> ELSE <<op, oq>>
    BY <2>3, <2>4
  <2>6. <<p>> # <<op, oq>> /\ <<p, q>> # <<op>>
    OBVIOUS
  <2>7. CASE q = "TCP"
    <3>1. oq = "TCP"
      BY <2>5, <2>6, <2>7, Zenon
    <3>2. <<p>> = <<op>>
      BY <2>5, <2>7, <3>1, Zenon
    <3>3. QED
      BY <2>1, <2>2, <2>7, <3>1, <3>2
  <2>8. CASE q # "TCP"
    <3>1. oq # "TCP"
      BY <2>5, <2>6, <2>8, Zenon
    <3>2. QED
      BY <2>1, <2>2, <2>5, <2>8, <3>1, Zenon
  <2>9. QED
    BY <2>7, <2>8, Zenon
<1>6. QED
  BY <1>1, <1>2, <1>4, <1>5
-----------------------------------------------------------------------------
(***************************************************************************)
(* The page. Its rows are what the last load made of the item, which stays *)
(* as it is: that is inductive, and the rest is about the texts alone.     *)
(***************************************************************************)
PageInv ==
  /\ item \in Items
  /\ rows # <<>> =>
       /\ item.kind = "service" =>
            rows[1].ips = GetServiceExternalIP(item) /\ rows[1].ports = MakePorts(item.ports)
       /\ item.kind = "endpoints" =>
            rows[1].list = FormatEndpoints(item).list /\ rows[1].more = FormatEndpoints(item).more

LEMMA PageInvHolds == PageSpec => []PageInv
<1>1. PageInit => PageInv
  BY DEF PageInit, PageInv
<1>2. PageInv /\ [PageNext]_pageVars => PageInv'
  <2> SUFFICES ASSUME PageInv, [PageNext]_pageVars
               PROVE  PageInv'
    OBVIOUS
  <2>1. CASE genServices
    <3>1. item' = item /\ item.kind = "service" /\ item \in Items
      BY <2>1 DEF genServices, PageInv
    <3>2. PICK row : /\ row.ips = GetServiceExternalIP(item) /\ row.ports = MakePorts(item.ports)
                     /\ rows' = IF item.kubernetes THEN <<>> ELSE <<row>>
      BY <2>1 DEF genServices, Rows
    <3>3. rows' # <<>> => rows'[1] = row
      BY <3>2
    <3>4. "service" # "endpoints"
      OBVIOUS
    <3>5. QED
      BY <3>1, <3>2, <3>3, <3>4, Zenon DEF PageInv
  <2>2. CASE genEndpoints
    <3>1. item' = item /\ item.kind = "endpoints" /\ item \in Items
      BY <2>2 DEF genEndpoints, PageInv
    <3>2. PICK row : /\ row.list = FormatEndpoints(item).list /\ row.more = FormatEndpoints(item).more
                     /\ rows' = IF item.kubernetes THEN <<>> ELSE <<row>>
      BY <2>2 DEF genEndpoints, Rows
    <3>3. rows' # <<>> => rows'[1] = row
      BY <3>2
    <3>4. "service" # "endpoints"
      OBVIOUS
    <3>5. QED
      BY <3>1, <3>2, <3>3, <3>4, Zenon DEF PageInv
  <2>3. CASE UNCHANGED pageVars
    <3>1. item' = item /\ rows' = rows
      BY <2>3 DEF pageVars
    <3>2. QED
      BY <3>1, Zenon DEF PageInv
  <2>4. QED
    BY <2>1, <2>2, <2>3 DEF PageNext
<1>3. QED
  BY <1>1, <1>2, PTL DEF PageSpec

(***************************************************************************)
(* The row of a service tells how it is reached, for any number of         *)
(* addresses, ingresses and ports (GetServiceExternalIP, MakePorts).       *)
(***************************************************************************)
THEOREM Reached == PageSpec => []ServiceShown
<1>1. PageInv => ServiceShown
  <2> SUFFICES ASSUME PageInv, Shows("service")
               PROVE  /\ AddressesShown(item, rows[1].ips)
                      /\ \A other \in SeqUpTo(Ports \X Protocols, MaxPorts) :
                           other # item.ports => MakePorts(other) # rows[1].ports
    BY Zenon DEF ServiceShown, AddressesShown
  <2>1. /\ item \in Items /\ item.kind = "service"
        /\ rows[1].ips = GetServiceExternalIP(item) /\ rows[1].ports = MakePorts(item.ports)
    BY DEF PageInv, Shows
  <2>2. item \in Service
    BY <2>1, ItemsAssumption DEF Endpoints
  <2>3. AddressesShown(item, rows[1].ips)
    BY <2>1, <2>2, AddressesOf
  <2>4. item.ports \in SeqUpTo(Ports \X Protocols, MaxPorts)
    BY <2>2, Zenon DEF Service
  <2>5. ASSUME NEW other \in SeqUpTo(Ports \X Protocols, MaxPorts), other # item.ports
        PROVE  MakePorts(other) # rows[1].ports
    BY <2>1, <2>4, <2>5, PortsApart, Zenon
  <2>6. QED
    BY <2>3, <2>5
<1>2. QED
  BY <1>1, PageInvHolds, PTL

(***************************************************************************)
(* The row of endpoints shows the first three pairs of an address and a    *)
(* port and counts the others, for any number of subsets, ports and        *)
(* addresses (FormatEndpoints).                                            *)
(***************************************************************************)
THEOREM Counted == PageSpec => []EndpointsShown
<1>1. PageInv => EndpointsShown
  <2> SUFFICES ASSUME PageInv, Shows("endpoints")
               PROVE  LET all == AllPairs(item.subsets)
                      IN  /\ rows[1].list \o SubSeq(all, max + 1, Len(all)) = all
                          /\ rows[1].more = Len(all) - Len(rows[1].list)
    BY Zenon DEF EndpointsShown
  <2>1. /\ item \in Items /\ item.kind = "endpoints"
        /\ rows[1].list = FormatEndpoints(item).list /\ rows[1].more = FormatEndpoints(item).more
    BY DEF PageInv, Shows
  <2>2. item \in Endpoints
    BY <2>1, ItemsAssumption, Zenon DEF Service
  <2>3. item.subsets \in SeqUpTo(Subset, MaxSubsets)
    BY <2>2 DEF Endpoints
  <2>4. PICK n \in Nat : item.subsets \in [1..n -> Subset]
    BY <2>3, ItemsAssumption, OfUpTo
  <2>5. ASSUME NEW subset \in Subset
        PROVE  Tellable(subset)
    <3>1. subset.ports \in SeqUpTo(Ports, MaxPorts) /\ subset.addresses \in SeqUpTo(IPs, MaxReady)
      BY DEF Subset
    <3>2. MaxPorts \in Nat /\ MaxReady \in Nat
      BY ItemsAssumption
    <3>3. QED
      BY <3>1, <3>2, OfUpTo DEF Tellable
  <2>6. DOMAIN item.subsets = 1..n /\ \A i \in 1..n : Tellable(item.subsets[i])
    BY <2>4, <2>5
  <2>7. QED
    BY <2>1, <2>6, TextOfEndpoints, Zenon
<1>2. QED
  BY <1>1, PageInvHolds, PTL

(***************************************************************************)
(* A load of the page shows the ages as Durations does: so what is proved  *)
(* of the ages holds on the page.                                          *)
(***************************************************************************)
THEOREM AgesOnPage == PageSpec => Spec
<1>1. PageInit => Init
  BY DEF PageInit
<1>2. [PageNext]_pageVars => [Next]_vars
  BY DEF PageNext, genServices, genEndpoints, pageVars, vars, Next
<1>3. QED
  BY <1>1, <1>2, PTL DEF PageSpec, Spec
=============================================================================
