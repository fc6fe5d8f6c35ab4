------------------------- MODULE NodeResourcesProofs ------------------------
(***************************************************************************)
(* Proofs about the resources on the pages of nodes, for any nodes, kinds  *)
(* of resources, pods and containers: the totals, the errors that are      *)
(* hidden, the percentages and the colours.                                *)
(*                                                                         *)
(* RowsInv says that the heap holds what the API server sent whenever a row *)
(* is begun, and that the rows made so far are right. That a row is right  *)
(* rests on the lemmas of ResourceTotals about the sums.                   *)
(***************************************************************************)
EXTENDS ResourceTotals

(***************************************************************************)
(* The loops that pick pods out of a list.                                 *)
(***************************************************************************)
PickTurn(P, v, p) == IF p \in P THEN Append(v, p) ELSE v

PickedFrom(v, list, r, P) == Distinct(v) /\ Range(v) = {list[i] : i \in r} \intersect P

\* One turn of a loop that picks pods.
LEMMA PickTurnPicks ==
  ASSUME NEW S, NEW list \in Seq(S), Distinct(list), NEW P, NEW r \in SUBSET DOMAIN list, NEW x \in r,
         NEW v \in Seq(S), PickedFrom(v, list, r \ {x}, P)
  PROVE  PickTurn(P, v, list[x]) \in Seq(S) /\ PickedFrom(PickTurn(P, v, list[x]), list, r, P)
<1>1. list[x] \in S
  BY ElementOfSeq
<1>2. list[x] \notin Range(v)
  BY DEF PickedFrom, Distinct
<1>3. {list[i] : i \in r} = {list[i] : i \in r \ {x}} \union {list[x]}
  OBVIOUS
<1>4. CASE list[x] \in P
  <2>1. PICK w : w = Append(v, list[x])
    BY Zenon
  <2>2. /\ w \in Seq(S) /\ Len(w) = Len(v) + 1 /\ Len(v) \in Nat
        /\ DOMAIN w = 1..(Len(v) + 1) /\ DOMAIN v = 1..Len(v)
        /\ w[Len(v) + 1] = list[x] /\ \A i \in 1..Len(v) : w[i] = v[i]
    BY <1>1, <2>1, AppendProperties, LenProperties
  <2>3. Range(w) = Range(v) \union {list[x]}
    BY <2>2 DEF Range
  <2>4. \A i \in DOMAIN w : i # Len(v) + 1 => w[i] \in Range(v) /\ i \in DOMAIN v
    BY <2>2 DEF Range
  <2>5. Distinct(w)
    BY <1>2, <2>2, <2>4 DEF Distinct, PickedFrom
  <2>6. Range(w) = {list[i] : i \in r} \intersect P
    BY <1>3, <1>4, <2>3 DEF PickedFrom
  <2>7. QED
    BY <1>4, <2>1, <2>2, <2>5, <2>6 DEF PickTurn, PickedFrom
<1>5. CASE list[x] \notin P
  BY <1>3, <1>5 DEF PickTurn, PickedFrom
<1>6. QED
  BY <1>4, <1>5

\* Picked has the pods in P of the list, once each.
LEMMA PickedIs ==
  ASSUME NEW S, NEW list \in Seq(S), Distinct(list), NEW P
  PROVE  Picked(list, P) \in Seq(S) /\ PickedFrom(Picked(list, P), list, DOMAIN list, P)
<1> DEFINE Step(g) == [r \in SUBSET DOMAIN list |->
                         IF r = {} THEN <<>> ELSE PickTurn(P, g[r \ {Max(r)}], list[Max(r)])]
           iter == CHOOSE g : g = Step(g)
<1>1. Picked(list, P) = iter[DOMAIN list]
  BY DEF Picked, FoldLeft, MapThenFoldSet, PickTurn
<1>2. PICK m \in Nat : DOMAIN list = 1..m
  BY LenProperties
<1>3. PICK K : K = DOMAIN list /\ K = 1..m
  BY <1>2, Zenon
<1>4. IsFiniteSet(K)
  BY <1>3, FS_Interval
<1>5. PICK c : c = [r \in (SUBSET K) \ {{}} |-> Max(r)]
  BY Zenon
<1>6. ASSUME NEW r \in (SUBSET K) \ {{}}
      PROVE  c[r] \in r /\ c[r] = Max(r)
  <2>1. Max(r) \in r
    BY <1>3, <1>4, MaxOf, Zenon
  <2>2. QED
    BY <1>3, <1>5, <2>1, Zenon
<1>7. Chooser(c, K)
  BY <1>5, <1>6, Zenon DEF Chooser
<1>8. PICK I : I = [r \in SUBSET K |-> {v \in Seq(S) : PickedFrom(v, list, r, P)}]
  BY Zenon
<1>9. PICK op : op = [x \in K |-> [v \in Seq(S) |-> IF PickTurn(P, v, list[x]) \in Seq(S)
                                                   THEN PickTurn(P, v, list[x]) ELSE v]]
  BY Zenon
<1>10. op \in [K -> [Seq(S) -> Seq(S)]]
  BY <1>9, Zenon
<1>11. <<>> \in Seq(S) /\ <<>> \in I[{}]
  <2>1. <<>> \in Seq(S) /\ DOMAIN <<>> = {}
    BY EmptySeq
  <2>2. PickedFrom(<<>>, list, {}, P)
    BY <2>1 DEF PickedFrom, Distinct, Range
  <2>3. QED
    BY <1>8, <2>1, <2>2, Zenon
<1>12. ASSUME NEW r \in SUBSET K, r # {}, NEW v \in I[r \ {c[r]}]
       PROVE  PickTurn(P, v, list[c[r]]) \in I[r] /\ op[c[r]][v] = PickTurn(P, v, list[c[r]])
  <2>1. PICK x \in r, t \in SUBSET K : x = c[r] /\ t = r \ {x}
    BY <1>6, <1>12, Zenon
  <2>2. v \in Seq(S) /\ PickedFrom(v, list, r \ {x}, P)
    BY <1>8, <2>1, Zenon
  <2>3. PickTurn(P, v, list[x]) \in Seq(S) /\ PickedFrom(PickTurn(P, v, list[x]), list, r, P)
    BY <1>3, <2>2, PickTurnPicks, Zenon
  <2>4. op[x][v] = PickTurn(P, v, list[x])
    BY <1>9, <2>2, <2>3, Zenon
  <2>5. PickTurn(P, v, list[x]) \in I[r]
    BY <1>8, <2>3, Zenon
  <2>6. QED
    BY <2>1, <2>4, <2>5, Zenon
<1>13. KeptBy(I, K, Seq(S), <<>>, c, op)
  <2>1. I \in [SUBSET K -> SUBSET Seq(S)]
    BY <1>8, Zenon
  <2>2. QED
    BY <1>11, <1>12, <2>1, Zenon DEF KeptBy
<1>14. PICK f : FoldResult(f, K, Seq(S), <<>>, c, op) /\ \A r \in SUBSET K : f[r] \in I[r]
  BY <1>4, <1>7, <1>10, <1>11, <1>13, FoldKeeps, Zenon
<1>15. f[{}] = <<>>
  BY <1>14, Zenon DEF FoldResult, FoldStep
<1>16. ASSUME NEW r \in SUBSET K, r # {}
       PROVE  f[r] = PickTurn(P, f[r \ {Max(r)}], list[Max(r)])
  <2>1. PICK x \in r, t \in SUBSET K : x = c[r] /\ t = r \ {x} /\ x = Max(r)
    BY <1>6, <1>16, Zenon
  <2>2. f[r] = op[x][f[t]]
    BY <1>14, <1>16, <2>1, Zenon DEF FoldResult, FoldStep
  <2>3. f[t] \in I[r \ {c[r]}]
    BY <1>14, <2>1, Zenon
  <2>4. op[x][f[t]] = PickTurn(P, f[t], list[x])
    BY <1>12, <1>16, <2>1, <2>3, Zenon
  <2>5. QED
    BY <2>1, <2>2, <2>4, Zenon
<1>17. f = Step(f)
  <2>1. f \in [SUBSET K -> Seq(S)]
    BY <1>14, Zenon DEF FoldResult
  <2>2. QED
    BY <1>3, <1>15, <1>16, <2>1, Zenon
<1>18. iter = Step(iter)
  <2> HIDE DEF Step
  <2> QED
    BY <1>17
<1>19. ASSUME NEW r \in SUBSET K
       PROVE  iter[r] = IF r = {} THEN <<>>
                        ELSE PickTurn(P, iter[r \ {Max(r)}], list[Max(r)])
  <2> HIDE DEF iter
  <2> QED
    BY <1>3, <1>18, Zenon
<1>20. PICK it : it = iter
  BY Zenon
<1> HIDE DEF iter, Step
<1>21. ASSUME NEW r \in SUBSET K, r # {}, it[r \ {c[r]}] = f[r \ {c[r]}]
       PROVE  it[r] = f[r]
  <2>1. PICK x \in r, t \in SUBSET K : x = c[r] /\ t = r \ {x} /\ x = Max(r)
    <3>1. c[r] \in r /\ c[r] = Max(r)
      BY <1>6, <1>21, Zenon
    <3>2. QED
      BY <3>1, Zenon
  <2>2. it[r] = PickTurn(P, it[t], list[x]) /\ f[r] = PickTurn(P, f[t], list[x])
    BY <1>16, <1>19, <1>20, <1>21, <2>1, Zenon
  <2>3. QED
    BY <1>21, <2>1, <2>2, Zenon
<1>22. SameSteps(it, f, K, c)
  <2>1. it[{}] = f[{}]
    BY <1>15, <1>19, <1>20, Zenon
  <2>2. QED
    BY <1>21, <2>1, Zenon DEF SameSteps
<1>23. \A r \in SUBSET K : it[r] = f[r]
  BY <1>4, <1>7, <1>22, SameFold
<1>24. f[K] \in I[K] /\ it[K] = f[K]
  BY <1>14, <1>23, Zenon
<1>25. f[K] \in Seq(S) /\ PickedFrom(f[K], list, K, P)
  BY <1>8, <1>24, Zenon
<1>26. Picked(list, P) = f[K]
  BY <1>1, <1>3, <1>20, <1>24, Zenon
<1>27. QED
  BY <1>3, <1>25, <1>26, Zenon
-----------------------------------------------------------------------------
(***************************************************************************)
(* Percentages.                                                            *)
(***************************************************************************)
LEMMA Grows ==
  ASSUME NEW a \in Int, NEW b \in Int, NEW c \in Nat, a <= b
  PROVE  a * c \in Int /\ b * c \in Int /\ a * c <= b * c
OBVIOUS

\* Division of natural numbers rounds down.
LEMMA Quotient ==
  ASSUME NEW y \in Nat, NEW c \in Nat \ {0}, NEW q, q = y \div c
  PROVE  q \in Nat /\ q * c \in Nat /\ q * c <= y /\ y < q * c + c
OBVIOUS

\* What is shown for a total x of a capacity, and what of it is wrong.
ShowsFull(f, x, capacity) ==
  /\ f * capacity <= 100 * x
  /\ 100 * x < (f + 2) * capacity
  /\ f >= 100 <=> x >= capacity

\* A percentage is right within the two roundings.
LEMMA FractionIs ==
  ASSUME NEW x \in Nat, NEW c \in Nat \ {0}, NEW f \in Fraction(x, c)
  PROVE  f \in Int /\ ShowsFull(f, x, c)
<1>1. PICK y \in Nat : y = 100 * x
  OBVIOUS
<1>2. PICK q : q = y \div c
  BY Zenon
<1>3. q \in Nat /\ q * c \in Nat /\ q * c <= y /\ y < q * c + c
  BY <1>2, Quotient, Zenon
<1>4. (q + 1) * c = q * c + c /\ (q + 2) * c = q * c + 2 * c /\ (q - 1) * c = q * c - c
  BY <1>3
<1>5. f = q \/ (f = q - 1 /\ q * c = y /\ x % c # 0)
  BY <1>1, <1>2 DEF Fraction
<1>6. CASE f = q
  <2>1. f >= 100 => x >= c
    <3>1. SUFFICES ASSUME q >= 100
                   PROVE  x >= c
      BY <1>6
    <3>2. 100 * c <= q * c
      BY <1>3, <3>1, Grows
    <3>3. QED
      BY <1>1, <1>3, <3>2
  <2>2. x >= c => f >= 100
    <3>1. SUFFICES ASSUME x >= c, q + 1 <= 100
                   PROVE  FALSE
      BY <1>3, <1>6
    <3>2. (q + 1) * c <= 100 * c
      BY <1>3, <3>1, Grows
    <3>3. QED
      BY <1>1, <1>3, <1>4, <3>1, <3>2
  <2>3. f * c <= 100 * x /\ 100 * x < (f + 2) * c
    BY <1>1, <1>3, <1>4, <1>6
  <2>4. QED
    BY <1>3, <1>6, <2>1, <2>2, <2>3 DEF ShowsFull
<1>7. CASE f = q - 1 /\ q * c = y /\ x % c # 0
  <2>1. f >= 100 => x >= c
    <3>1. SUFFICES ASSUME q >= 100
                   PROVE  x >= c
      BY <1>3, <1>7
    <3>2. 100 * c <= q * c
      BY <1>3, <3>1, Grows
    <3>3. QED
      BY <1>1, <1>3, <3>2
  <2>2. x >= c => f >= 100
    <3>1. SUFFICES ASSUME x >= c, q <= 100
                   PROVE  FALSE
      BY <1>3, <1>7
    <3>2. q * c <= 100 * c
      BY <1>3, <3>1, Grows
    <3>3. x = c
      BY <1>1, <1>7, <3>1, <3>2
    <3>4. c % c = 0
      OBVIOUS
    <3>5. QED
      BY <1>7, <3>3, <3>4
  <2>3. f * c <= 100 * x /\ 100 * x < (f + 2) * c
    <3>1. f * c = q * c - c /\ (f + 2) * c = q * c + c
      BY <1>3, <1>4, <1>7
    <3>2. QED
      BY <1>1, <1>7, <3>1
  <2>4. QED
    BY <1>3, <1>7, <2>1, <2>2, <2>3 DEF ShowsFull
<1>8. QED
  BY <1>5, <1>6, <1>7

\* The colour of a full node, and of one that is at most half full.
LEMMA LabelIs ==
  ASSUME NEW count \in Nat, NEW room \in Nat \ {0}, NEW f \in Fraction(count, room)
  PROVE  /\ count >= room => Label(f) = "danger"
         /\ 2 * count <= room => Label(f) = "success"
<1>1. f \in Int /\ ShowsFull(f, count, room)
  BY FractionIs
<1>2. ASSUME count >= room
      PROVE  Label(f) = "danger"
  BY <1>1, <1>2 DEF ShowsFull, Label
<1>3. ASSUME 2 * count <= room
      PROVE  Label(f) = "success"
  <2>1. f <= 50
    <3>1. SUFFICES ASSUME f >= 51
                   PROVE  FALSE
      BY <1>1
    <3>2. 51 * room <= f * room /\ f * room \in Int
      BY <1>1, <3>1, Grows
    <3>3. QED
      BY <1>1, <1>3, <3>2 DEF ShowsFull
  <2>2. QED
    BY <1>1, <2>1 DEF Label
<1>4. QED
  BY <1>2, <1>3

\* What the pods ask for does not change while a page is made.
LEMMA SamePods ==
  ASSUME pods' = pods, NEW list, NEW k, NEW node
  PROVE  /\ Asks(list, k)' = Asks(list, k)
         /\ Mixed(list)' <=> Mixed(list)
         /\ Worth' = Worth
         /\ FilterNodePods(node)' = FilterNodePods(node)
<1>1. Asks(list, k)' = Asks(list, k)
  BY DEF Asks
<1>2. Mixed(list)' <=> Mixed(list)
  BY DEF Asks, Mixed, AskedAt
<1>3. Worth' = Worth
  BY DEF Worth, Asking
<1>4. FilterNodePods(node)' = FilterNodePods(node)
  BY DEF FilterNodePods
<1>5. QED
  BY <1>1, <1>2, <1>3, <1>4
-----------------------------------------------------------------------------
(***************************************************************************)
(* The rows. RowRight is what TotalsRight and FullShowsFull say of one.    *)
(***************************************************************************)
Parts == {"pod", "node", "list"}

Tasks ==
  {t \in [part : Parts, pods : Seq(DOMAIN pods), node : Range(Nodes)] :
     Distinct(t.pods) /\ (t.part # "node" => Len(t.pods) = 1)}

RowTotals(row) ==
  /\ row.ok = ~Mixed(row.pods)
  /\ \A k \in Kinds : row.totals[k] = IF row.ok THEN Worth[Asks(row.pods, k)] ELSE 0

RowFractions(row) ==
  row.ok /\ row.part # "list" => \A k \in Kinds :
    Capacity[row.node][k] > 0 => ShowsFull(row.fractions[k], row.totals[k], Capacity[row.node][k])

RowLabel(row) ==
  LET count == Len(FilterNodePods(row.node))
      room == PodCapacity[row.node]
  IN  room > 0 => /\ count >= room => row.label = "danger"
                  /\ 2 * count <= room => row.label = "success"

RightRows ==
  {row \in [part : Parts, pods : Seq(DOMAIN pods), node : Range(Nodes), ok : BOOLEAN,
            totals : [Kinds -> Nat], fractions : [Kinds -> Int],
            label : {"success", "warning", "danger"}] :
     RowTotals(row) /\ RowFractions(row) /\ RowLabel(row)}

\* What a list of pods asks for, by the addresses of the amounts.
LEMMA AsksAre ==
  ASSUME PodsOK, NEW list \in Seq(DOMAIN pods), NEW k \in Kinds
  PROVE  /\ Asks(list, k) = OfKind(AskedOf(list, DOMAIN list), k)
         /\ Asks(list, k) \in SUBSET Asking
<1>1. PICK n \in 1..MaxPods :
        pods \in [1..n -> [node : Range(Nodes), terminated : BOOLEAN,
                           containers : UNION {[1..m -> Containers] : m \in 1..MaxInPod}]]
  BY Zenon DEF PodsOK
<1>2. n <= MaxPods /\ DOMAIN pods = 1..n /\ Range(list) \subseteq 1..n
  <2>1. n <= MaxPods /\ DOMAIN pods = 1..n
    BY <1>1, ConstantsAssumption
  <2>2. \A i \in DOMAIN list : list[i] \in DOMAIN pods
    BY ElementOfSeq
  <2>3. QED
    BY <2>1, <2>2 DEF Range
<1>3. ASSUME NEW a \in Asks(list, k)
      PROVE  a \in OfKind(AskedOf(list, DOMAIN list), k)
  <2>1. /\ a \in Range(list) \X (1..MaxInPod) \X {k}
        /\ a[2] \in DOMAIN pods[a[1]].containers /\ k \in DOMAIN pods[a[1]].containers[a[2]]
    BY DEF Asks
  <2>2. a \in Asking
    <3>1. a[1] \in 1..n /\ a[2] \in 1..MaxInPod /\ a[3] \in Kinds /\ a = <<a[1], a[2], a[3]>> /\ a[3] = k
      BY <1>2, <2>1
    <3>2. a[1] \in 1..MaxPods
      BY <1>2, <3>1, ConstantsAssumption
    <3>3. a \in (1..MaxPods) \X (1..MaxInPod) \X Kinds
      BY <3>1, <3>2
    <3>4. QED
      BY <1>2, <2>1, <3>1, <3>3, AskingAt, Zenon
  <2>3. PICK i \in DOMAIN list : a[1] = list[i]
    BY <2>1 DEF Range
  <2>4. a[3] = k
    BY <2>1
  <2>5. QED
    BY <2>2, <2>3, <2>4 DEF OfKind, AskedOf
<1>4. ASSUME NEW a \in OfKind(AskedOf(list, DOMAIN list), k)
      PROVE  a \in Asks(list, k)
  <2>1. a \in Asking /\ a[3] = k /\ a[1] \in Range(list)
    BY DEF OfKind, AskedOf, Range
  <2>2. /\ a \in (1..MaxPods) \X (1..MaxInPod) \X Kinds
        /\ a[2] \in DOMAIN pods[a[1]].containers /\ k \in DOMAIN pods[a[1]].containers[a[2]]
    BY <2>1, AskingAt
  <2>3. QED
    BY <2>1, <2>2 DEF Asks
<1>5. Asks(list, k) = OfKind(AskedOf(list, DOMAIN list), k)
  BY <1>3, <1>4, Zenon
<1>6. QED
  BY <1>5 DEF OfKind, AskedOf

\* Formats are mixed in a list if they clash in what it asks for.
LEMMA MixedIs ==
  ASSUME PodsOK, NEW list \in Seq(DOMAIN pods)
  PROVE  Mixed(list) <=> Clash(AskedOf(list, DOMAIN list))
<1>1. PICK E : E = AskedOf(list, DOMAIN list)
  BY Zenon
<1>2. \A k \in Kinds : Asks(list, k) = OfKind(E, k)
  BY <1>1, AsksAre
<1>3. \A a \in E : a[3] \in Kinds
  BY <1>1, AskedIs DEF AskedOf
<1>4. QED
  BY <1>1, <1>2, <1>3 DEF Mixed, Clash, OfKind

\* The sum that the row is made of has the totals of its pods, or an error.
LEMMA SumRight ==
  ASSUME PodsOK, NEW list \in Seq(DOMAIN pods), NEW sum, Tally(sum, AskedOf(list, DOMAIN list))
  PROVE  /\ sum.ok = ~Mixed(list)
         /\ sum.ok = TRUE => \A k \in Kinds : Total(sum, k) = Worth[Asks(list, k)]
         /\ \A k \in Kinds : Worth[Asks(list, k)] \in Nat
<1>1. PICK E : E = AskedOf(list, DOMAIN list)
  BY Zenon
<1>2. Tally(sum, E) /\ (Mixed(list) <=> Clash(E)) /\ E \in SUBSET Asking
  BY <1>1, MixedIs DEF AskedOf
<1>3. sum.ok \in BOOLEAN
  BY <1>2, SumIs DEF Tally
<1>4. ASSUME NEW k \in Kinds
      PROVE  Worth[Asks(list, k)] \in Nat /\ Asks(list, k) = OfKind(E, k)
  <2>1. Asks(list, k) \in SUBSET Asking /\ Asks(list, k) = OfKind(E, k)
    BY <1>1, AsksAre
  <2>2. QED
    BY <2>1, WorthAdds DEF Adds
<1>5. CASE sum.ok = TRUE
  <2>1. Totalled(sum, E)
    BY <1>2, <1>5 DEF Tally
  <2>2. ~Clash(E)
    BY <2>1 DEF Clash, Totalled
  <2>3. ASSUME NEW k \in Kinds
        PROVE  Total(sum, k) = Worth[Asks(list, k)]
    <3>1. CASE k \in DOMAIN sum.totals
      BY <1>4, <2>1, <3>1 DEF Total, Totalled
    <3>2. CASE k \notin DOMAIN sum.totals
      <4>1. OfKind(E, k) = {}
        BY <2>1, <3>2 DEF Totalled, OfKind
      <4>2. Worth[{}] = 0
        BY WorthAdds DEF Adds
      <4>3. QED
        BY <1>4, <3>2, <4>1, <4>2, Zenon DEF Total
    <3>3. QED
      BY <3>1, <3>2
  <2>4. (~Mixed(list)) = TRUE
    BY <1>2, <2>2
  <2>5. QED
    BY <1>4, <1>5, <2>3, <2>4, Zenon
<1>6. CASE sum.ok = FALSE
  <2>1. Mixed(list)
    BY <1>2, <1>6 DEF Tally
  <2>2. (~Mixed(list)) = FALSE
    BY <2>1
  <2>3. QED
    BY <1>4, <1>6, <2>2, Zenon
<1>7. QED
  BY <1>3, <1>5, <1>6, Zenon

\* The pods of a node, and those of them that are or are not terminated.
LEMMA FilterIs ==
  ASSUME PodsOK, NEW node, NEW list, list = FilterNodePods(node)
  PROVE  /\ list \in Seq(DOMAIN pods) /\ Distinct(list) /\ Len(list) \in Nat
         /\ Range(list) = {p \in DOMAIN pods : pods[p].node = node}
<1>1. PICK n \in 1..MaxPods : DOMAIN pods = 1..n
  BY DEF PodsOK
<1>2. PICK all : all = [p \in DOMAIN pods |-> p]
  BY Zenon
<1>3. n \in Nat
  BY <1>1, ConstantsAssumption
<1>4. all \in Seq(DOMAIN pods) /\ DOMAIN all = DOMAIN pods /\ Distinct(all)
  <2>1. all \in [1..n -> DOMAIN pods]
    BY <1>1, <1>2
  <2>2. QED
    BY <1>1, <1>2, <1>3, <2>1 DEF Distinct
<1>5. PICK P : P = {p \in DOMAIN pods : pods[p].node = node}
  BY Zenon
<1>6. list = Picked(all, P)
  BY <1>2, <1>5 DEF FilterNodePods
<1>7. list \in Seq(DOMAIN pods) /\ PickedFrom(list, all, DOMAIN all, P)
  BY <1>4, <1>6, PickedIs
<1>8. {all[i] : i \in DOMAIN all} \intersect P = P
  BY <1>2, <1>5
<1>9. QED
  BY <1>5, <1>7, <1>8, LenProperties, Zenon DEF PickedFrom

\* The two lists that FilterTerminatedPods makes.
LEMMA TerminatedAre ==
  ASSUME PodsOK, NEW list \in Seq(DOMAIN pods), Distinct(list)
  PROVE  /\ Terminated(list) \in Seq(DOMAIN pods) /\ Distinct(Terminated(list))
         /\ Range(Terminated(list)) = {p \in Range(list) : pods[p].terminated}
         /\ NonTerminated(list) \in Seq(DOMAIN pods) /\ Distinct(NonTerminated(list))
         /\ Range(NonTerminated(list)) = {p \in Range(list) : ~pods[p].terminated}
<1>1. PICK T, L : T = {p \in DOMAIN pods : pods[p].terminated} /\ L = {p \in DOMAIN pods : ~pods[p].terminated}
  BY Zenon
<1>2. Terminated(list) = Picked(list, T) /\ NonTerminated(list) = Picked(list, L)
  BY <1>1 DEF Terminated, NonTerminated
<1>3. /\ Picked(list, T) \in Seq(DOMAIN pods) /\ PickedFrom(Picked(list, T), list, DOMAIN list, T)
      /\ Picked(list, L) \in Seq(DOMAIN pods) /\ PickedFrom(Picked(list, L), list, DOMAIN list, L)
  BY PickedIs, Zenon
<1>4. \A i \in DOMAIN list : list[i] \in DOMAIN pods
  BY ElementOfSeq
<1>5. /\ {list[i] : i \in DOMAIN list} \intersect T = {p \in Range(list) : pods[p].terminated}
      /\ {list[i] : i \in DOMAIN list} \intersect L = {p \in Range(list) : ~pods[p].terminated}
  BY <1>1, <1>4 DEF Range
<1>6. QED
  BY <1>2, <1>3, <1>5 DEF PickedFrom

\* A percentage is a number also without a capacity.
LEMMA FractionType ==
  ASSUME NEW x \in Nat, NEW c \in Nat, NEW f \in Fraction(x, c)
  PROVE  f \in Int /\ (c > 0 => ShowsFull(f, x, c))
<1>1. CASE c = 0
  BY <1>1 DEF Fraction, Indefinite
<1>2. CASE c \in Nat \ {0}
  BY <1>2, FractionIs
<1>3. QED
  BY <1>1, <1>2

\* A row that is made of a right sum is right.
LEMMA RowIsRight ==
  ASSUME PodsOK, NEW task \in Tasks, NEW sum, Tally(sum, AskedOf(task.pods, DOMAIN task.pods)),
         NEW row \in Rows(task, sum)
  PROVE  row \in RightRows /\ row.pods = task.pods /\ row.part = task.part /\ row.ok = sum.ok
<1>1. task.part \in Parts /\ task.pods \in Seq(DOMAIN pods) /\ task.node \in Range(Nodes)
  BY DEF Tasks
<1>2. PICK totals : totals = IF sum.ok THEN [k \in Kinds |-> Total(sum, k)] ELSE Zero
  BY Zenon
<1>3. row \in [part : {task.part}, pods : {task.pods}, node : {task.node}, ok : {sum.ok},
               totals : {totals}, fractions : Fractions(task, sum, totals), label : Labels(task.node)]
  BY <1>2, Zenon DEF Rows
<1>4. /\ row.part = task.part /\ row.pods = task.pods /\ row.node = task.node /\ row.ok = sum.ok
      /\ row.totals = totals /\ row.fractions \in Fractions(task, sum, totals) /\ row.label \in Labels(task.node)
      /\ row = [part |-> row.part, pods |-> row.pods, node |-> row.node, ok |-> row.ok,
                totals |-> row.totals, fractions |-> row.fractions, label |-> row.label]
  BY <1>3
<1>5. /\ sum.ok = ~Mixed(task.pods)
      /\ sum.ok = TRUE => \A k \in Kinds : Total(sum, k) = Worth[Asks(task.pods, k)]
      /\ \A k \in Kinds : Worth[Asks(task.pods, k)] \in Nat
  BY <1>1, SumRight, Zenon
<1>6. sum.ok \in BOOLEAN
  BY SumIs DEF Tally
<1>7. /\ totals \in [Kinds -> Nat]
      /\ \A k \in Kinds : totals[k] = IF sum.ok THEN Worth[Asks(task.pods, k)] ELSE 0
  <2>1. CASE sum.ok = TRUE
    BY <1>2, <1>5, <2>1, Zenon
  <2>2. CASE sum.ok = FALSE
    BY <1>2, <2>2 DEF Zero
  <2>3. QED
    BY <1>6, <2>1, <2>2, Zenon
<1>8. RowTotals(row)
  BY <1>4, <1>5, <1>7, Zenon DEF RowTotals
<1>9. \A k \in Kinds : Capacity[task.node][k] \in Nat
  BY <1>1, ConstantsAssumption
<1>10. /\ row.fractions \in [Kinds -> Int]
       /\ sum.ok = TRUE /\ task.part # "list" => \A k \in Kinds :
            row.fractions[k] \in Fraction(totals[k], Capacity[task.node][k])
  <2>1. CASE sum.ok = FALSE \/ task.part = "list"
    BY <1>4, <2>1 DEF Fractions, Zero
  <2>2. CASE sum.ok = TRUE /\ task.part # "list"
    <3>1. PICK F : F = row.fractions
      BY Zenon
    <3>2. PICK of : of = [k \in Kinds |-> Fraction(totals[k], Capacity[task.node][k])]
      BY Zenon
    <3>3. /\ F \in [Kinds -> UNION {Fraction(totals[k], Capacity[task.node][k]) : k \in Kinds}]
          /\ \A k \in Kinds : F[k] \in Fraction(totals[k], Capacity[task.node][k])
      BY <1>4, <2>2, <3>1, Zenon DEF Fractions
    <3>4. ASSUME NEW k \in Kinds
          PROVE  F[k] \in Int
      <4>1. totals[k] \in Nat /\ Capacity[task.node][k] \in Nat
        BY <1>7, <1>9
      <4>2. QED
        BY <3>3, <4>1, FractionType, Zenon
    <3>5. F \in [Kinds -> Int]
      <4>1. DOMAIN F = Kinds /\ F = [k \in DOMAIN F |-> F[k]]
        BY <3>3
      <4>2. QED
        BY <3>4, <4>1
    <3>6. QED
      BY <3>1, <3>3, <3>5, Zenon
  <2>3. QED
    BY <1>6, <2>1, <2>2, Zenon
<1>11. RowFractions(row)
  <2>1. ASSUME row.ok, row.part # "list", NEW k \in Kinds, Capacity[row.node][k] > 0
        PROVE  ShowsFull(row.fractions[k], row.totals[k], Capacity[row.node][k])
    <3>1. PICK x, c : x = totals[k] /\ c = Capacity[task.node][k]
      BY Zenon
    <3>2. x \in Nat /\ c \in Nat /\ c > 0
      BY <1>4, <1>7, <1>9, <2>1, <3>1, Zenon
    <3>3. row.fractions[k] \in Fraction(x, c)
      BY <1>4, <1>6, <1>10, <2>1, <3>1, Zenon
    <3>4. ShowsFull(row.fractions[k], x, c)
      BY <3>2, <3>3, FractionType
    <3>5. QED
      BY <1>4, <3>1, <3>4, Zenon
  <2>2. QED
    BY <2>1, Zenon DEF RowFractions
<1>12. PICK count \in Nat, room \in Nat : count = Len(FilterNodePods(task.node)) /\ room = PodCapacity[task.node]
  <2>1. Len(FilterNodePods(task.node)) \in Nat
    BY FilterIs
  <2>2. PodCapacity[task.node] \in Nat
    BY <1>1, ConstantsAssumption
  <2>3. QED
    BY <2>1, <2>2, Zenon
<1>13. PICK f \in Fraction(count, room) : row.label = Label(f)
  BY <1>4, <1>12, Zenon DEF Labels
<1>14. RowLabel(row)
  <2>1. ASSUME room > 0
        PROVE  (count >= room => row.label = "danger") /\ (2 * count <= room => row.label = "success")
    <3>1. room \in Nat \ {0}
      BY <2>1
    <3>2. QED
      BY <1>13, <3>1, LabelIs, Zenon
  <2>2. QED
    BY <1>4, <1>12, <2>1, Zenon DEF RowLabel
<1>15. row.label \in {"success", "warning", "danger"}
  <2>1. f \in Int
    BY FractionType
  <2>2. QED
    BY <1>13, <2>1 DEF Label
<1>16. row \in [part : Parts, pods : Seq(DOMAIN pods), node : Range(Nodes), ok : BOOLEAN,
                totals : [Kinds -> Nat], fractions : [Kinds -> Int],
                label : {"success", "warning", "danger"}]
  BY <1>1, <1>4, <1>6, <1>7, <1>10, <1>15, Zenon
<1>17. QED
  BY <1>4, <1>8, <1>11, <1>14, <1>16, Zenon DEF RightRows
-----------------------------------------------------------------------------
(***************************************************************************)
(* The inductive invariant. The heap is again what the API server sent     *)
(* whenever a row is begun. While describeNode makes its page there is a   *)
(* set of live pods such that each row is of pods in it or of terminated   *)
(* ones only, and the sum over the live pods is still to come, has been    *)
(* shown, or has turned the page into an error.                            *)
(***************************************************************************)
Covered(list, live) == Range(list) \subseteq live \/ \A p \in Range(list) : pods[p].terminated

Summed(live) ==
  \/ answer = "error"
  \/ \E t \in Range(todo) : t.part = "node" /\ live \subseteq Range(t.pods)
  \/ \E row \in Range(shown) : row.ok = TRUE /\ live \subseteq Range(row.pods)

Watched(live) ==
  /\ \A t \in Range(todo) : Covered(t.pods, live)
  /\ \A row \in Range(shown) : Covered(row.pods, live)
  /\ Summed(live)

RowsInv ==
  /\ PodsOK /\ heap = Decoded(pods)
  /\ todo \in Seq(Tasks) /\ shown \in Seq(RightRows)
  /\ answer = "page" => todo = <<>>
  /\ page = "describeNode" => \E live \in SUBSET DOMAIN pods : Watched(live)

\* Each of the tasks is of one of the pods in the list.
Singles(tasks, list) == \A t \in Range(tasks) : \E p \in Range(list) : Range(t.pods) = {p}

\* The rows of single pods.
LEMMA EachIs ==
  ASSUME PodsOK, NEW part \in {"pod", "list"}, NEW list \in Seq(DOMAIN pods), NEW node \in Range(Nodes)
  PROVE  /\ Each(part, list, node) \in Seq(Tasks)
         /\ Singles(Each(part, list, node), list)
<1>1. PICK e : e = Each(part, list, node)
  BY Zenon
<1>2. PICK m \in Nat : DOMAIN list = 1..m
  BY LenProperties
<1>3. DOMAIN e = 1..m
  BY <1>1, <1>2 DEF Each
<1>4. ASSUME NEW i \in 1..m
      PROVE  e[i] \in Tasks /\ \E p \in Range(list) : Range(e[i].pods) = {p}
  <2>1. PICK p \in DOMAIN pods : p = list[i] /\ p \in Range(list)
    <3>1. i \in DOMAIN list
      BY <1>2
    <3>2. list[i] \in DOMAIN pods
      BY <3>1, ElementOfSeq
    <3>3. QED
      BY <3>1, <3>2 DEF Range
  <2>2. PICK one : one = <<p>>
    BY Zenon
  <2>3. one \in Seq(DOMAIN pods) /\ Len(one) = 1 /\ DOMAIN one = {1} /\ one[1] = p
    BY <2>2
  <2>4. Distinct(one) /\ Range(one) = {p}
    BY <2>3 DEF Distinct, Range
  <2>5. e[i] = [part |-> part, pods |-> one, node |-> node]
    BY <1>1, <1>2, <2>1, <2>2, Zenon DEF Each, Task
  <2>6. e[i] \in Tasks
    BY <2>3, <2>4, <2>5 DEF Tasks, Parts
  <2>7. QED
    BY <2>1, <2>4, <2>5, <2>6
<1>5. e \in Seq(Tasks)
  <2>1. e = [i \in 1..m |-> e[i]]
    BY <1>1, <1>2, <1>3 DEF Each
  <2>2. QED
    BY <1>4, <2>1
<1>6. Singles(e, list)
  <2>1. ASSUME NEW t \in Range(e)
        PROVE  \E p \in Range(list) : Range(t.pods) = {p}
    <3>1. PICK i \in 1..m : t = e[i]
      BY <1>3 DEF Range
    <3>2. QED
      BY <1>4, <3>1, Zenon
  <2>2. QED
    BY <2>1, Zenon DEF Singles
<1>7. QED
  BY <1>1, <1>5, <1>6, Zenon

\* The row of a node.
LEMMA NodeTaskIs ==
  ASSUME PodsOK, NEW list \in Seq(DOMAIN pods), Distinct(list), NEW node \in Range(Nodes)
  PROVE  /\ Task("node", list, node) \in Tasks
         /\ Task("node", list, node).part = "node" /\ Task("node", list, node).pods = list
BY DEF Task, Tasks, Parts

\* The rows of listNodes.
LEMMA ListTasksAre ==
  ASSUME PodsOK
  PROVE  ListTasks \in Seq(Tasks)
<1>1. PICK m \in Nat : DOMAIN Nodes = 1..m
  BY LenProperties, ConstantsAssumption
<1>2. ASSUME NEW i \in 1..m
      PROVE  Task("node", NonTerminated(FilterNodePods(Nodes[i])), Nodes[i]) \in Tasks
  <2>1. PICK node \in Range(Nodes) : node = Nodes[i]
    BY <1>1 DEF Range
  <2>2. PICK list : list = FilterNodePods(node)
    BY Zenon
  <2>3. list \in Seq(DOMAIN pods) /\ Distinct(list)
    BY <2>2, FilterIs
  <2>4. NonTerminated(list) \in Seq(DOMAIN pods) /\ Distinct(NonTerminated(list))
    BY <2>3, TerminatedAre
  <2>5. Task("node", NonTerminated(list), node) \in Tasks
    BY <2>4, NodeTaskIs
  <2>6. QED
    BY <2>1, <2>2, <2>5, Zenon
<1>3. QED
  BY <1>1, <1>2 DEF ListTasks

\* A concatenation has the elements of both sequences.
LEMMA Joined ==
  ASSUME NEW S, NEW a \in Seq(S), NEW b \in Seq(S)
  PROVE  a \o b \in Seq(S) /\ Range(a \o b) = Range(a) \union Range(b)
<1>1. a \o b \in Seq(S)
  OBVIOUS
<1>2. QED
  BY <1>1, RangeConcatenation, ZenonT(30)

\* The rows of describeNode: of live or of terminated pods, and one of all live pods.
LEMMA DescribeTasksAre ==
  ASSUME PodsOK, NEW node \in Range(Nodes), NEW list \in Seq(DOMAIN pods), Distinct(list),
         NEW live, live = Range(NonTerminated(list)), NEW tasks, tasks = DescribeTasks(list, node)
  PROVE  /\ tasks \in Seq(Tasks) /\ live \in SUBSET DOMAIN pods
         /\ \A t \in Range(tasks) : Covered(t.pods, live)
         /\ \E t \in Range(tasks) : t.part = "node" /\ live \subseteq Range(t.pods)
<1>1. PICK NT, T : NT = NonTerminated(list) /\ T = Terminated(list)
  BY Zenon
<1>2. /\ NT \in Seq(DOMAIN pods) /\ T \in Seq(DOMAIN pods) /\ Distinct(NT) /\ Distinct(T)
      /\ live = {p \in Range(list) : ~pods[p].terminated} /\ live = Range(NT)
      /\ Range(T) = {p \in Range(list) : pods[p].terminated}
  BY <1>1, TerminatedAre
<1>3. PICK e1, e2, e3, e4 :
        /\ e1 = Each("pod", NT, node) /\ e2 = Each("pod", T, node)
        /\ e3 = <<Task("node", NT, node)>> /\ e4 = Each("list", list, node)
  BY Zenon
<1>4. tasks = e1 \o e2 \o e3 \o e4
  BY <1>1, <1>3, Zenon DEF DescribeTasks
<1>5. /\ e1 \in Seq(Tasks) /\ Singles(e1, NT)
      /\ e2 \in Seq(Tasks) /\ Singles(e2, T)
      /\ e4 \in Seq(Tasks) /\ Singles(e4, list)
  BY <1>2, <1>3, EachIs, Zenon
<1>6. PICK n : n = Task("node", NT, node)
  BY Zenon
<1>7. n \in Tasks /\ n.part = "node" /\ n.pods = NT
  BY <1>2, <1>6, NodeTaskIs, Zenon
<1>8. e3 \in Seq(Tasks) /\ Range(e3) = {n}
  BY <1>3, <1>6, <1>7 DEF Range
<1>9. /\ e1 \o e2 \in Seq(Tasks) /\ Range(e1 \o e2) = Range(e1) \union Range(e2)
  BY <1>5, Joined, ZenonT(30)
<1>10. PICK e12 \in Seq(Tasks) : e12 = e1 \o e2
  BY <1>9, Zenon
<1>11. e12 \o e3 \in Seq(Tasks) /\ Range(e12 \o e3) = Range(e12) \union Range(e3)
  BY <1>8, Joined, ZenonT(30)
<1>12. PICK e123 \in Seq(Tasks) : e123 = e12 \o e3
  BY <1>11, Zenon
<1>13. e123 \o e4 \in Seq(Tasks) /\ Range(e123 \o e4) = Range(e123) \union Range(e4)
  BY <1>5, Joined, ZenonT(30)
<1>14. tasks \in Seq(Tasks) /\ Range(tasks) = Range(e1) \union Range(e2) \union {n} \union Range(e4)
  <2>1. tasks = e123 \o e4
    BY <1>4, <1>10, <1>12, Zenon
  <2>2. QED
    BY <1>8, <1>9, <1>10, <1>11, <1>12, <1>13, <2>1, Zenon
<1>15. ASSUME NEW t \in Range(tasks)
       PROVE  Covered(t.pods, live)
  <2>1. CASE t \in Range(e1)
    <3>1. PICK p \in Range(NT) : Range(t.pods) = {p}
      BY <1>5, <2>1, Zenon DEF Singles
    <3>2. QED
      BY <1>2, <3>1 DEF Covered
  <2>2. CASE t \in Range(e2)
    <3>1. PICK p \in Range(T) : Range(t.pods) = {p}
      BY <1>5, <2>2, Zenon DEF Singles
    <3>2. QED
      BY <1>2, <3>1 DEF Covered
  <2>3. CASE t = n
    BY <1>2, <1>7, <2>3, Zenon DEF Covered
  <2>4. CASE t \in Range(e4)
    <3>1. PICK p \in Range(list) : Range(t.pods) = {p}
      BY <1>5, <2>4, Zenon DEF Singles
    <3>2. QED
      BY <1>2, <3>1, Zenon DEF Covered
  <2>5. QED
    BY <1>14, <2>1, <2>2, <2>3, <2>4, Zenon
<1>16. live \in SUBSET DOMAIN pods
  BY <1>2, RangeOfSeq, Zenon
<1>17. QED
  BY <1>2, <1>7, <1>14, <1>15, <1>16, Zenon

\* The invariant holds when the page is begun.
LEMMA RowsInit ==
  ASSUME Init
  PROVE  RowsInv
<1>1. PodsOK /\ heap = Decoded(pods) /\ shown = <<>> /\ answer = "none"
  BY Zenon DEF Init, PodsOK
<1>2. shown \in Seq(RightRows) /\ Range(shown) = {}
  BY <1>1 DEF Range
<1>3. CASE page = "listNodes" /\ todo = ListTasks
  <2>1. todo \in Seq(Tasks)
    BY <1>1, <1>3, ListTasksAre, Zenon
  <2>2. QED
    BY <1>1, <1>2, <1>3, <2>1, Zenon DEF RowsInv
<1>4. CASE page = "describeNode" /\ \E node \in Range(Nodes) : todo = DescribeTasks(FilterNodePods(node), node)
  <2>1. PICK node \in Range(Nodes) : todo = DescribeTasks(FilterNodePods(node), node)
    BY <1>4
  <2>2. PICK list : list = FilterNodePods(node)
    BY Zenon
  <2>3. list \in Seq(DOMAIN pods) /\ Distinct(list)
    BY <1>1, <2>2, FilterIs, Zenon
  <2>4. PICK live : live = Range(NonTerminated(list))
    BY Zenon
  <2>5. /\ todo \in Seq(Tasks) /\ live \in SUBSET DOMAIN pods
        /\ \A t \in Range(todo) : Covered(t.pods, live)
        /\ \E t \in Range(todo) : t.part = "node" /\ live \subseteq Range(t.pods)
    <3>1. todo = DescribeTasks(list, node)
      BY <2>1, <2>2
    <3>2. QED
      BY <1>1, <2>3, <2>4, <3>1, DescribeTasksAre, SMTT(30)
  <2>6. Watched(live)
    BY <1>2, <2>5, Zenon DEF Watched, Summed
  <2>7. QED
    BY <1>1, <1>2, <2>5, <2>6, Zenon DEF RowsInv
<1>5. QED
  BY <1>3, <1>4, Zenon DEF Init

\* The heap as it was sent is fit for a sum.
LEMMA HeapReady ==
  ASSUME PodsOK, heap = Decoded(pods)
  PROVE  Ready(heap) /\ DOMAIN heap = Asking
<1>1. DOMAIN heap = Asking
  BY DEF Asking
<1>2. IsFiniteSet(Asking) /\ heap \in [Asking -> Nat]
  BY AskingFinite
<1>3. \A a \in Asking : a \in Addresses /\ a[1] # 0 /\ heap[a] = AskedAt(a).amount
  BY AskedIs
<1>4. Fresh(heap)
  BY <1>1, <1>2, <1>3, Zenon DEF Fresh
<1>5. QED
  BY <1>1, <1>2, <1>3, <1>4, Zenon DEF Ready

\* A sum leaves what the pods ask for as it was.
LEMMA HeapKept ==
  ASSUME PodsOK, heap = Decoded(pods), NEW sum, Frame(Sum(heap), sum),
         heap' = [at \in DOMAIN heap |-> sum.heap[at]]
  PROVE  heap' = heap
<1>1. \A a \in DOMAIN heap : sum.heap[a] = heap[a]
  BY HeapReady, SumEmpty, Zenon DEF Frame
<1>2. heap = [at \in DOMAIN heap |-> heap[at]]
  BY AskingFinite
<1>3. QED
  BY <1>1, <1>2

\* The sum that each row is made of.
LEMMA TaskSum ==
  ASSUME PodsOK, heap = Decoded(pods), NEW t \in Tasks, NEW sum,
         sum = IF t.part = "node" THEN GetPodsTotalRequestsAndLimits(heap, t.pods)
                                  ELSE GetSinglePodTotalRequestsAndLimits(heap, t.pods[1])
  PROVE  Tally(sum, AskedOf(t.pods, DOMAIN t.pods)) /\ Frame(Sum(heap), sum)
<1>1. Ready(heap)
  BY HeapReady
<1>2. PICK list \in Seq(DOMAIN pods) : list = t.pods /\ Distinct(list) /\ (t.part # "node" => Len(list) = 1)
  BY DEF Tasks
<1>3. CASE t.part = "node"
  BY <1>1, <1>2, <1>3, PodsTally, Zenon
<1>4. CASE t.part # "node"
  <2>1. DOMAIN list = {1}
    <3>1. DOMAIN list = 1..Len(list)
      BY LenProperties
    <3>2. Len(list) = 1
      BY <1>2, <1>4, Zenon
    <3>3. 1..1 = {1}
      OBVIOUS
    <3>4. QED
      BY <3>1, <3>2, <3>3, Zenon
  <2>2. PICK p \in DOMAIN pods : p = list[1]
    <3>1. 1 \in DOMAIN list
      BY <2>1
    <3>2. \A i \in DOMAIN list : list[i] \in DOMAIN pods
      BY ElementOfSeq
    <3>3. QED
      BY <3>1, <3>2
  <2>3. AskedOf(list, DOMAIN list) = AskedBy(p)
    BY <2>1, <2>2 DEF AskedOf, AskedBy
  <2>4. Tally(GetSinglePodTotalRequestsAndLimits(heap, p), AskedBy(p))
        /\ Frame(Sum(heap), GetSinglePodTotalRequestsAndLimits(heap, p))
    BY <1>1, SingleTally, Zenon
  <2>5. sum = GetSinglePodTotalRequestsAndLimits(heap, p)
    BY <1>2, <1>4, <2>2, Zenon
  <2>6. QED
    BY <1>2, <2>3, <2>4, <2>5, Zenon
<1>5. QED
  BY <1>3, <1>4

\* What depends on the pods alone stays when they do.
LEMMA SameRows ==
  ASSUME pods' = pods
  PROVE  Tasks' = Tasks /\ RightRows' = RightRows /\ (PodsOK' <=> PodsOK)
         /\ Decoded(pods)' = Decoded(pods)
<1>1. Tasks' = Tasks
  BY DEF Tasks, Parts
<1>2. ASSUME NEW row
      PROVE  (RowTotals(row)' <=> RowTotals(row)) /\ (RowFractions(row)' <=> RowFractions(row))
             /\ (RowLabel(row)' <=> RowLabel(row))
  <2>1. PICK list, node : list = row.pods /\ node = row.node
    BY Zenon
  <2>2. (Mixed(list)' <=> Mixed(list)) /\ Worth' = Worth /\ FilterNodePods(node)' = FilterNodePods(node)
        /\ \A k \in Kinds : Asks(list, k)' = Asks(list, k)
    BY SamePods
  <2>3. RowTotals(row)' <=> RowTotals(row)
    BY <2>1, <2>2 DEF RowTotals
  <2>4. RowFractions(row)' <=> RowFractions(row)
    BY DEF RowFractions, ShowsFull
  <2>5. RowLabel(row)' <=> RowLabel(row)
    BY <2>1, <2>2, Zenon DEF RowLabel
  <2>6. QED
    BY <2>3, <2>4, <2>5, Zenon
<1>3. RightRows' = RightRows
  BY <1>2 DEF RightRows, Parts
<1>4. PodsOK' <=> PodsOK
  BY DEF PodsOK
<1>5. Decoded(pods)' = Decoded(pods)
  BY DEF Decoded
<1>6. QED
  BY <1>1, <1>3, <1>4, <1>5, Zenon

\* A sequence is its head and its tail.
LEMMA Parted ==
  ASSUME NEW S, NEW s \in Seq(S), s # <<>>
  PROVE  Head(s) \in S /\ Tail(s) \in Seq(S) /\ Range(s) = {Head(s)} \union Range(Tail(s))
<1>1. Head(s) \in S /\ Tail(s) \in Seq(S) /\ s = <<Head(s)>> \o Tail(s)
  BY HeadTailProperties
<1>2. <<Head(s)>> \in Seq(S) /\ Range(<<Head(s)>>) = {Head(s)}
  BY <1>1 DEF Range
<1>3. QED
  <2>1. PICK a \in Seq(S), b \in Seq(S) : a = <<Head(s)>> /\ b = Tail(s) /\ s = a \o b
    BY <1>1, <1>2, Zenon
  <2>2. Range(a \o b) = Range(a) \union Range(b)
    BY Joined, ZenonT(30)
  <2>3. QED
    BY <1>1, <1>2, <2>1, <2>2, Zenon

\* An appended element is one more.
LEMMA Added ==
  ASSUME NEW S, NEW s \in Seq(S), NEW x \in S
  PROVE  Append(s, x) \in Seq(S) /\ Range(Append(s, x)) = Range(s) \union {x}
<1>1. Append(s, x) = s \o <<x>> /\ <<x>> \in Seq(S)
  OBVIOUS
<1>2. Range(<<x>>) = {x}
  BY DEF Range
<1>3. QED
  <2>1. PICK b \in Seq(S) : b = <<x>> /\ Append(s, x) = s \o b
    BY <1>1, Zenon
  <2>2. s \o b \in Seq(S) /\ Range(s \o b) = Range(s) \union Range(b)
    BY Joined, ZenonT(30)
  <2>3. QED
    BY <1>2, <2>1, <2>2, Zenon

\* A row that is made, of a pod or of a node, keeps the invariant.
LEMMA MakeRowKeeps ==
  ASSUME RowsInv, todo # <<>>, NEW sum, MakeRow(sum),
         sum = IF Head(todo).part = "node"
                 THEN GetPodsTotalRequestsAndLimits(heap, Head(todo).pods)
                 ELSE GetSinglePodTotalRequestsAndLimits(heap, Head(todo).pods[1]),
         page = "describeNode" /\ Head(todo).part = "node" => sum.ok = TRUE
  PROVE  RowsInv'
<1>1. PodsOK /\ heap = Decoded(pods) /\ todo \in Seq(Tasks) /\ shown \in Seq(RightRows)
      /\ (answer = "page" => todo = <<>>)
  BY DEF RowsInv
<1>2. PICK t : t = Head(todo)
  BY Zenon
<1>3. t \in Tasks /\ Tail(todo) \in Seq(Tasks) /\ Range(todo) = {t} \union Range(Tail(todo))
  BY <1>1, <1>2, Parted, Zenon
<1>4. Tally(sum, AskedOf(t.pods, DOMAIN t.pods)) /\ Frame(Sum(heap), sum)
  BY <1>1, <1>2, <1>3, TaskSum, Zenon
<1>5. PICK row \in Rows(t, sum) : shown' = Append(shown, row)
  BY <1>2, Zenon DEF MakeRow
<1>6. row \in RightRows /\ row.pods = t.pods /\ row.part = t.part /\ row.ok = sum.ok
  BY <1>1, <1>3, <1>4, RowIsRight, Zenon
<1>7. pods' = pods /\ page' = page /\ answer' = answer /\ todo' = Tail(todo)
      /\ heap' = [at \in DOMAIN heap |-> sum.heap[at]]
  BY Zenon DEF MakeRow
<1>8. heap' = heap
  BY <1>1, <1>4, <1>7, HeapKept, Zenon
<1>9. Tasks' = Tasks /\ RightRows' = RightRows /\ PodsOK' /\ Decoded(pods)' = Decoded(pods)
  BY <1>1, <1>7, SameRows, ZenonT(30)
<1>10. shown' \in Seq(RightRows) /\ Range(shown') = Range(shown) \union {row}
  BY <1>1, <1>5, <1>6, Added, SMTT(30)
<1>11. ASSUME NEW live \in SUBSET DOMAIN pods, Watched(live), page = "describeNode"
       PROVE  Watched(live)'
  <2>1. \A x : Covered(x, live)' <=> Covered(x, live)
    BY <1>7, Zenon DEF Covered
  <2>2. /\ \A u \in Range(todo) : Covered(u.pods, live)
        /\ \A y \in Range(shown) : Covered(y.pods, live)
        /\ Summed(live)
    BY <1>11 DEF Watched
  <2>3. Covered(t.pods, live)
    BY <1>3, <2>2, ZenonT(30)
  <2>4. \A u \in Range(todo') : Covered(u.pods, live)
    BY <1>3, <1>7, <2>2, Zenon
  <2>5. \A y \in Range(shown') : Covered(y.pods, live)
    BY <1>6, <1>10, <2>2, <2>3, Zenon
  <2>6. Summed(live)'
    <3>1. CASE answer = "error"
      BY <1>7, <3>1, Zenon DEF Summed
    <3>2. CASE \E u \in Range(todo) : u.part = "node" /\ live \subseteq Range(u.pods)
      <4>1. PICK u \in Range(todo) : u.part = "node" /\ live \subseteq Range(u.pods)
        BY <3>2
      <4>2. CASE u = t
        <5>1. row.ok = TRUE /\ live \subseteq Range(row.pods) /\ row \in Range(shown')
          BY <1>2, <1>6, <1>10, <1>11, <4>1, <4>2, Zenon
        <5>2. QED
          BY <5>1 DEF Summed
      <4>3. CASE u \in Range(todo')
        BY <4>1, <4>3, Zenon DEF Summed
      <4>4. QED
        BY <1>3, <1>7, <4>1, <4>2, <4>3, Zenon
    <3>3. CASE \E y \in Range(shown) : y.ok = TRUE /\ live \subseteq Range(y.pods)
      <4>1. \E y \in Range(shown') : y.ok = TRUE /\ live \subseteq Range(y.pods)
        BY <1>10, <3>3, Zenon
      <4>2. QED
        BY <4>1, Zenon DEF Summed
    <3>4. QED
      BY <2>2, <3>1, <3>2, <3>3, Zenon DEF Summed
  <2>7. QED
    BY <2>1, <2>4, <2>5, <2>6, Zenon DEF Watched
<1>12. page' = "describeNode" => \E live \in SUBSET DOMAIN pods' : Watched(live)'
  <2>1. SUFFICES ASSUME page = "describeNode"
                 PROVE  \E live \in SUBSET DOMAIN pods' : Watched(live)'
    BY <1>7, Zenon
  <2>2. PICK live \in SUBSET DOMAIN pods : Watched(live)
    BY <2>1 DEF RowsInv
  <2>3. Watched(live)'
    BY <1>11, <2>1, <2>2, Zenon
  <2>4. QED
    BY <1>7, <2>3, Zenon
<1>13. todo' \in Seq(Tasks') /\ shown' \in Seq(RightRows') /\ heap' = Decoded(pods)'
  BY <1>1, <1>3, <1>7, <1>8, <1>9, <1>10, Zenon
<1>14. answer' = "page" => todo' = <<>>
  BY <1>1, <1>7, Zenon
<1>15. QED
  BY <1>9, <1>12, <1>13, <1>14, Zenon DEF RowsInv

\* Every step keeps the invariant.
LEMMA RowsNext ==
  ASSUME RowsInv, [Next]_vars
  PROVE  RowsInv'
<1>1. PodsOK /\ todo \in Seq(Tasks) /\ heap = Decoded(pods)
  BY DEF RowsInv
<1>2. CASE PodRow
  <2>1. todo # <<>> /\ Head(todo).part # "node"
        /\ MakeRow(GetSinglePodTotalRequestsAndLimits(heap, Head(todo).pods[1]))
    BY <1>2 DEF PodRow
  <2>2. PICK sum : sum = GetSinglePodTotalRequestsAndLimits(heap, Head(todo).pods[1])
    BY Zenon
  <2>3. MakeRow(sum)
    BY <2>1, <2>2, Zenon
  <2>4. QED
    BY <2>1, <2>2, <2>3, MakeRowKeeps, Zenon
<1>3. CASE NodeRow
  <2>1. PICK sum : sum = GetPodsTotalRequestsAndLimits(heap, Head(todo).pods)
    BY Zenon
  <2>2. todo # <<>> /\ Head(todo).part = "node" /\ (sum.ok \/ page = "listNodes") /\ MakeRow(sum)
    BY <1>3, <2>1, Zenon DEF NodeRow
  <2>3. sum.ok \in BOOLEAN
    <3>1. Head(todo) \in Tasks
      BY <1>1, <2>2, Parted, Zenon
    <3>2. PICK t \in Tasks : t = Head(todo)
      BY <3>1
    <3>3. Tally(sum, AskedOf(t.pods, DOMAIN t.pods))
      BY <1>1, <2>1, <2>2, <3>2, TaskSum, Zenon
    <3>4. QED
      BY <3>3, SumIs, Zenon DEF Tally
  <2>4. page = "describeNode" => sum.ok = TRUE
    BY <2>2, <2>3
  <2>5. QED
    BY <2>1, <2>2, <2>4, MakeRowKeeps, Zenon
<1>4. CASE NodeError
  <2>1. /\ pods' = pods /\ heap' = heap /\ page' = page /\ shown' = shown
        /\ todo' = <<>> /\ answer' = "error"
    BY <1>4 DEF NodeError
  <2>2. Tasks' = Tasks /\ RightRows' = RightRows /\ PodsOK' /\ Decoded(pods)' = Decoded(pods)
    BY <1>1, <2>1, SameRows, Zenon
  <2>3. todo' \in Seq(Tasks) /\ Range(todo') = {}
    BY <2>1 DEF Range
  <2>4. ASSUME NEW live, Watched(live)
        PROVE  Watched(live)'
    <3>1. \A x : Covered(x, live)' <=> Covered(x, live)
      BY <2>1 DEF Covered
    <3>2. QED
      BY <2>1, <2>3, <2>4, <3>1, Zenon DEF Watched, Summed
  <2>5. QED
    BY <2>1, <2>2, <2>3, <2>4, Zenon DEF RowsInv
<1>5. CASE Respond
  <2>1. /\ pods' = pods /\ heap' = heap /\ page' = page /\ shown' = shown /\ todo' = todo
        /\ todo = <<>> /\ answer = "none"
    BY <1>5 DEF Respond
  <2>2. Tasks' = Tasks /\ RightRows' = RightRows /\ PodsOK' /\ Decoded(pods)' = Decoded(pods)
    BY <1>1, <2>1, SameRows, Zenon
  <2>3. ASSUME NEW live, Watched(live)
        PROVE  Watched(live)'
    <3>1. \A x : Covered(x, live)' <=> Covered(x, live)
      BY <2>1 DEF Covered
    <3>2. QED
      BY <2>1, <2>3, <3>1, Zenon DEF Watched, Summed
  <2>4. QED
    BY <2>1, <2>2, <2>3, Zenon DEF RowsInv
<1>6. CASE UNCHANGED vars
  <2>1. /\ pods' = pods /\ heap' = heap /\ page' = page /\ shown' = shown /\ todo' = todo
        /\ answer' = answer
    BY <1>6 DEF vars
  <2>2. Tasks' = Tasks /\ RightRows' = RightRows /\ PodsOK' /\ Decoded(pods)' = Decoded(pods)
    BY <1>1, <2>1, SameRows, Zenon
  <2>3. ASSUME NEW live, Watched(live)
        PROVE  Watched(live)'
    <3>1. \A x : Covered(x, live)' <=> Covered(x, live)
      BY <2>1 DEF Covered
    <3>2. QED
      BY <2>1, <2>3, <3>1, Zenon DEF Watched, Summed
  <2>4. QED
    BY <2>1, <2>2, <2>3, Zenon DEF RowsInv
<1>7. QED
  BY <1>2, <1>3, <1>4, <1>5, <1>6, Zenon DEF Next

\* So it holds always.
LEMMA RowsInvariant == Spec => []RowsInv
<1>1. Init => RowsInv
  BY RowsInit
<1>2. RowsInv /\ [Next]_vars => RowsInv'
  BY RowsNext
<1>3. QED
  BY <1>1, <1>2, PTL DEF Spec

(***************************************************************************)
(* The totals on the pages of nodes are the sums of what the containers    *)
(* ask for, and an error leaves no partial sum, for any pods: main.go,     *)
(* computePodResources and computeNodeResources.                           *)
(***************************************************************************)
THEOREM TotalsAreRight == Spec => []TotalsRight
<1>1. RowsInv => TotalsRight
  <2>1. SUFFICES ASSUME RowsInv, NEW i \in DOMAIN shown
                 PROVE  /\ shown[i].ok = ~Mixed(shown[i].pods)
                        /\ \A k \in Kinds : shown[i].totals[k]
                                            = IF shown[i].ok THEN Asked(shown[i].pods, k) ELSE 0
    BY Zenon DEF TotalsRight
  <2>2. PICK row \in RightRows : row = shown[i]
    <3>1. shown \in Seq(RightRows)
      BY <2>1 DEF RowsInv
    <3>2. shown[i] \in RightRows
      BY <3>1, ElementOfSeq, SMTT(30)
    <3>3. QED
      BY <3>2
  <2>3. RowTotals(row) /\ row.pods \in Seq(DOMAIN pods) /\ PodsOK
    BY <2>1 DEF RightRows, RowsInv
  <2>4. ASSUME NEW k \in Kinds
        PROVE  Worth[Asks(row.pods, k)] = Asked(row.pods, k)
    <3>1. Asks(row.pods, k) \in SUBSET Asking
      BY <2>3, AsksAre, Zenon
    <3>2. QED
      BY <2>3, <3>1, SumOfAsked, Zenon DEF Asked
  <2>5. QED
    BY <2>2, <2>3, <2>4, Zenon DEF RowTotals
<1>2. QED
  BY <1>1, RowsInvariant, PTL

(***************************************************************************)
(* An error of a pod's sum that describeNode ignores is of a terminated    *)
(* pod: the sum over the live pods would have failed with it.              *)
(***************************************************************************)
THEOREM HiddenErrorsTerminated == Spec => []HiddenErrorsAreTerminated
<1>1. RowsInv => HiddenErrorsAreTerminated
  <2>1. SUFFICES ASSUME RowsInv, answer = "page", page = "describeNode", NEW i \in DOMAIN shown,
                        ~shown[i].ok, NEW p \in Range(shown[i].pods)
                 PROVE  pods[p].terminated
    BY Zenon DEF HiddenErrorsAreTerminated
  <2>2. PodsOK /\ todo = <<>> /\ shown \in Seq(RightRows) /\ Range(todo) = {}
    BY <2>1 DEF RowsInv, Range
  <2>3. PICK live \in SUBSET DOMAIN pods : Watched(live)
    BY <2>1, Zenon DEF RowsInv
  <2>4. PICK whole \in Range(shown) : whole.ok = TRUE /\ live \subseteq Range(whole.pods)
    BY <2>1, <2>2, <2>3, Zenon DEF Watched, Summed
  <2>5. PICK row \in RightRows : row = shown[i] /\ row \in Range(shown)
    <3>1. shown[i] \in RightRows
      BY <2>2, ElementOfSeq
    <3>2. QED
      BY <3>1 DEF Range
  <2>6. whole \in RightRows
    BY <2>2, <2>4, RangeOfSeq, Zenon
  <2>7. ~Mixed(whole.pods)
    BY <2>4, <2>6, Zenon DEF RightRows, RowTotals
  <2>8. Mixed(row.pods)
    BY <2>1, <2>5, ZenonT(30) DEF RightRows, RowTotals
  <2>9. ~(Range(row.pods) \subseteq Range(whole.pods))
    BY <2>7, <2>8 DEF Mixed, Asks
  <2>10. Covered(row.pods, live)
    BY <2>3, <2>5, Zenon DEF Watched
  <2>11. QED
    BY <2>1, <2>4, <2>5, <2>9, <2>10, Zenon DEF Covered
<1>2. QED
  BY <1>1, RowsInvariant, PTL

(***************************************************************************)
(* Percentages and colours do not make a full node look otherwise, for any *)
(* capacity: main.go, computeNodeResources; pages/nodeTable.html.          *)
(***************************************************************************)
THEOREM FullNodesShowFull == Spec => []FullShowsFull
<1>1. RowsInv => FullShowsFull
  <2>1. SUFFICES ASSUME RowsInv
                 PROVE  FullShowsFull
    OBVIOUS
  <2>2. ASSUME NEW i \in DOMAIN shown
        PROVE  RowFractions(shown[i]) /\ RowLabel(shown[i])
    <3>1. shown[i] \in RightRows
      BY <2>1, ElementOfSeq DEF RowsInv
    <3>2. QED
      BY <3>1, Zenon DEF RightRows
  <2>3. QED
    BY <2>2, Zenon DEF FullShowsFull, RowFractions, RowLabel, ShowsFull
<1>2. QED
  BY <1>1, RowsInvariant, PTL
=============================================================================
