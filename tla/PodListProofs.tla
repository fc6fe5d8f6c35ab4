---------------------------- MODULE PodListProofs ---------------------------
(***************************************************************************)
(* Proofs about the walk through the pod list, for any pods, images, nodes *)
(* and reports: the types, what the status tells, what the filters find,   *)
(* what the list after an action shows, and what an upgrade keeps.         *)
(***************************************************************************)
EXTENDS PodList, FiniteSetTheorems, WellFoundedInduction, TLAPS

\* A set of numbers that is not empty has a least element, which is its Min.
LEMMA MinOfNumbers ==
  ASSUME NEW S, S \subseteq Nat, S # {}
  PROVE  Min(S) \in S /\ \A y \in S : Min(S) <= y
<1>1. PICK x \in S : \A y \in S : ~ (<<y, x>> \in OpToRel(<, Nat))
  BY WFMin, NatLessThanWellFounded
<1>2. \A y \in S : ~ (y < x)
  BY <1>1, Zenon DEF OpToRel
<1>3. \A y \in S : x <= y
  BY <1>2
<1>4. QED
  BY <1>3, Zenon DEF Min
-----------------------------------------------------------------------------
(***************************************************************************)
(* The status. FoldRight is defined by recursion over sets of positions;   *)
(* Verdict says what the recursion comes to.                               *)
(***************************************************************************)
Container == [state   : {"waiting", "starting", "terminated", "ready", "unready"},
              paused  : BOOLEAN,
              started : Nat \ {0}]

Trouble(c) == c.state \in {"waiting", "terminated"} \/ (Ready(c) /\ c.paused)

\* What the containers of cs at the positions in s make of the status own.
Verdict(cs, s, own) ==
  LET t == {i \in s : Trouble(cs[i])}
  IN  IF t = {} THEN own ELSE Tell(cs[Min(t)], own)

\* A container in trouble tells the same whatever the others tell, and one that
\* runs tells nothing.
LEMMA TellOf ==
  ASSUME NEW c, NEW x
  PROVE  /\ Trouble(c) => \A y : Tell(c, x) = Tell(c, y)
         /\ ~Trouble(c) => Tell(c, x) = x
BY DEF Trouble, Tell

\* The least of the positions decides, if its container is in trouble.
LEMMA VerdictStep ==
  ASSUME NEW cs, NEW s, s \subseteq Nat, s # {}, NEW own
  PROVE  Verdict(cs, s, own) = Tell(cs[Min(s)], Verdict(cs, s \ {Min(s)}, own))
<1> DEFINE t == {i \in s : Trouble(cs[i])}
           u == {i \in s \ {Min(s)} : Trouble(cs[i])}
<1>1. Min(s) \in s /\ \A y \in s : Min(s) <= y
  BY MinOfNumbers, Zenon
<1>2. CASE Trouble(cs[Min(s)])
  <2>1. t # {} /\ t \subseteq Nat /\ Min(s) \in t
    BY <1>1, <1>2, Zenon
  <2>2. Min(t) \in t /\ Min(t) <= Min(s)
    <3> HIDE DEF t
    <3> QED
      BY <2>1, MinOfNumbers, Zenon
  <2>3. Min(t) = Min(s)
    <3> HIDE DEF t
    <3>1. \A a, b \in Nat : a <= b /\ b <= a => a = b
      OBVIOUS
    <3>2. t \subseteq s
      BY DEF t
    <3>3. Min(s) \in Nat /\ Min(t) \in Nat /\ Min(s) <= Min(t)
      BY <1>1, <2>1, <2>2, <3>2, Zenon
    <3>4. QED
      BY <2>2, <3>1, <3>3
  <2>4. Verdict(cs, s, own) = Tell(cs[Min(s)], own)
    BY <2>1, <2>3 DEF Verdict
  <2>5. QED
    BY <1>2, <2>4, TellOf
<1>3. CASE ~Trouble(cs[Min(s)])
  <2>1. t = u
    BY <1>3
  <2>2. Verdict(cs, s, own) = Verdict(cs, s \ {Min(s)}, own)
    BY <2>1 DEF Verdict
  <2>3. QED
    BY <1>3, <2>2, TellOf
<1>4. QED
  BY <1>2, <1>3

\* Going through the containers from the last to the first comes to the verdict
\* of them all.
LEMMA FoldIsVerdict ==
  ASSUME NEW n \in Nat, NEW cs, DOMAIN cs = 1..n, NEW own
  PROVE  FoldRight(Tell, cs, own) = Verdict(cs, 1..n, own)
<1> DEFINE D == 1..n
           Step(f) == [s \in SUBSET D |->
                         IF s = {} THEN own ELSE Tell(cs[Min(s)], f[s \ {Min(s)}])]
           iter == CHOOSE f : f = Step(f)
           closed == [s \in SUBSET D |-> Verdict(cs, s, own)]
<1>1. FoldRight(Tell, cs, own) = iter[D]
  BY DEF FoldRight, MapThenFoldSet
<1>2. closed = Step(closed)
  <2>1. ASSUME NEW s \in SUBSET D, s # {}
        PROVE  closed[s] = Tell(cs[Min(s)], closed[s \ {Min(s)}])
    <3>1. s \subseteq Nat
      OBVIOUS
    <3>2. s \ {Min(s)} \in SUBSET D
      BY Zenon
    <3>3. QED
      BY <2>1, <3>1, <3>2, VerdictStep, Zenon
  <2>2. closed[{}] = own
    BY DEF Verdict
  <2>3. QED
    BY <2>1, <2>2, Zenon
<1>3. iter = Step(iter)
  <2> HIDE DEF closed, Step
  <2> QED
    BY <1>2
<1>4. iter[D] = closed[D]
  <2> HIDE DEF iter
  <2> DEFINE T == {s \in SUBSET D : iter[s] # closed[s]}
  <2> SUFFICES ASSUME T # {} PROVE FALSE
    OBVIOUS
  <2>1. T \subseteq FiniteSubsetsOf(D)
    BY FS_Interval, FS_FiniteSubsetsOfFinite, IsFiniteSet(D)
  <2>2. PICK x \in T : \A y \in T : ~ (<<y, x>> \in StrictSubsetOrdering(D))
    <3> HIDE DEF T
    <3> QED
      BY <2>1, WFMin, FS_StrictSubsetOrderingWellFounded
  <2>3. x \in SUBSET D /\ x \subseteq Nat
    OBVIOUS
  <2>4. iter[x] = IF x = {} THEN own ELSE Tell(cs[Min(x)], iter[x \ {Min(x)}])
    BY <1>3, <2>3, Zenon
  <2>5. closed[x] = IF x = {} THEN own ELSE Tell(cs[Min(x)], closed[x \ {Min(x)}])
    BY <1>2, <2>3, Zenon
  <2>6. x # {} /\ iter[x] # closed[x]
    BY <2>4, <2>5
  <2>7. Min(x) \in x
    BY <2>3, <2>6, MinOfNumbers
  <2>8. <<x \ {Min(x)}, x>> \in StrictSubsetOrdering(D) /\ x \ {Min(x)} \in SUBSET D
    BY <2>3, <2>7, Zenon DEF StrictSubsetOrdering
  <2>9. iter[x \ {Min(x)}] = closed[x \ {Min(x)}]
    BY <2>2, <2>8, Zenon
  <2>10. QED
    BY <2>4, <2>5, <2>6, <2>9
<1>5. QED
  BY <1>1, <1>4

\* What a container in trouble tells.
LEMMA TroubleTells ==
  ASSUME NEW c \in Container, Trouble(c), NEW own
  PROVE  Tell(c, own) = IF Ready(c) THEN "Stopped" ELSE c.state
<1>1. CASE c.state \in {"waiting", "terminated"}
  BY <1>1 DEF Tell, Ready
<1>2. CASE c.state \notin {"waiting", "terminated"}
  BY <1>2 DEF Tell, Ready, Trouble
<1>3. QED
  BY <1>1, <1>2

\* The status of a pod: what its first container in trouble tells, or its own.
LEMMA StatusOf ==
  ASSUME NEW pod \in Pod, ~pod.deleting
  PROVE  LET cs == pod.report.containers
             t == {i \in DOMAIN cs : Trouble(cs[i])}
         IN  /\ t = {} => PodStatus(pod) = OwnStatus(pod.report)
             /\ t # {} => PodStatus(pod) = IF Ready(cs[Min(t)]) THEN "Stopped" ELSE cs[Min(t)].state
             /\ t # {} => Min(t) \in DOMAIN cs /\ cs[Min(t)] \in Container /\ Trouble(cs[Min(t)])
<1> DEFINE cs == pod.report.containers
           t == {i \in DOMAIN cs : Trouble(cs[i])}
           own == OwnStatus(pod.report)
<1>1. cs \in Seq(Container)
  BY DEF Pod, Report, Container
<1>2. PICK n \in Nat : DOMAIN cs = 1..n
  BY <1>1
<1>3. PodStatus(pod) = Verdict(cs, DOMAIN cs, own)
  <2>1. PodStatus(pod) = FoldRight(Tell, cs, own)
    BY DEF PodStatus
  <2> HIDE DEF cs, own
  <2> QED
    BY <1>2, <2>1, FoldIsVerdict
<1>4. PodStatus(pod) = IF t = {} THEN own ELSE Tell(cs[Min(t)], own)
  BY <1>3 DEF Verdict
<1>5. ASSUME t # {}
      PROVE  Min(t) \in DOMAIN cs /\ cs[Min(t)] \in Container /\ Trouble(cs[Min(t)])
  <2>1. t \subseteq Nat
    BY <1>2
  <2>2. Min(t) \in t
    <3> HIDE DEF t
    <3> QED
      BY <1>5, <2>1, MinOfNumbers, Zenon
  <2>3. Min(t) \in DOMAIN cs /\ Trouble(cs[Min(t)])
    BY <2>2
  <2> HIDE DEF t, cs
  <2>4. QED
    BY <1>1, <2>3
<1>6. ASSUME t # {}
      PROVE  Tell(cs[Min(t)], own) = IF Ready(cs[Min(t)]) THEN "Stopped" ELSE cs[Min(t)].state
  BY <1>5, <1>6, TroubleTells
<1>7. QED
  BY <1>4, <1>5, <1>6

\* A status is one of those that the page can show.
LEMMA StatusType ==
  ASSUME NEW pod \in Pod
  PROVE  PodStatus(pod) \in Status
<1>1. CASE pod.deleting
  BY <1>1 DEF PodStatus, Status
<1>2. CASE ~pod.deleting
  <2> DEFINE cs == pod.report.containers
             t == {i \in DOMAIN cs : Trouble(cs[i])}
  <2>1. CASE t = {}
    <3>1. OwnStatus(pod.report) \in Status
      BY DEF OwnStatus, Pod, Report, Status
    <3>2. QED
      BY <1>2, <2>1, <3>1, StatusOf, Zenon
  <2>2. CASE t # {}
    <3>1. /\ cs[Min(t)] \in Container /\ Trouble(cs[Min(t)])
          /\ PodStatus(pod) = IF Ready(cs[Min(t)]) THEN "Stopped" ELSE cs[Min(t)].state
      BY <1>2, <2>2, StatusOf, Zenon
    <3> HIDE DEF t, cs
    <3>2. \A c \in Container : Trouble(c) => (IF Ready(c) THEN "Stopped" ELSE c.state) \in Status
      BY DEF Container, Trouble, Ready, Status
    <3>3. QED
      BY <3>1, <3>2
  <2>3. QED
    BY <2>1, <2>2
<1>3. QED
  BY <1>1, <1>2 DEF Pod

\* FirstTells of any pods that the namespace may have.
LEMMA StatusTells ==
  ASSUME \A p \in DOMAIN pods : pods[p] \in Pod
  PROVE  FirstTells
<1> SUFFICES ASSUME NEW p \in DOMAIN pods
             PROVE  LET row == genOnePod(p)
                        cs == pods[p].report.containers
                    IN  /\ ~pods[p].deleting /\ Troubled(p) # {} =>
                             row.status = (IF Ready(cs[Min(Troubled(p))]) THEN "Stopped" ELSE cs[Min(Troubled(p))].state)
                        /\ row.status = "Running" =>
                             pods[p].report.ready /\ ~pods[p].deleting /\ Troubled(p) = {}
  BY DEF FirstTells
<1> DEFINE pod == pods[p]
           cs == pod.report.containers
           t == {i \in DOMAIN cs : Trouble(cs[i])}
<1>1. pod \in Pod /\ Troubled(p) = t /\ genOnePod(p).status = PodStatus(pod)
  BY DEF Troubled, Trouble, genOnePod
<1>2. CASE pod.deleting
  BY <1>1, <1>2 DEF PodStatus
<1>3. CASE ~pod.deleting /\ t = {}
  <2>1. PodStatus(pod) = OwnStatus(pod.report)
    BY <1>1, <1>3, StatusOf, Zenon
  <2>2. OwnStatus(pod.report) = "Running" => pod.report.ready
    BY <1>1 DEF OwnStatus, Pod, Report
  <2>3. QED
    BY <1>1, <1>3, <2>1, <2>2
<1>4. CASE ~pod.deleting /\ t # {}
  <2>1. /\ PodStatus(pod) = IF Ready(cs[Min(t)]) THEN "Stopped" ELSE cs[Min(t)].state
        /\ cs[Min(t)] \in Container /\ Trouble(cs[Min(t)])
    BY <1>1, <1>4, StatusOf, Zenon
  <2>2. \A c \in Container : Trouble(c) => (IF Ready(c) THEN "Stopped" ELSE c.state) # "Running"
    BY DEF Container, Trouble, Ready
  <2>3. PodStatus(pod) # "Running"
    <3> HIDE DEF t, cs
    <3> QED
      BY <2>1, <2>2
  <2>4. QED
    BY <1>1, <1>4, <2>1, <2>3
<1>5. QED
  BY <1>1, <1>2, <1>3, <1>4 DEF Pod
-----------------------------------------------------------------------------
(***************************************************************************)
(* The inductive invariant. What the browser shows comes from a list that  *)
(* was made earlier: its rows are rows of pods that fit the query of that  *)
(* list, and a pod that has a node never leaves it, so that a pod that was *)
(* on the list still fits the node of the query, and its labels do not     *)
(* change at all.                                                          *)
(***************************************************************************)
RowOK(r) ==
  /\ r.name \in Pods
  /\ r.images \in Seq(PodImage)
  /\ r.status \in Status
  /\ r.host \in Hosts \union {NoHost}

\* The part of a query that no action makes obsolete.
Fits(p, h, q) == (q.selector => p \in Labelled) /\ (q.host # Blank => h = q.host)

RowHolds(r, q) ==
  /\ RowOK(r)
  /\ Fits(r.name, r.host, q)
  /\ Exists(r.name) /\ r.host # NoHost => pods[r.name].host = r.host

PodsOK == DOMAIN pods \subseteq Pods /\ \A p \in DOMAIN pods : pods[p] \in Pod

BrowserOK ==
  /\ DOMAIN browser = {"at", "query", "rows", "listed", "choices", "action", "selected", "acted"}
  /\ browser.at \in {"away", "list", "form", "redirect"}
  /\ browser.query \in Query
  /\ \A r \in browser.listed : RowOK(r)
  /\ browser.choices = GetPodsFilters(browser.listed)

RowsHold ==
  /\ browser.at = "list" =>
       /\ \E n \in Nat : DOMAIN browser.rows = 1..n /\ Len(browser.rows) = n
       /\ \A i \in DOMAIN browser.rows : RowHolds(browser.rows[i], browser.query)
  /\ browser.at = "form" =>
       /\ \E n \in Nat \ {0} : DOMAIN browser.selected = 1..n
       /\ \A i \in DOMAIN browser.selected : RowHolds(browser.selected[i], browser.query)
  /\ browser.at = "redirect" =>
       /\ browser.query.image = Blank /\ browser.query.status = Blank
       /\ \A p \in browser.acted : Exists(p) => Fits(p, pods[p].host, browser.query)

CountsOK == changes \in 0..MaxChanges /\ clicks \in 0..MaxClicks

IInv == PodsOK /\ BrowserOK /\ RowsHold /\ CountsOK

\* The row of a pod.
LEMMA RowOfPod ==
  ASSUME PodsOK, NEW p \in DOMAIN pods
  PROVE  /\ RowOK(genOnePod(p))
         /\ genOnePod(p).name = p /\ genOnePod(p).host = pods[p].host
<1>1. pods[p] \in Pod /\ p \in Pods
  BY DEF PodsOK
<1>2. /\ genOnePod(p).name = p /\ genOnePod(p).host = pods[p].host
      /\ genOnePod(p).images = pods[p].images /\ genOnePod(p).status = PodStatus(pods[p])
  BY DEF genOnePod
<1>3. PodStatus(pods[p]) \in Status
  BY <1>1, StatusType
<1>4. pods[p].images \in Seq(PodImage) /\ pods[p].host \in Hosts \union {NoHost}
  BY <1>1 DEF Pod
<1>5. QED
  BY <1>1, <1>2, <1>3, <1>4 DEF RowOK

\* A sorted list has all the rows and no other.
LEMMA SortedHasAll ==
  ASSUME NEW F, IsFiniteSet(F), NEW sort, NEW s \in Sorted(F, sort)
  PROVE  /\ \E n \in Nat : DOMAIN s = 1..n /\ Len(s) = n
         /\ \A i \in DOMAIN s : s[i] \in F
         /\ \A r \in F : \E i \in DOMAIN s : s[i] = r
<1> DEFINE n == Cardinality(F)
<1>1. n \in Nat /\ IsFiniteSet(1..n) /\ Cardinality(1..n) = n
  BY FS_CardinalityType, FS_Interval
<1>2. s \in [1..n -> F] /\ \A i, j \in 1..n : i # j => s[i] # s[j]
  BY DEF Sorted, SetToSeqs
<1>3. s \in Injection(1..n, F)
  BY <1>2 DEF Injection, IsInjective
<1>4. s \in Surjection(1..n, F)
  BY <1>1, <1>3, FS_Injection
<1>5. \A r \in F : \E i \in 1..n : s[i] = r
  BY <1>4 DEF Surjection
<1> HIDE DEF n
<1>6. s \in Seq(F)
  BY <1>1, <1>2
<1>7. QED
  BY <1>1, <1>2, <1>5, <1>6

\* The filters leave out rows and add none.
LEMMA FilteredSubset ==
  ASSUME NEW rows, NEW q
  PROVE  Filtered(rows, q) \subseteq rows
BY DEF Filtered, FilterPodsByImage, FilterPodsByStatus, FilterPodsByHost

\* The rows that a list is made from.
Listing(q) == {genOnePod(p) : p \in {p \in DOMAIN pods : q.selector => p \in Labelled}}

LEMMA ListingFinite ==
  ASSUME PodsOK, NEW q
  PROVE  IsFiniteSet(Filtered(Listing(q), q))
<1> DEFINE D == {p \in DOMAIN pods : q.selector => p \in Labelled}
           f == [p \in D |-> genOnePod(p)]
<1>1. D \in SUBSET Pods /\ IsFiniteSet(Pods)
  BY ConstantsAssumption DEF PodsOK
<1>2. IsFiniteSet(D)
  <2> HIDE DEF D
  <2> QED
    BY <1>1, FS_Subset
<1>3. f \in Surjection(D, Listing(q))
  BY DEF Surjection, Listing
<1>4. IsFiniteSet(Listing(q))
  <2> HIDE DEF D, f
  <2> QED
    BY <1>2, <1>3, FS_Surjection
<1>5. QED
  BY <1>4, FilteredSubset, FS_Subset

\* A list that has been made for query q.
LEMMA ListMade ==
  ASSUME IInv, NEW q \in Query, NEW acted, listPodsInNamespace(q, acted)
  PROVE  /\ PodsOK' /\ BrowserOK' /\ RowsHold'
         /\ \A r \in Filtered(Listing(q), q) : \E i \in DOMAIN browser'.rows : browser'.rows[i] = r
<1> DEFINE F == Filtered(Listing(q), q)
<1>1. PICK s \in Sorted(F, q.sort) :
        browser' = [Away EXCEPT !.at = "list", !.query = q, !.rows = s, !.listed = Listing(q),
                                !.choices = GetPodsFilters(Listing(q)), !.acted = acted]
  BY Zenon DEF listPodsInNamespace, Listing
<1>2. pods' = pods /\ PodsOK
  BY DEF listPodsInNamespace, IInv
<1>3. /\ browser'.at = "list" /\ browser'.query = q /\ browser'.rows = s
      /\ browser'.listed = Listing(q) /\ browser'.choices = GetPodsFilters(Listing(q))
      /\ DOMAIN browser' = {"at", "query", "rows", "listed", "choices", "action", "selected", "acted"}
  BY <1>1 DEF Away
<1>4. \A r \in Listing(q) : RowOK(r) /\ r.name \in DOMAIN pods /\ (q.selector => r.name \in Labelled)
                             /\ pods[r.name].host = r.host
  BY <1>2, RowOfPod DEF Listing
<1>5. BrowserOK'
  BY <1>3, <1>4 DEF BrowserOK, RowOK
<1>6. /\ \E n \in Nat : DOMAIN s = 1..n /\ Len(s) = n
      /\ \A i \in DOMAIN s : s[i] \in F
      /\ \A r \in F : \E i \in DOMAIN s : s[i] = r
  <2> HIDE DEF F
  <2>1. IsFiniteSet(F)
    BY <1>2, ListingFinite DEF F
  <2>2. QED
    BY <2>1, SortedHasAll
<1>7. \A r \in F : r \in Listing(q) /\ (q.host # Blank => r.host = q.host)
  BY FilteredSubset DEF Filtered, FilterPodsByHost
<1>8. \A i \in DOMAIN s : RowHolds(s[i], q)'
  <2> HIDE DEF F
  <2> QED
    BY <1>2, <1>4, <1>6, <1>7 DEF RowHolds, Fits, Exists, RowOK
<1>9. RowsHold'
  BY <1>3, <1>6, <1>8 DEF RowsHold
<1>10. QED
  <2>1. PodsOK'
    BY <1>2, ZenonT(30) DEF PodsOK
  <2>2. QED
    BY <1>3, <1>5, <1>6, <1>9, <2>1

\* Initially nothing is shown.
LEMMA InitIInv == Init => IInv
<1> SUFFICES ASSUME Init PROVE IInv
  OBVIOUS
<1>1. PodsOK
  BY ConstantsAssumption DEF Init, PodsOK
<1>2. BrowserOK
  BY DEF Init, Away, BrowserOK, AllPods, Query
<1>3. RowsHold
  BY DEF Init, Away, RowsHold
<1>4. CountsOK
  BY ConstantsAssumption DEF Init, CountsOK
<1>5. QED
  BY <1>1, <1>2, <1>3, <1>4 DEF IInv

\* A click counts.
LEMMA ClickCounts ==
  ASSUME CountsOK, Click, changes' = changes
  PROVE  CountsOK'
BY ConstantsAssumption DEF CountsOK, Click

\* The error page shows nothing.
LEMMA AwayOK ==
  ASSUME browser' = Away
  PROVE  BrowserOK' /\ RowsHold'
BY DEF Away, BrowserOK, RowsHold, AllPods, Query

LEMMA OpenListIInv ==
  ASSUME IInv, OpenList
  PROVE  IInv'
<1>1. PICK selector \in BOOLEAN : listPodsInNamespace(AllPods(selector), {})
  BY DEF OpenList
<1>2. AllPods(selector) \in Query
  BY DEF AllPods, Query
<1>3. CountsOK'
  BY <1>1, ClickCounts DEF IInv, OpenList, listPodsInNamespace
<1>4. QED
  BY <1>1, <1>2, <1>3, ListMade DEF IInv

\* The choices of a filter are of the right type for a query.
LEMMA ChoicesTyped ==
  ASSUME BrowserOK
  PROVE  /\ browser.choices.images \subseteq [name : Names, tag : Tags]
         /\ browser.choices.statuses \subseteq Status
         /\ browser.choices.hosts \subseteq Hosts \union {NoHost}
<1>1. \A r \in browser.listed : RowOK(r)
  BY DEF BrowserOK
<1>2. ASSUME NEW r \in browser.listed, NEW m \in ToSet(r.images), m # PauseImage
      PROVE  [name |-> m.name, tag |-> m.tag] \in [name : Names, tag : Tags]
  <2>1. m \in PodImage
    BY <1>1 DEF RowOK, ToSet
  <2>2. QED
    BY <1>2, <2>1 DEF PodImage
<1>3. browser.choices.images \subseteq [name : Names, tag : Tags]
  BY <1>2 DEF BrowserOK, GetPodsFilters
<1>4. QED
  BY <1>1, <1>3 DEF BrowserOK, GetPodsFilters, RowOK

LEMMA ChangeQueryIInv ==
  ASSUME IInv, ChangeQuery
  PROVE  IInv'
<1>1. BrowserOK /\ browser.query \in Query
  BY DEF IInv, BrowserOK
<1>2. PICK q :
        /\ listPodsInNamespace(q, {})
        /\ \/ q = browser.query
           \/ \E m \in browser.choices.images \union {Blank} : q = [browser.query EXCEPT !.image = m]
           \/ \E s \in browser.choices.statuses \union {Blank} : q = [browser.query EXCEPT !.status = s]
           \/ \E h \in browser.choices.hosts \union {Blank} :
                q = [browser.query EXCEPT !.host = IF h = NoHost THEN Blank ELSE h]
           \/ \E o \in {"ByName", "ByBirth"} : q = [browser.query EXCEPT !.sort = o]
  BY DEF ChangeQuery
<1>3. q \in Query
  <2>1. CASE \E m \in browser.choices.images \union {Blank} : q = [browser.query EXCEPT !.image = m]
    BY <1>1, <2>1, ChoicesTyped DEF Query
  <2>2. CASE \E s \in browser.choices.statuses \union {Blank} : q = [browser.query EXCEPT !.status = s]
    BY <1>1, <2>2, ChoicesTyped DEF Query
  <2>3. CASE \E h \in browser.choices.hosts \union {Blank} :
               q = [browser.query EXCEPT !.host = IF h = NoHost THEN Blank ELSE h]
    BY <1>1, <2>3, ChoicesTyped DEF Query
  <2>4. CASE \E o \in {"ByName", "ByBirth"} : q = [browser.query EXCEPT !.sort = o]
    BY <1>1, <2>4 DEF Query
  <2>5. QED
    BY <1>1, <1>2, <2>1, <2>2, <2>3, <2>4
<1>4. CountsOK'
  BY <1>2, ClickCounts DEF IInv, ChangeQuery, listPodsInNamespace
<1>5. QED
  BY <1>2, <1>3, <1>4, ListMade DEF IInv

LEMMA FollowRedirectIInv ==
  ASSUME IInv, FollowRedirect
  PROVE  IInv'
<1>1. browser.query \in Query /\ listPodsInNamespace(browser.query, browser.acted)
  BY DEF IInv, BrowserOK, FollowRedirect
<1>2. CountsOK'
  BY DEF IInv, CountsOK, FollowRedirect, listPodsInNamespace
<1>3. QED
  BY <1>1, <1>2, ListMade DEF IInv

LEMMA ErrorPageIInv ==
  ASSUME IInv, ErrorPage
  PROVE  IInv'
<1>1. PodsOK' /\ CountsOK'
  BY DEF IInv, ErrorPage, PodsOK, CountsOK
<1>2. QED
  BY <1>1, AwayOK DEF IInv, ErrorPage

\* The form has rows of the list, at least one.
LEMMA ShowPodsFormIInv ==
  ASSUME IInv, showPodsForm
  PROVE  IInv'
<1>1. PICK at \in Ticked(Len(browser.rows)), action \in {"upgrade", "sync", "stop"} :
        browser' = [browser EXCEPT !.at = "form", !.action = action, !.acted = {},
                                   !.rows = <<>>, !.listed = {}, !.choices = Away.choices,
                                   !.selected = [i \in DOMAIN at |-> browser.rows[at[i]]]]
  BY Zenon DEF showPodsForm
<1>2. /\ browser.at = "list" /\ pods' = pods /\ changes' = changes
      /\ PodsOK /\ BrowserOK /\ RowsHold
  BY DEF showPodsForm, IInv
<1>3. /\ browser'.at = "form" /\ browser'.query = browser.query /\ browser'.listed = {}
      /\ browser'.choices = Away.choices
      /\ browser'.selected = [i \in DOMAIN at |-> browser.rows[at[i]]]
      /\ DOMAIN browser' = DOMAIN browser
  BY <1>1, <1>2 DEF BrowserOK
<1>4. BrowserOK'
  BY <1>2, <1>3 DEF BrowserOK, Away
<1>5. PICK n \in Nat : DOMAIN browser.rows = 1..n /\ Len(browser.rows) = n
  BY <1>2 DEF RowsHold
<1>6. PICK m \in 1..n : at \in [1..m -> 1..n]
  BY <1>5 DEF Ticked
<1>7. m \in Nat \ {0} /\ DOMAIN browser'.selected = 1..m
  BY <1>3, <1>6
<1>8. \A i \in 1..m : RowHolds(browser.rows[at[i]], browser.query)
  BY <1>2, <1>5, <1>6 DEF RowsHold
<1>9. (\A i \in DOMAIN browser.selected : RowHolds(browser.selected[i], browser.query))'
  <2>1. \A r, q : RowHolds(r, q) => RowHolds(r, q)'
    BY <1>2 DEF RowHolds, RowOK, Fits, Exists
  <2>2. \A i \in 1..m : browser'.selected[i] = browser.rows[at[i]]
    BY <1>3, <1>6
  <2>3. \A i \in 1..m : RowHolds(browser'.selected[i], browser'.query)
    BY <1>3, <1>8, <2>2
  <2>4. QED
    BY <1>7, <2>1, <2>3
<1>10. RowsHold'
  BY <1>3, <1>7, <1>9 DEF RowsHold
<1>11. CountsOK'
  BY <1>2, ClickCounts DEF IInv, showPodsForm
<1>12. QED
  <2>1. PodsOK'
    BY <1>2, ZenonT(30) DEF PodsOK
  <2>2. QED
    BY <1>4, <1>10, <1>11, <2>1 DEF IInv

\* An upgrade writes images, one per container as before.
LEMMA SetPodImageType ==
  ASSUME NEW images \in Seq(PodImage), NEW c \in Posted
  PROVE  setPodImage(images, c) \in Seq(PodImage)
<1>1. \A i \in DOMAIN c : c[i] # Blank => c[i] \in [name : Names, tag : Tags]
  BY Zenon DEF Posted
<1>2. \A i \in DOMAIN images : setPodImage(images, c)[i] \in PodImage
  BY <1>1 DEF setPodImage, PodImage
<1>3. DOMAIN setPodImage(images, c) = DOMAIN images
  BY DEF setPodImage
<1>4. QED
  BY <1>2, <1>3 DEF setPodImage

\* What an action makes of the pods: it writes the images of some and changes
\* neither the nodes nor which pods there are.
LEMMA ActionWritesImages ==
  ASSUME IInv, performPodsAction
  PROVE  /\ PodsOK' /\ DOMAIN pods' = DOMAIN pods
         /\ \A p \in DOMAIN pods : pods'[p].host = pods[p].host
<1>1. PodsOK
  BY DEF IInv
<1>2. PICK stored \in (SUBSET (Selected \intersect DOMAIN pods)) \ {{}} :
        IF browser.action = "upgrade"
        THEN \E c \in Posted :
               pods' = [p \in DOMAIN pods |->
                          IF p \in stored THEN [pods[p] EXCEPT !.images = setPodImage(@, c)]
                                          ELSE pods[p]]
        ELSE \E list \in Lists :
               pods' = [p \in DOMAIN pods |->
                          IF p \in stored THEN [pods[p] EXCEPT !.images = list] ELSE pods[p]]
  BY SMTT(30) DEF performPodsAction
<1>3. \A p \in DOMAIN pods, list \in Seq(PodImage) :
        [pods[p] EXCEPT !.images = list] \in Pod /\ [pods[p] EXCEPT !.images = list].host = pods[p].host
  BY <1>1, Zenon DEF PodsOK, Pod
<1>4. CASE browser.action = "upgrade"
  <2>1. PICK c \in Posted :
          pods' = [p \in DOMAIN pods |->
                     IF p \in stored THEN [pods[p] EXCEPT !.images = setPodImage(pods[p].images, c)]
                                     ELSE pods[p]]
    BY <1>2, <1>4
  <2>2. \A p \in DOMAIN pods : setPodImage(pods[p].images, c) \in Seq(PodImage)
    BY <1>1, SetPodImageType DEF PodsOK, Pod
  <2>3. QED
    BY <1>1, <1>3, <2>1, <2>2, SMTT(30) DEF PodsOK
<1>5. CASE browser.action # "upgrade"
  <2>1. PICK list \in Lists :
          pods' = [p \in DOMAIN pods |->
                     IF p \in stored THEN [pods[p] EXCEPT !.images = list] ELSE pods[p]]
    BY <1>2, <1>5
  <2>2. list \in Seq(PodImage)
    BY ConstantsAssumption
  <2>3. QED
    BY <1>1, <1>3, <2>1, <2>2 DEF PodsOK
<1>6. QED
  BY <1>4, <1>5

\* The pods that an action was for still fit what the redirect asks for: a node
\* that a query asks for is never the blank one.
LEMMA PerformPodsActionIInv ==
  ASSUME IInv, performPodsAction
  PROVE  IInv'
<1>1. /\ PodsOK' /\ DOMAIN pods' = DOMAIN pods
      /\ \A p \in DOMAIN pods : pods'[p].host = pods[p].host
  BY ActionWritesImages
<1>2. CountsOK'
  <2>1. changes' = changes /\ clicks' = clicks
    BY SMTT(30) DEF performPodsAction
  <2>2. QED
    BY <2>1 DEF IInv, CountsOK
<1>3. PICK stored : /\ stored \subseteq Selected
                    /\ browser' = IF stored = Selected
                                  THEN [Away EXCEPT !.at = "redirect", !.acted = stored,
                                                    !.query = Location(browser.query)]
                                  ELSE Away
  BY Zenon DEF performPodsAction
<1>4. CASE browser' = Away
  BY <1>1, <1>2, <1>4, AwayOK DEF IInv
<1>5. CASE browser' = [Away EXCEPT !.at = "redirect", !.acted = stored,
                                   !.query = Location(browser.query)]
  <2> DEFINE q == browser.query
  <2>1. q \in Query /\ browser.at = "form" /\ RowsHold
    BY DEF IInv, BrowserOK, performPodsAction
  <2>2. /\ Location(q) \in Query /\ Location(q).image = Blank /\ Location(q).status = Blank
        /\ Location(q).host = q.host /\ Location(q).selector = q.selector
    BY <2>1, Zenon DEF Location, Query
  <2>3. /\ browser'.at = "redirect" /\ browser'.acted = stored /\ browser'.query = Location(q)
        /\ browser'.listed = {} /\ browser'.choices = GetPodsFilters({})
        /\ DOMAIN browser' = {"at", "query", "rows", "listed", "choices", "action", "selected", "acted"}
    BY <1>5 DEF Away
  <2>4. BrowserOK'
    BY <2>2, <2>3 DEF BrowserOK
  <2>5. ASSUME NEW p \in stored, p \in DOMAIN pods
        PROVE  Fits(p, pods[p].host, q)
    <3>1. PICK i \in DOMAIN browser.selected : browser.selected[i].name = p
      BY <1>3 DEF Selected
    <3>2. RowHolds(browser.selected[i], q)
      BY <2>1 DEF RowsHold
    <3>3. q.host # Blank => q.host # NoHost
      BY <2>1, ConstantsAssumption DEF Query
    <3>4. QED
      BY <2>5, <3>1, <3>2, <3>3 DEF RowHolds, Fits, Exists
  <2>6. (\A p \in browser.acted : Exists(p) => Fits(p, pods[p].host, browser.query))'
    BY <1>1, <2>2, <2>3, <2>5, SMTT(30) DEF Fits, Exists
  <2>7. RowsHold'
    BY <2>2, <2>3, <2>6 DEF RowsHold
  <2>8. QED
    BY <1>1, <1>2, <2>4, <2>7 DEF IInv
<1>6. QED
  BY <1>3, <1>4, <1>5, SMTT(30)

\* Others change a pod: it keeps its name and, once it has one, its node.
LEMMA ChangeKeepsHost ==
  ASSUME IInv, NEW p \in Pods, Change(p)
  PROVE  /\ PodsOK' /\ DOMAIN pods' \subseteq DOMAIN pods
         /\ \A q \in DOMAIN pods' : pods[q].host # NoHost => pods'[q].host = pods[q].host
<1>1. PodsOK /\ p \in DOMAIN pods /\ pods[p] \in Pod
  BY DEF IInv, PodsOK, Change, Exists
<1>2. ASSUME NEW pod \in Pod, pods' = [pods EXCEPT ![p] = pod], pods[p].host # NoHost => pod.host = pods[p].host
      PROVE  /\ PodsOK' /\ DOMAIN pods' \subseteq DOMAIN pods
             /\ \A q \in DOMAIN pods' : pods[q].host # NoHost => pods'[q].host = pods[q].host
  BY <1>1, <1>2 DEF PodsOK
<1>3. CASE \E report \in Reports : pods' = [pods EXCEPT ![p].report = report]
  <2>1. PICK report \in Reports : pods' = [pods EXCEPT ![p] = [pods[p] EXCEPT !.report = report]]
    BY <1>1, <1>3, Zenon
  <2>2. [pods[p] EXCEPT !.report = report] \in Pod /\ [pods[p] EXCEPT !.report = report].host = pods[p].host
    BY <1>1, ConstantsAssumption DEF Pod
  <2>3. QED
    BY <1>2, <2>1, <2>2, Zenon
<1>4. CASE \E list \in Lists : pods' = [pods EXCEPT ![p].images = list]
  <2>1. PICK list \in Lists : pods' = [pods EXCEPT ![p] = [pods[p] EXCEPT !.images = list]]
    BY <1>1, <1>4, Zenon
  <2>2. [pods[p] EXCEPT !.images = list] \in Pod /\ [pods[p] EXCEPT !.images = list].host = pods[p].host
    BY <1>1, ConstantsAssumption DEF Pod
  <2>3. QED
    BY <1>2, <2>1, <2>2, Zenon
<1>5. CASE pods[p].host = NoHost /\ \E h \in Hosts : pods' = [pods EXCEPT ![p].host = h]
  <2>1. PICK h \in Hosts : pods' = [pods EXCEPT ![p] = [pods[p] EXCEPT !.host = h]]
    BY <1>1, <1>5, Zenon
  <2>2. [pods[p] EXCEPT !.host = h] \in Pod
    BY <1>1 DEF Pod
  <2>3. QED
    BY <1>2, <1>5, <2>1, <2>2, Zenon
<1>6. CASE pods' = [pods EXCEPT ![p].deleting = TRUE]
  <2>1. pods' = [pods EXCEPT ![p] = [pods[p] EXCEPT !.deleting = TRUE]]
    BY <1>1, <1>6
  <2>2. [pods[p] EXCEPT !.deleting = TRUE] \in Pod /\ [pods[p] EXCEPT !.deleting = TRUE].host = pods[p].host
    BY <1>1, Zenon DEF Pod
  <2>3. QED
    BY <1>2, <2>1, <2>2, Zenon
<1>7. CASE pods' = [q \in DOMAIN pods \ {p} |-> pods[q]]
  BY <1>1, <1>7 DEF PodsOK
<1>8. QED
  BY <1>3, <1>4, <1>5, <1>6, <1>7 DEF Change

LEMMA ChangeIInv ==
  ASSUME IInv, NEW p \in Pods, Change(p)
  PROVE  IInv'
<1>1. /\ PodsOK' /\ DOMAIN pods' \subseteq DOMAIN pods
      /\ \A q \in DOMAIN pods' : pods[q].host # NoHost => pods'[q].host = pods[q].host
  BY ChangeKeepsHost
<1>2. browser' = browser /\ BrowserOK /\ RowsHold
  BY DEF Change, IInv
<1>3. CountsOK'
  BY ConstantsAssumption DEF Change, IInv, CountsOK
<1>4. BrowserOK'
  BY <1>2 DEF BrowserOK, RowOK
<1>5. \A r, q : RowHolds(r, q) => RowHolds(r, q)'
  BY <1>1 DEF RowHolds, RowOK, Fits, Exists
<1>6. ASSUME NEW q \in browser.acted, browser.at = "redirect", q \in DOMAIN pods'
      PROVE  Fits(q, pods'[q].host, browser.query)
  <2>1. q \in DOMAIN pods /\ Fits(q, pods[q].host, browser.query)
    BY <1>1, <1>2, <1>6 DEF RowsHold, Exists
  <2>2. browser.query.host # Blank => browser.query.host # NoHost
    BY <1>2, ConstantsAssumption DEF BrowserOK, Query
  <2>3. QED
    BY <1>1, <1>6, <2>1, <2>2 DEF Fits
<1>7. RowsHold'
  <2>1. (browser.at = "list" =>
           /\ \E n \in Nat : DOMAIN browser.rows = 1..n /\ Len(browser.rows) = n
           /\ \A i \in DOMAIN browser.rows : RowHolds(browser.rows[i], browser.query))'
    BY <1>2, <1>5 DEF RowsHold
  <2>2. (browser.at = "form" =>
           /\ \E n \in Nat \ {0} : DOMAIN browser.selected = 1..n
           /\ \A i \in DOMAIN browser.selected : RowHolds(browser.selected[i], browser.query))'
    BY <1>2, <1>5 DEF RowsHold
  <2>3. (browser.at = "redirect" =>
           /\ browser.query.image = Blank /\ browser.query.status = Blank
           /\ \A q \in browser.acted : Exists(q) => Fits(q, pods[q].host, browser.query))'
    BY <1>2, <1>6 DEF RowsHold, Exists, Fits
  <2>4. QED
    BY <2>1, <2>2, <2>3 DEF RowsHold
<1>8. QED
  BY <1>1, <1>3, <1>4, <1>7 DEF IInv

LEMMA StutterIInv ==
  ASSUME IInv, UNCHANGED vars
  PROVE  IInv'
<1>1. pods' = pods /\ browser' = browser /\ changes' = changes /\ clicks' = clicks
  BY DEF vars
<1>2. PodsOK' /\ BrowserOK' /\ CountsOK'
  BY <1>1, SMTT(30) DEF IInv, PodsOK, BrowserOK, RowOK, CountsOK
<1>3. RowsHold'
  BY <1>1 DEF IInv, RowsHold, RowHolds, RowOK, Fits, Exists
<1>4. QED
  BY <1>2, <1>3 DEF IInv

\* The invariant holds in every state.
LEMMA SpecIInv == Spec => []IInv
<1>1. Init => IInv
  BY InitIInv
<1>2. IInv /\ [Next]_vars => IInv'
  BY OpenListIInv, ChangeQueryIInv, FollowRedirectIInv, ErrorPageIInv, ShowPodsFormIInv, SMTT(30),
     PerformPodsActionIInv, ChangeIInv, StutterIInv DEF Next
<1>3. QED
  BY <1>1, <1>2, PTL DEF Spec
-----------------------------------------------------------------------------
\* The types hold of any number of pods, nodes and images: in particular a form
\* is never shown without a pod.
THEOREM TypesCorrect == Spec => []TypeOK
<1>1. IInv => TypeOK
  <2> SUFFICES ASSUME IInv PROVE TypeOK
    OBVIOUS
  <2>1. browser.at = "form" => browser.selected # <<>>
    BY DEF IInv, RowsHold
  <2>2. QED
    BY <2>1 DEF IInv, PodsOK, BrowserOK, CountsOK, TypeOK
<1>2. QED
  BY <1>1, SpecIInv, PTL

\* The status of every pod, with any number of containers, tells of the first
\* that waits, has ended or is stopped (genOnePod).
THEOREM StatusCorrect == Spec => []FirstTells
<1>1. IInv => FirstTells
  BY StatusTells DEF IInv, PodsOK
<1>2. QED
  BY <1>1, SpecIInv, PTL

\* Every choice that the filters of a list offer finds one of the pods that the
\* list was made from (GetPodsFilters, FilterPodsBy*).
THEOREM ChoicesCorrect == Spec => []ChoicesFind
<1>1. IInv => ChoicesFind
  <2> SUFFICES ASSUME IInv PROVE ChoicesFind
    OBVIOUS
  <2> DEFINE all == AllPods(FALSE)
             rows == browser.listed
  <2>1. browser.choices = GetPodsFilters(rows) /\ \A r \in rows : RowOK(r)
    BY DEF IInv, BrowserOK
  <2>2. ASSUME NEW m \in browser.choices.images
        PROVE  Filtered(rows, [all EXCEPT !.image = m]) # {}
    <3>1. PICK r \in rows : \E x \in ToSet(r.images) :
            x # PauseImage /\ x.private /\ m = [name |-> x.name, tag |-> x.tag]
      BY <2>1 DEF GetPodsFilters
    <3> PICK x \in ToSet(r.images) :
          x # PauseImage /\ x.private /\ m = [name |-> x.name, tag |-> x.tag]
      BY <3>1
    <3>2. x \in [name : Names, tag : Tags, private : BOOLEAN]
      BY <2>1 DEF RowOK, PodImage, ToSet
    <3>3. x = [name |-> m.name, tag |-> m.tag, private |-> TRUE]
      BY <3>2
    <3>4. r \in FilterPodsByImage(rows, m)
      BY <3>3 DEF FilterPodsByImage
    <3>5. QED
      BY <3>4 DEF Filtered, AllPods
  <2>3. ASSUME NEW t \in browser.choices.statuses
        PROVE  Filtered(rows, [all EXCEPT !.status = t]) # {}
    <3>1. PICK r \in rows : r.status = t
      BY <2>1 DEF GetPodsFilters
    <3>2. QED
      BY <3>1 DEF Filtered, AllPods, FilterPodsByStatus
  <2>4. ASSUME NEW h \in browser.choices.hosts
        PROVE  Filtered(rows, [all EXCEPT !.host = h]) # {}
    <3>1. PICK r \in rows : r.host = h
      BY <2>1 DEF GetPodsFilters
    <3>2. QED
      BY <3>1 DEF Filtered, AllPods, FilterPodsByHost
  <2>5. QED
    BY <2>2, <2>3, <2>4, Zenon DEF ChoicesFind
<1>2. QED
  BY <1>1, SpecIInv, PTL

\* The list that an action leads back to shows every pod it was for that still
\* exists (performPodsAction, listPodsInNamespace).
THEOREM RedirectCorrect == Spec => RedirectShowsActed
<1>1. ASSUME IInv, FollowRedirect
      PROVE  browser.acted \intersect DOMAIN pods \subseteq Shown'
  <2> DEFINE q == browser.query
  <2>1. /\ browser.at = "redirect" /\ q \in Query /\ PodsOK /\ RowsHold
        /\ listPodsInNamespace(q, browser.acted)
    BY <1>1 DEF IInv, BrowserOK, FollowRedirect
  <2>2. ASSUME NEW p \in browser.acted \intersect DOMAIN pods
        PROVE  genOnePod(p) \in Filtered(Listing(q), q)
    <3>1. q.image = Blank /\ q.status = Blank /\ Fits(p, pods[p].host, q)
      BY <2>1 DEF RowsHold, Exists
    <3>2. genOnePod(p) \in Listing(q) /\ (q.host # Blank => genOnePod(p).host = q.host)
      BY <2>1, <3>1, RowOfPod DEF Listing, Fits
    <3>3. QED
      BY <3>1, <3>2 DEF Filtered, FilterPodsByHost
  <2>3. \A r \in Filtered(Listing(q), q) : \E i \in DOMAIN browser'.rows : browser'.rows[i] = r
    BY <1>1, <2>1, ListMade
  <2>4. ASSUME NEW p \in browser.acted \intersect DOMAIN pods
        PROVE  p \in Shown'
    <3>1. PICK i \in DOMAIN browser'.rows : browser'.rows[i] = genOnePod(p)
      BY <2>2, <2>3
    <3>2. genOnePod(p).name = p
      BY <2>1, RowOfPod
    <3>3. QED
      BY <3>1, <3>2 DEF Shown
  <2>5. QED
    BY <2>4
<1>2. IInv /\ [Next]_vars =>
        [FollowRedirect => browser.acted \intersect DOMAIN pods \subseteq Shown']_vars
  BY <1>1, SMTT(30)
<1>3. QED
  BY <1>2, SpecIInv, PTL DEF Spec, RedirectShowsActed

\* What one upgrade does to the pods of its form, whatever else they list.
LEMMA UpgradeStep ==
  ASSUME IInv, performPodsAction, browser.action = "upgrade",
         NEW i \in DOMAIN browser.selected,
         Exists(browser.selected[i].name),
         browser.selected[i].images = pods[browser.selected[i].name].images,
         NEW k \in DOMAIN browser.selected[i].images
  PROVE  LET first == browser.selected[1].images
             old == browser.selected[i].images[k]
             new == pods'[browser.selected[i].name].images[k]
         IN  \/ new = old
             \/ PauseImage \in {old, first[k]}
             \/ first[k].name # old.name
             \/ ~old.private
             \/ new.name = old.name /\ new.private
<1> DEFINE first == browser.selected[1].images
           p == browser.selected[i].name
           images == browser.selected[i].images
           old == images[k]
           new == pods'[p].images[k]
<1>1. p \in DOMAIN pods /\ pods[p] \in Pod
  BY DEF IInv, PodsOK, Exists
<1> PICK stored : \E c \in Posted :
      pods' = [q \in DOMAIN pods |->
                 IF q \in stored THEN [pods[q] EXCEPT !.images = setPodImage(@, c)] ELSE pods[q]]
  BY Zenon DEF performPodsAction
<1>2. PICK c \in Posted :
        pods' = [q \in DOMAIN pods |->
                   IF q \in stored THEN [pods[q] EXCEPT !.images = setPodImage(pods[q].images, c)]
                                   ELSE pods[q]]
  BY Zenon
<1>3. pods'[p].images = IF p \in stored THEN setPodImage(images, c) ELSE images
  <2>1. pods[p].images = images
    OBVIOUS
  <2> HIDE DEF p, images
  <2>2. pods'[p] = IF p \in stored THEN [pods[p] EXCEPT !.images = setPodImage(images, c)] ELSE pods[p]
    BY <1>1, <1>2, <2>1, SMTT(30)
  <2>3. QED
    BY <1>1, <2>1, <2>2, SMTT(30) DEF Pod
<1>4. CASE k \in DOMAIN c /\ c[k] # Blank
  <2>1. first[k] # PauseImage => c[k].name = first[k].name
    BY <1>4, Zenon DEF Posted
  <2>2. setPodImage(images, c)[k] = [name |-> c[k].name, tag |-> c[k].tag, private |-> TRUE]
    BY <1>4 DEF setPodImage
  <2>3. CASE p \in stored
    <3>1. new = [name |-> c[k].name, tag |-> c[k].tag, private |-> TRUE]
      BY <1>3, <2>2, <2>3
    <3> HIDE DEF new, old, first
    <3>2. new.name = c[k].name /\ new.private
      BY <3>1, SMTT(30)
    <3>3. QED
      BY <2>1, <3>2, Zenon DEF new, old, first
  <2>4. CASE p \notin stored
    BY <1>3, <2>4, ZenonT(30)
  <2>5. QED
    BY <2>3, <2>4, Zenon
<1>5. CASE ~(k \in DOMAIN c /\ c[k] # Blank)
  <2>1. setPodImage(images, c)[k] = old
    BY <1>5 DEF setPodImage
  <2>2. QED
    BY <1>3, <2>1, ZenonT(30)
<1>6. QED
  BY <1>4, <1>5, Zenon

\* An upgrade keeps the names and the registry of the images it replaces, under
\* the conditions that UpgradeKeepsName lists (setPodImage).
THEOREM UpgradeCorrect == Spec => UpgradeKeepsName
<1>1. IInv /\ performPodsAction /\ browser.action = "upgrade" => NamesKept
  BY UpgradeStep, Zenon DEF NamesKept
<1>2. IInv /\ [Next]_vars => [performPodsAction /\ browser.action = "upgrade" => NamesKept]_vars
  BY <1>1, Zenon
<1>3. QED
  BY <1>2, SpecIInv, PTL DEF Spec, UpgradeKeepsName
=============================================================================
