---------------------------- MODULE NodeResources ---------------------------
(***************************************************************************)
(* What the node pages say of a node's resources: main.go, describeNode    *)
(* and genOneNode with computeNodeResources, computePodsResources,         *)
(* computePodResources; pkg/kube/util.go, FilterNodePods,                  *)
(* FilterTerminatedPods, GetPodsTotalRequestsAndLimits,                    *)
(* GetSinglePodTotalRequestsAndLimits; pages/nodeTable.html.               *)
(*                                                                         *)
(* A resource.Quantity is a struct with a POINTER to its amount, and Add   *)
(* changes the amount in place. The totals are right only because value,   *)
(* a copy of the struct in the map, shares its amount with the map, and    *)
(* because Copy keeps the amounts of the pods out of it: the same pods are *)
(* summed several times while a page is made. So the amounts live in a     *)
(* heap here.                                                              *)
(***************************************************************************)
EXTENDS Integers, FiniteSetsExt, SequencesExt

CONSTANTS
  Nodes,      \* the nodes, in the order of the page
  Kinds,      \* what is summed: the requests and limits of cpu and memory
  Containers, \* what containers may ask for: partial functions on Kinds
  MaxPods,    \* bound on the number of pods
  MaxInPod,   \* bound on the number of containers in a pod
  Capacity,   \* the capacity that each node reports of each kind
  PodCapacity \* the number of pods that each node reports to have room for

VARIABLES
  pods,   \* the answer of GetAllPods, as the API server sent it
  heap,   \* the amounts that the pods' quantities point to
  page,   \* the page: "describeNode" or "listNodes"
  todo,   \* the rows still to be made
  shown,  \* the rows made so far
  answer  \* "none", "page" or "error"

vars == <<pods, heap, page, todo, shown, answer>>

\* Amounts are in the unit MilliValue counts in, both formats alike.
Ask == [format : {"decimal", "binary"}, amount : Nat]

Pod == [node : Range(Nodes), terminated : BOOLEAN, containers : Seq(Containers)]

ASSUME ConstantsAssumption ==
  /\ Nodes \in Seq(Range(Nodes)) /\ IsFiniteSet(Kinds)
  /\ MaxPods \in Nat /\ MaxInPod \in Nat
  /\ \A c \in Containers : DOMAIN c \subseteq Kinds /\ \A k \in DOMAIN c : c[k] \in Ask
  /\ Capacity \in [Range(Nodes) -> [Kinds -> Nat]]
  /\ PodCapacity \in [Range(Nodes) -> Nat]
-----------------------------------------------------------------------------
(***************************************************************************)
(* resource.Quantity: its format and where its amount is. The amount of    *)
(* kind k that container c of pod p asks for is at <<p, c, k>>; those of   *)
(* copies follow at <<0, n, k>>.                                           *)
(***************************************************************************)
Quantities(p, c) ==
  [k \in DOMAIN pods[p].containers[c] |->
     [format |-> pods[p].containers[c][k].format, at |-> <<p, c, k>>]]

Decoded(list) ==
  [a \in {a \in (1..MaxPods) \X (1..MaxInPod) \X Kinds :
            /\ a[1] \in DOMAIN list
            /\ a[2] \in DOMAIN list[a[1]].containers
            /\ a[3] \in DOMAIN list[a[1]].containers[a[2]]} |->
     list[a[1]].containers[a[2]][a[3]].amount]

\* A map of totals while it is filled, and whether there was no error.
Sum(h) == [heap |-> h, totals |-> <<>>, ok |-> TRUE]

\* A map, or the heap, with one more entry.
Put(f, x, v) == [y \in DOMAIN f \union {x} |-> IF y = x THEN v ELSE f[y]]

Copy(sum, k, q) ==
  LET at == <<0, Cardinality(DOMAIN sum.heap), k>>
  IN  [sum EXCEPT !.heap = Put(@, at, sum.heap[q.at]),
                  !.totals = Put(@, k, [format |-> q.format, at |-> at])]

\* value.Add(quantity): an error when the formats differ.
Add(sum, value, q) ==
  IF value.format # q.format
    THEN [sum EXCEPT !.ok = FALSE]
    ELSE [sum EXCEPT !.heap[value.at] = @ + sum.heap[q.at]]

\* Mutant: the first quantity is taken into the map as it is.
AddOne_NoCopy(sum, k, q) ==
  IF k \in DOMAIN sum.totals THEN Add(sum, sum.totals[k], q)
                             ELSE [sum EXCEPT !.totals = Put(@, k, q)]

\* One turn of the loops over a map of quantities.
AddOne(sum, k, q) ==
  IF k \in DOMAIN sum.totals THEN Add(sum, sum.totals[k], q) ELSE Copy(sum, k, q)

AddAll(sum, quantities) ==
  FoldSet(LAMBDA k, s : IF s.ok THEN AddOne(s, k, quantities[k]) ELSE s,
          sum, DOMAIN quantities)

GetSinglePodTotalRequestsAndLimits(h, p) ==
  FoldLeft(LAMBDA s, c : AddAll(s, Quantities(p, c)),
           Sum(h), [c \in DOMAIN pods[p].containers |-> c])

\* Mutant: a pod that cannot be summed is left out.
GetPodsTotalRequestsAndLimits_Skip(h, list) ==
  FoldLeft(LAMBDA s, p : LET pod == GetSinglePodTotalRequestsAndLimits(s.heap, p)
                         IN  IF s.ok /\ pod.ok
                               THEN AddAll([s EXCEPT !.heap = pod.heap], pod.totals) ELSE s,
           Sum(h), list)

\* One turn of the loop over the pods.
AddPod(s, p) ==
  LET pod == GetSinglePodTotalRequestsAndLimits(s.heap, p)
  IN  CASE ~s.ok -> s
        [] s.ok /\ ~pod.ok -> [s EXCEPT !.ok = FALSE]
        [] s.ok /\ pod.ok -> AddAll([s EXCEPT !.heap = pod.heap], pod.totals)

GetPodsTotalRequestsAndLimits(h, list) == FoldLeft(AddPod, Sum(h), list)
-----------------------------------------------------------------------------
\* The loops append the pods in P to their result.
Picked(list, P) ==
  FoldLeft(LAMBDA result, p : IF p \in P THEN Append(result, p) ELSE result, <<>>, list)

FilterNodePods(node) ==
  Picked([p \in DOMAIN pods |-> p], {p \in DOMAIN pods : pods[p].node = node})

Terminated(list) == Picked(list, {p \in DOMAIN pods : pods[p].terminated})

NonTerminated(list) == Picked(list, {p \in DOMAIN pods : ~pods[p].terminated})

(***************************************************************************)
(* int64(float64(x) / float64(capacity) * 100). Without a capacity this    *)
(* converts NaN or an infinity, which gives the least int64 on amd64: a    *)
(* negative number. Otherwise the two roundings may take a percentage that *)
(* is a whole number to just below it (0.29 * 100), except for a whole     *)
(* multiple of the capacity, where both steps are exact.                   *)
(* They take none up to the next whole number as long as 100 times the     *)
(* total is below 2^52 thousandths (45 GB of memory, any CPU); larger ones *)
(* are left out.                                                           *)
(***************************************************************************)
Indefinite == -1

\* Mutant: the division is one of integers.
Fraction_Integer(x, capacity) ==
  {IF capacity = 0 THEN Indefinite ELSE (x \div capacity) * 100}

Fraction(x, capacity) ==
  IF capacity = 0
    THEN {Indefinite}
    ELSE LET whole == (100 * x) \div capacity
         IN  {whole} \union
             (IF whole * capacity = 100 * x /\ x % capacity # 0 THEN {whole - 1} ELSE {})

\* A quantity that is missing in the map is nil, and shows as 0.
Total(sum, k) == IF k \in DOMAIN sum.totals THEN sum.heap[sum.totals[k].at] ELSE 0

(***************************************************************************)
(* A row: "pod" and "node" are page.Resources, made by computePodResources *)
(* and computeNodeResources; "list" is the row of genOnePod, without       *)
(* percentages. An error leaves the zero value. label is the colour that   *)
(* pages/nodeTable.html gives the number of pods, FractionPods.            *)
(***************************************************************************)
Label(fraction) ==
  CASE fraction <= 50 -> "success"
    [] fraction > 50 /\ fraction <= 80 -> "warning"
    [] fraction > 80 -> "danger"

Zero == [k \in Kinds |-> 0]

Fractions(task, sum, totals) ==
  IF ~sum.ok \/ task.part = "list"
    THEN {Zero}
    ELSE LET of(k) == Fraction(totals[k], Capacity[task.node][k])
         IN  {f \in [Kinds -> UNION {of(k) : k \in Kinds}] : \A k \in Kinds : f[k] \in of(k)}

Labels(node) ==
  {Label(f) : f \in Fraction(Len(FilterNodePods(node)), PodCapacity[node])}

Rows(task, sum) ==
  LET totals == IF sum.ok THEN [k \in Kinds |-> Total(sum, k)] ELSE Zero
  IN  [part : {task.part}, pods : {task.pods}, node : {task.node}, ok : {sum.ok},
       totals : {totals}, fractions : Fractions(task, sum, totals), label : Labels(task.node)]
-----------------------------------------------------------------------------
Task(part, list, node) == [part |-> part, pods |-> list, node |-> node]

Each(part, list, node) == [i \in DOMAIN list |-> Task(part, <<list[i]>>, node)]

\* The order of describeNode: each pod, the node, and the table of its pods.
DescribeTasks(list, node) ==
  Each("pod", NonTerminated(list), node) \o Each("pod", Terminated(list), node)
    \o <<Task("node", NonTerminated(list), node)>> \o Each("list", list, node)

\* genNodes: one set of pods for all nodes.
ListTasks ==
  [i \in DOMAIN Nodes |-> Task("node", NonTerminated(FilterNodePods(Nodes[i])), Nodes[i])]

Init ==
  /\ pods \in UNION {[1..n -> [node : Range(Nodes), terminated : BOOLEAN,
                              containers : UNION {[1..m -> Containers] : m \in 1..MaxInPod}]] :
                     n \in 1..MaxPods}
  /\ heap = Decoded(pods)
  /\ shown = <<>>
  /\ answer = "none"
  /\ \/ page = "listNodes" /\ todo = ListTasks
     \/ page = "describeNode"
        /\ \E node \in Range(Nodes) : todo = DescribeTasks(FilterNodePods(node), node)

\* The row is made and its totals are turned into text: the copies are done with.
MakeRow(sum) ==
  /\ \E row \in Rows(Head(todo), sum) : shown' = Append(shown, row)
  /\ heap' = [at \in DOMAIN heap |-> sum.heap[at]]
  /\ todo' = Tail(todo)
  /\ UNCHANGED <<pods, page, answer>>

\* computePodResources, and the sums in genOnePod: an error is logged or ignored.
PodRow ==
  /\ todo # <<>> /\ Head(todo).part \in {"pod", "list"}
  /\ MakeRow(GetSinglePodTotalRequestsAndLimits(heap, Head(todo).pods[1]))

\* computeNodeResources: genOneNode ignores its error, describeNode does not.
NodeRow ==
  LET sum == GetPodsTotalRequestsAndLimits(heap, Head(todo).pods)
  IN  /\ todo # <<>> /\ Head(todo).part = "node"
      /\ sum.ok \/ page = "listNodes"
      /\ MakeRow(sum)

NodeError ==
  LET sum == GetPodsTotalRequestsAndLimits(heap, Head(todo).pods)
  IN  /\ todo # <<>> /\ Head(todo).part = "node"
      /\ ~sum.ok /\ page = "describeNode"
      /\ todo' = <<>>
      /\ answer' = "error"
      /\ UNCHANGED <<pods, heap, page, shown>>

Respond ==
  /\ todo = <<>> /\ answer = "none"
  /\ answer' = "page"
  /\ UNCHANGED <<pods, heap, page, todo, shown>>

Next == PodRow \/ NodeRow \/ NodeError \/ Respond

Spec == Init /\ [][Next]_vars
-----------------------------------------------------------------------------
\* What the pods in list ask for of kind k.
Asks(list, k) ==
  {a \in Range(list) \X (1..MaxInPod) \X {k} :
     a[2] \in DOMAIN pods[a[1]].containers /\ k \in DOMAIN pods[a[1]].containers[a[2]]}

AskedAt(a) == pods[a[1]].containers[a[2]][a[3]]

Asked(list, k) == MapThenSumSet(LAMBDA a : AskedAt(a).amount, Asks(list, k))

Mixed(list) ==
  \E k \in Kinds : \E a, b \in Asks(list, k) : AskedAt(a).format # AskedAt(b).format

(***************************************************************************)
(* Every total that a page shows is the sum of what the API server said    *)
(* the containers ask for, no matter which sums were made before it for    *)
(* the same page; where formats are mixed, so that Add fails, the row is   *)
(* the zero value and never a sum of some of the pods.                     *)
(***************************************************************************)
TotalsRight ==
  \A i \in DOMAIN shown : LET row == shown[i] IN
    /\ row.ok = ~Mixed(row.pods)
    /\ \A k \in Kinds : row.totals[k] = IF row.ok THEN Asked(row.pods, k) ELSE 0

(***************************************************************************)
(* describeNode ignores an error of a single pod's sum, but its page never *)
(* shows a live pod as asking for nothing because of one: the sum over the *)
(* node, made of the same pods, fails as well and turns the page into an   *)
(* error. A row that hides an error is of a terminated pod.                *)
(***************************************************************************)
HiddenErrorsAreTerminated ==
  answer = "page" /\ page = "describeNode"
    => \A i \in DOMAIN shown : ~shown[i].ok => \A p \in Range(shown[i].pods) : pods[p].terminated

(***************************************************************************)
(* A percentage never overstates, understates by less than two points, and *)
(* reaches 100 exactly when the total reaches the capacity; a node that    *)
(* runs as many pods as it has room for is red, one at most half full is   *)
(* green. Only without a capacity do the pages show a meaningless number.  *)
(* (The totals are small enough for float64, see Fraction.)                *)
(***************************************************************************)
FullShowsFull ==
  \A i \in DOMAIN shown : LET row == shown[i] IN
    /\ row.ok /\ row.part # "list" => \A k \in Kinds :
         LET capacity == Capacity[row.node][k]
             f == row.fractions[k]
         IN  capacity > 0 => /\ f * capacity <= 100 * row.totals[k]
                             /\ 100 * row.totals[k] < (f + 2) * capacity
                             /\ f >= 100 <=> row.totals[k] >= capacity
    /\ LET count == Len(FilterNodePods(row.node))
           room == PodCapacity[row.node]
       IN  room > 0 => /\ count >= room => row.label = "danger"
                       /\ 2 * count <= room => row.label = "success"
=============================================================================
