-------------------------------- MODULE Pages -------------------------------
(***************************************************************************)
(* The pages that are put together from several calls to the API server:   *)
(* main.go, overview, listNodes, listEventsInNamespace,                    *)
(* listOthersInNamespace, describeNode and genNodes, with kubeclient.Get   *)
(* and GetAllPods. Each call is a step of its own and may fail; between    *)
(* two calls of one request the cluster changes, and updateConfig in       *)
(* another request may replace the client, so that the next call goes to   *)
(* another cluster. The handlers react to a failure in three ways: an      *)
(* error page, a page without the rows that the call was for, or a page    *)
(* with zeros.                                                             *)
(***************************************************************************)
EXTENDS Naturals, FiniteSets, SequencesExt

CONSTANTS
  Clusters,   \* the clusters that the configuration may name
  Namespaces, \* the namespaces, in the order of the API server's lists
  Nodes,      \* the nodes, likewise; their names are the same in all clusters
  Project,    \* the namespace that the label "project" of each node names
  Pods,       \* the names of the pods
  PodNamespace, \* the namespace of each pod
  Absent,     \* the place of a pod that does not exist
  Worlds,     \* the states that clusters may be in at first
  MaxChanges  \* bound on changes to the clusters and to the client

VARIABLES
  world,   \* the state of each cluster
  client,  \* kubeclient.kubeClient: the cluster it talks to
  changes, \* the number of changes so far
  req,     \* the request
  seen     \* the states of the client's cluster since the request came in

vars == <<world, client, changes, req, seen>>

World == [namespaces : SUBSET Range(Namespaces),
          nodes      : SUBSET Range(Nodes),
          pods       : [Pods -> Range(Nodes) \union {Absent}],
          events     : [Range(Namespaces) -> Nat]]

ASSUME ConstantsAssumption ==
  /\ Worlds \subseteq World
  /\ PodNamespace \in [Pods -> Range(Namespaces)]
  /\ Project \in [Range(Nodes) -> Range(Namespaces)]
  /\ Namespaces \in Seq(Range(Namespaces)) /\ IsInjective(Namespaces)
  /\ Absent \notin Range(Nodes)
  /\ IsFiniteSet(Pods)
  /\ MaxChanges \in Nat
-----------------------------------------------------------------------------
PodsIn(w, ns) == {p \in Pods : w.pods[p] # Absent /\ PodNamespace[p] = ns}

\* kube.FilterNodePods
PodsOn(w, node) == {p \in Pods : w.pods[p] = node}

Before(order, x, y) == \E i, j \in DOMAIN order : i < j /\ order[i] = x /\ order[j] = y

\* The lists of a set of names in the order of the API server, of which there is one.
Listed(order, set) ==
  {s \in SetToSeqs(set) : \A i, j \in DOMAIN s : i < j => Before(order, s[i], s[j])}

(***************************************************************************)
(* A request: its page and user, the next call, the names it still has to  *)
(* look at, the rows made so far, and the calls that failed, each with the *)
(* name it was for.                                                        *)
(***************************************************************************)
Requests ==
  [page : {"overview", "listNodes"}, user : {"admin"} \union Range(Namespaces), of : {""}]
    \union [page : {"nsInfo", "eventList"}, user : {"admin"} \union Range(Namespaces), of : Range(Namespaces)]
    \union [page : {"describeNode"}, user : {"admin"}, of : Range(Nodes)]

FirstCall == [overview |-> "namespaces", listNodes |-> "nodes", nsInfo |-> "rcs", eventList |-> "nsEvents",
              describeNode |-> "node"]

Started(r) == [page |-> r.page, user |-> r.user, of |-> r.of, call |-> FirstCall[r.page],
               todo |-> <<>>, podCount |-> 0, rows |-> <<>>, nodeCount |-> 0,
               failed |-> {}, answer |-> "none"]

Init ==
  /\ world \in [Clusters -> Worlds]
  /\ client \in Clusters
  /\ changes = 0
  /\ req \in {Started(r) : r \in Requests}
  /\ seen = {world[client]}

Calling(page, call) == req.page \in page /\ req.call = call /\ req.answer = "none"

Authorized ==
  /\ req.page = "listNodes" => req.user = "admin"
  /\ req.page \in {"nsInfo", "eventList"} => req.user \in {"admin", req.of}

Here == world[client]

Becomes(r) == req' = r /\ UNCHANGED <<world, client, changes, seen>>

\* c.HTML(http.StatusInternalServerError, ...) and return.
ErrorPage(what) == Becomes([req EXCEPT !.answer = "error", !.failed = @ \union {<<what, req.of>>}])

Respond(r) == Becomes([r EXCEPT !.answer = "page", !.call = "done"])
-----------------------------------------------------------------------------
Unauthorized ==
  /\ req.answer = "none" /\ req.call = FirstCall[req.page] /\ ~Authorized
  /\ ErrorPage("user")

\* overview: the namespaces, then the pods and events of each, then the nodes.
OverviewNamespaces ==
  /\ Calling({"overview"}, "namespaces")
  /\ \/ ErrorPage("namespaces")
     \/ \E s \in Listed(Namespaces, Here.namespaces) :
          Becomes([req EXCEPT !.call = "pods", !.todo = s])

\* Mutant: without the pods of a namespace the page is begun again.
OverviewPods_Retry ==
  /\ Calling({"overview"}, "pods") /\ req.todo # <<>>
  /\ \/ Becomes([req EXCEPT !.call = "namespaces", !.rows = <<>>])
     \/ Becomes([req EXCEPT !.call = "events",
                            !.podCount = Cardinality(PodsIn(Here, Head(req.todo)))])

\* Mutant: the row is kept, with the pods of the row before.
OverviewPods_Keep ==
  /\ Calling({"overview"}, "pods") /\ req.todo # <<>>
  /\ \/ Becomes([req EXCEPT !.call = "events"])
     \/ Becomes([req EXCEPT !.call = "events",
                            !.podCount = Cardinality(PodsIn(Here, Head(req.todo)))])

OverviewPods ==
  /\ Calling({"overview"}, "pods") /\ req.todo # <<>>
  /\ \/ Becomes([req EXCEPT !.todo = Tail(@),
                            !.failed = @ \union {<<"pods", Head(req.todo)>>}])
     \/ Becomes([req EXCEPT !.call = "events",
                            !.podCount = Cardinality(PodsIn(Here, Head(req.todo)))])

OverviewRow(events, failed) ==
  Becomes([req EXCEPT !.call = "pods", !.todo = Tail(@), !.failed = @ \union failed,
                      !.rows = Append(@, [of |-> Head(req.todo), pods |-> req.podCount,
                                          events |-> events])])

\* Mutant: a namespace without its events is left out.
OverviewEvents_Skip ==
  /\ Calling({"overview"}, "events")
  /\ \/ Becomes([req EXCEPT !.call = "pods", !.todo = Tail(@),
                            !.failed = @ \union {<<"events", Head(req.todo)>>}])
     \/ OverviewRow(Here.events[Head(req.todo)], {})

OverviewEvents ==
  /\ Calling({"overview"}, "events")
  /\ \/ OverviewRow(0, {<<"events", Head(req.todo)>>})
     \/ OverviewRow(Here.events[Head(req.todo)], {})

OverviewNodes ==
  /\ Calling({"overview"}, "pods") /\ req.todo = <<>>
  /\ \/ ErrorPage("nodes")
     \/ Respond([req EXCEPT !.nodeCount = Cardinality(Here.nodes)])
-----------------------------------------------------------------------------
listEventsInNamespace ==
  /\ Calling({"eventList"}, "nsEvents") /\ Authorized
  /\ ErrorPage("nsEvents") \/ Respond(req)

\* listOthersInNamespace: three lists that the page shows as they are.
Others ==
  \E step \in {<<"rcs", "svcs">>, <<"svcs", "eps">>, <<"eps", "nodes">>} :
    /\ Calling({"nsInfo"}, step[1]) /\ Authorized
    /\ \/ ErrorPage(step[1])
       \/ Becomes([req EXCEPT !.call = step[2]])

\* The nodes of listNodes, and those of listOthersInNamespace with their selector.
ListNodes ==
  /\ Calling({"listNodes", "nsInfo"}, "nodes") /\ Authorized
  /\ \/ ErrorPage("nodes")
     \/ LET nodes == {n \in Here.nodes : req.page = "nsInfo" => Project[n] = req.of}
        IN  \E s \in Listed(Nodes, nodes) : Becomes([req EXCEPT !.call = "allPods", !.todo = s])

\* A row for each node, with those of the pods got that are on it.
NodeRows(got) ==
  [i \in DOMAIN req.todo |-> [of |-> req.todo[i], pods |-> got \intersect PodsOn(Here, req.todo[i])]]

\* Mutant: GetAllPods is called for each node.
genNodes_PerNode ==
  /\ Calling({"listNodes", "nsInfo"}, "allPods")
  /\ IF req.todo = <<>>
       THEN Respond(req)
       ELSE Becomes([req EXCEPT !.todo = Tail(@),
                                !.rows = Append(@, [of |-> Head(req.todo),
                                                    pods |-> PodsOn(Here, Head(req.todo))])])

\* genNodes: the error of GetAllPods is ignored, which leaves all nodes without pods.
genNodes ==
  /\ Calling({"listNodes", "nsInfo"}, "allPods")
  /\ \/ Respond([req EXCEPT !.rows = NodeRows({}), !.failed = @ \union {<<"allPods", req.of>>}])
     \/ Respond([req EXCEPT !.rows = NodeRows(Pods)])
-----------------------------------------------------------------------------
\* describeNode: a node that is not there is an error like any other.
DescribeNode ==
  /\ Calling({"describeNode"}, "node")
  /\ \/ ErrorPage("node")
     \/ req.of \in Here.nodes /\ Becomes([req EXCEPT !.call = "allPods"])

DescribePods ==
  /\ Calling({"describeNode"}, "allPods")
  /\ \/ ErrorPage("allPods")
     \/ Becomes([req EXCEPT !.call = "nodeEvents",
                            !.rows = <<[of |-> req.of, pods |-> PodsOn(Here, req.of)]>>])

\* Mutant: without its events the node is not shown.
DescribeEvents_Error ==
  \/ /\ Calling({"describeNode"}, "nodeEvents")
     /\ ErrorPage("nodeEvents") \/ Becomes([req EXCEPT !.call = "events"])
  \/ /\ Calling({"describeNode"}, "events")
     /\ Respond(req)

\* Both lists of events are left out when they cannot be read.
DescribeEvents ==
  \/ /\ Calling({"describeNode"}, "nodeEvents")
     /\ \E failed \in SUBSET {<<"nodeEvents", req.of>>} :
          Becomes([req EXCEPT !.call = "events", !.failed = @ \union failed])
  \/ /\ Calling({"describeNode"}, "events")
     /\ \E failed \in SUBSET {<<"events", req.of>>} : Respond([req EXCEPT !.failed = @ \union failed])
-----------------------------------------------------------------------------
Handle ==
  \/ Unauthorized
  \/ OverviewNamespaces \/ OverviewPods \/ OverviewEvents \/ OverviewNodes
  \/ listEventsInNamespace \/ Others \/ ListNodes \/ genNodes
  \/ DescribeNode \/ DescribePods \/ DescribeEvents

Changing ==
  /\ changes < MaxChanges /\ req.answer = "none"
  /\ changes' = changes + 1
  /\ seen' = seen \union {world'[client']}
  /\ UNCHANGED req

\* A pod is created, deleted, or deleted and created again on another node.
MovePod ==
  /\ \E c \in Clusters, p \in Pods, place \in Range(Nodes) \union {Absent} :
       world[c].pods[p] # place /\ world' = [world EXCEPT ![c].pods[p] = place]
  /\ UNCHANGED client
  /\ Changing

\* A namespace or a node comes or goes; an event is recorded.
OtherChange ==
  /\ \E c \in Clusters :
       \/ \E ns \in Range(Namespaces) : world' = [world EXCEPT ![c].events[ns] = @ + 1]
       \/ \E n \in Range(Nodes) : world' = [world EXCEPT ![c].nodes = SymDiff(@, {n})]
       \/ \E ns \in Range(Namespaces) : world' = [world EXCEPT ![c].namespaces = SymDiff(@, {ns})]
  /\ UNCHANGED client
  /\ Changing

\* updateConfig in another request: kubeclient.Init replaces the client.
Switch ==
  /\ client' \in Clusters \ {client}
  /\ UNCHANGED world
  /\ Changing

Next == Handle \/ MovePod \/ OtherChange \/ Switch

\* Every call to the API server returns or fails in the end.
Spec == Init /\ [][Next]_vars /\ WF_vars(Handle)
-----------------------------------------------------------------------------
(***************************************************************************)
(* Every number on the overview was true at some moment of the request, in *)
(* the cluster that kubeclient talked to at that moment; only an event     *)
(* count may instead be the 0 that stands for a failed call.               *)
(***************************************************************************)
OverviewWasTrue ==
  req.page = "overview" =>
    /\ \A i \in DOMAIN req.rows : LET row == req.rows[i] IN
         /\ \E w \in seen : row.pods = Cardinality(PodsIn(w, row.of))
         /\ \/ row.events = 0 /\ <<"events", row.of>> \in req.failed
            \/ \E w \in seen : row.events = w.events[row.of]
    /\ req.answer = "page" => \E w \in seen : req.nodeCount = Cardinality(w.nodes)

(***************************************************************************)
(* The overview has one row, in order, for every namespace of one answer   *)
(* of the API server, and lacks only those whose pods could not be listed: *)
(* never one whose events could not.                                       *)
(***************************************************************************)
OverviewComplete ==
  req.page = "overview" /\ req.answer = "page" =>
    \E w \in seen :
      [i \in DOMAIN req.rows |-> req.rows[i].of]
        \in Listed(Namespaces, {ns \in w.namespaces : <<"pods", ns>> \notin req.failed})

(***************************************************************************)
(* The node rows of one page show the pods of one moment, so that a pod    *)
(* which is recreated elsewhere meanwhile is never counted on two nodes    *)
(* (genNodes asks once for all); or GetAllPods failed, and all rows are    *)
(* without pods.                                                           *)
(***************************************************************************)
NodesShowOneMoment ==
  req.page \in {"listNodes", "nsInfo", "describeNode"} /\ req.answer = "page" =>
    \/ <<"allPods", req.of>> \in req.failed /\ \A i \in DOMAIN req.rows : req.rows[i].pods = {}
    \/ \E w \in seen : \A i \in DOMAIN req.rows : req.rows[i].pods = PodsOn(w, req.rows[i].of)

\* The calls whose failures the pages are meant to hide.
Hidden == [overview |-> {"pods", "events"}, describeNode |-> {"nodeEvents", "events"},
           listNodes |-> {"allPods"}, nsInfo |-> {"allPods"}, eventList |-> {}]

(***************************************************************************)
(* A page hides only the failures it is meant to: those of single rows on  *)
(* the overview, of the pods in a list of nodes, and of the events of a    *)
(* node; each of them alone never costs the user the page.                 *)
(***************************************************************************)
HidesOnly ==
  LET hidden == {f \in req.failed : f[1] \in Hidden[req.page]}
  IN  /\ req.answer = "page" => Authorized /\ req.failed = hidden
      /\ req.answer = "error" => req.failed # hidden

\* Every request is answered, whatever fails and changes meanwhile.
Answered == <>(req.answer # "none")
=============================================================================
