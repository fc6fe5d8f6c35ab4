----------------------------- MODULE PagesProofs ----------------------------
(***************************************************************************)
(* Proofs about Pages, for any clusters, namespaces, nodes and pods, and   *)
(* any number of changes while a request is handled.                       *)
(*                                                                         *)
(* The inductive invariant says when the user has been authorized and what *)
(* has been hidden so far while a request is still being handled, and that *)
(* the rows of describeNode, which are made two calls before its answer,   *)
(* stay true of a moment of the request.                                   *)
(***************************************************************************)
EXTENDS Pages, FiniteSetTheorems, SequenceTheorems, TLAPS

PageNames == {"overview", "listNodes", "nsInfo", "eventList", "describeNode"}

ReqFields == {"page", "user", "of", "call", "todo", "podCount", "rows", "nodeCount", "failed", "answer"}

\* The request is a record with the fields of Started.
Shape ==
  /\ DOMAIN req = ReqFields /\ req = [f \in ReqFields |-> req[f]]
  /\ req.page \in PageNames /\ req.answer \in {"none", "page", "error"}

IsHidden(f) == f[1] \in Hidden[req.page]

HiddenSoFar ==
  /\ req.answer \in {"none", "page"} => \A f \in req.failed : IsHidden(f)
  /\ req.answer = "error" => \E f \in req.failed : ~IsHidden(f)
  /\ req.answer = "page" \/ req.call = "allPods" => Authorized

RowsTrue == \E w \in seen : \A i \in DOMAIN req.rows : req.rows[i].pods = PodsOn(w, req.rows[i].of)

RowsSoFar ==
  /\ world[client] \in seen
  /\ req.page = "describeNode" /\ req.call \in {"nodeEvents", "events", "done"} => RowsTrue

IInv == Shape /\ HiddenSoFar /\ RowsSoFar /\ NodesShowOneMoment
-----------------------------------------------------------------------------
LEMMA HiddenCalls ==
  /\ Hidden["overview"] = {"pods", "events"} /\ Hidden["describeNode"] = {"nodeEvents", "events"}
  /\ Hidden["listNodes"] = {"allPods"} /\ Hidden["nsInfo"] = {"allPods"}
  /\ Hidden["eventList"] = {}
BY DEF Hidden

LEMMA InitIInv == Init => IInv
<1> SUFFICES ASSUME Init PROVE IInv
  OBVIOUS
<1>1. PICK r \in Requests : req = Started(r)
  BY DEF Init
<1>2. r.page \in PageNames
  BY DEF Requests, PageNames
<1>3. Shape /\ req.failed = {} /\ req.answer = "none" /\ req.call = FirstCall[req.page]
  BY <1>1, <1>2 DEF Started, Shape, ReqFields
<1>4. req.call \in {"namespaces", "nodes", "rcs", "nsEvents", "node"}
  BY <1>3 DEF Shape, PageNames, FirstCall
<1>5. HiddenSoFar
  BY <1>3, <1>4 DEF HiddenSoFar
<1>6. RowsSoFar /\ NodesShowOneMoment
  BY <1>3, <1>4 DEF RowsSoFar, NodesShowOneMoment, Init
<1>7. QED
  BY <1>3, <1>5, <1>6 DEF IInv

\* The cluster or the client changes: the request does not, and no moment is forgotten.
LEMMA ChangingIInv == IInv /\ Changing => IInv'
<1> SUFFICES ASSUME IInv, Changing PROVE IInv'
  OBVIOUS
<1>1. req' = req /\ seen \subseteq seen' /\ world'[client'] \in seen'
  BY DEF Changing
<1>2. Shape' /\ HiddenSoFar'
  BY <1>1 DEF IInv, Shape, HiddenSoFar, IsHidden, Authorized
<1>3. RowsTrue => RowsTrue'
  BY <1>1 DEF RowsTrue
<1>4. RowsSoFar'
  BY <1>1, <1>3 DEF IInv, RowsSoFar
<1>5. NodesShowOneMoment'
  BY <1>1 DEF IInv, NodesShowOneMoment
<1>6. QED
  BY <1>2, <1>4, <1>5 DEF IInv

(***************************************************************************)
(* An error page names a call whose failure is not hidden.                 *)
(***************************************************************************)
LEMMA ErrorIInv ==
  ASSUME IInv, req.answer = "none", NEW what, what \notin Hidden[req.page], ErrorPage(what),
         req.page = "describeNode" => req.call \notin {"nodeEvents", "events", "done"}
  PROVE  IInv'
<1>1. /\ req'.page = req.page /\ req'.call = req.call /\ req'.user = req.user /\ req'.of = req.of
      /\ req'.answer = "error" /\ req'.failed = req.failed \union {<<what, req.of>>}
      /\ DOMAIN req' = ReqFields /\ req' = [f \in ReqFields |-> req'[f]]
      /\ UNCHANGED <<world, client, seen>>
  BY DEF IInv, Shape, ReqFields, ErrorPage, Becomes
<1>2. Shape'
  BY <1>1 DEF IInv, Shape
<1>3. HiddenSoFar'
  <2> DEFINE f == <<what, req.of>>
  <2>1. f[1] = what /\ f \in req'.failed
    BY <1>1
  <2>2. ~(f[1] \in Hidden[req'.page])
    BY <1>1, <2>1
  <2>3. Authorized' = Authorized
    BY <1>1 DEF Authorized
  <2>4. QED
    BY <1>1, <2>2, <2>3 DEF IInv, HiddenSoFar, IsHidden
<1>4. RowsSoFar' /\ NodesShowOneMoment'
  BY <1>1 DEF IInv, RowsSoFar, NodesShowOneMoment
<1>5. QED
  BY <1>2, <1>3, <1>4 DEF IInv

(***************************************************************************)
(* A step to the next call, or to the page, that hides at most what it may *)
(* and makes no rows, or rows that are true now.                           *)
(***************************************************************************)
LEMMA StepIInv ==
  ASSUME IInv, req.answer = "none", UNCHANGED <<world, client, seen>>,
         Shape', req'.page = req.page, req'.user = req.user, req'.of = req.of,
         req'.answer \in {"none", "page"},
         \A f \in req'.failed \ req.failed : f[1] \in Hidden[req.page],
         req'.answer = "page" \/ req'.call = "allPods" => Authorized,
         req.page = "describeNode" /\ req'.call \in {"nodeEvents", "events", "done"} => RowsTrue',
         NodesShowOneMoment'
  PROVE  IInv'
<1>1. HiddenSoFar'
  <2>1. \A f \in req'.failed : f[1] \in Hidden[req'.page]
    BY DEF IInv, HiddenSoFar, IsHidden
  <2>2. Authorized' = Authorized
    BY DEF Authorized
  <2>3. QED
    BY <2>1, <2>2 DEF HiddenSoFar, IsHidden
<1>2. RowsSoFar'
  BY DEF IInv, RowsSoFar
<1>3. QED
  BY <1>1, <1>2 DEF IInv
-----------------------------------------------------------------------------
\* The overview makes no rows of nodes.
LEMMA OverviewStep ==
  ASSUME IInv, req.page = "overview", req.answer = "none",
         UNCHANGED <<world, client, seen>>, Shape',
         req'.page = req.page, req'.user = req.user, req'.of = req.of,
         req'.answer \in {"none", "page"},
         \A f \in req'.failed \ req.failed : f[1] \in {"pods", "events"}
  PROVE  IInv'
<1>1. Authorized
  BY DEF Authorized
<1>2. NodesShowOneMoment'
  BY DEF NodesShowOneMoment
<1>3. QED
  BY <1>1, <1>2, HiddenCalls, StepIInv

LEMMA OverviewError ==
  ASSUME IInv, req.page = "overview", req.answer = "none",
         NEW what \in {"namespaces", "nodes"}, ErrorPage(what)
  PROVE  IInv'
<1>1. what \notin {"pods", "events"}
  OBVIOUS
<1>2. what \notin Hidden[req.page]
  BY <1>1, HiddenCalls
<1>3. QED
  BY <1>2, ErrorIInv

LEMMA OverviewIInv ==
  IInv /\ (OverviewNamespaces \/ OverviewPods \/ OverviewEvents \/ OverviewNodes) => IInv'
<1> SUFFICES ASSUME IInv, OverviewNamespaces \/ OverviewPods \/ OverviewEvents \/ OverviewNodes
             PROVE  IInv'
  OBVIOUS
<1>1. req.page = "overview" /\ req.answer = "none" /\ Shape
  BY DEF IInv, OverviewNamespaces, OverviewPods, OverviewEvents, OverviewNodes, Calling
<1>2. ASSUME NEW what \in {"namespaces", "nodes"}, ErrorPage(what) PROVE IInv'
  BY <1>1, <1>2, OverviewError
<1>3. CASE OverviewNamespaces
  <2>1. ASSUME NEW s, Becomes([req EXCEPT !.call = "pods", !.todo = s]) PROVE IInv'
    <3>1. /\ req'.page = req.page /\ req'.user = req.user /\ req'.of = req.of
          /\ req'.answer = "none" /\ req'.failed = req.failed
          /\ Shape' /\ UNCHANGED <<world, client, seen>>
      BY <1>1, <2>1 DEF Shape, ReqFields, Becomes
    <3>2. QED
      BY <1>1, <3>1, OverviewStep
  <2>2. QED
    BY <1>2, <1>3, <2>1 DEF OverviewNamespaces
<1>4. CASE OverviewPods
  <2>1. /\ req'.page = req.page /\ req'.user = req.user /\ req'.of = req.of
        /\ req'.answer = "none" /\ req'.failed \ req.failed \subseteq {<<"pods", Head(req.todo)>>}
        /\ Shape' /\ UNCHANGED <<world, client, seen>>
    <3>1. CASE Becomes([req EXCEPT !.todo = Tail(@), !.failed = @ \union {<<"pods", Head(req.todo)>>}])
      BY <1>1, <3>1 DEF Shape, ReqFields, Becomes
    <3>2. ASSUME NEW n, Becomes([req EXCEPT !.call = "events", !.podCount = n])
          PROVE  /\ req'.page = req.page /\ req'.user = req.user /\ req'.of = req.of
                 /\ req'.answer = "none" /\ req'.failed = req.failed
                 /\ Shape' /\ UNCHANGED <<world, client, seen>>
      BY <1>1, <3>2 DEF Shape, ReqFields, Becomes
    <3>3. QED
      BY <1>4, <3>1, <3>2 DEF OverviewPods
  <2>2. \A f \in req'.failed \ req.failed : f[1] \in {"pods", "events"}
    BY <2>1
  <2>3. QED
    BY <1>1, <2>1, <2>2, OverviewStep
<1>5. CASE OverviewEvents
  <2>1. PICK events, failed : OverviewRow(events, failed) /\ failed \subseteq {<<"events", Head(req.todo)>>}
    <3>1. CASE OverviewRow(0, {<<"events", Head(req.todo)>>})
      BY <3>1
    <3>2. CASE OverviewRow(Here.events[Head(req.todo)], {})
      BY <3>2
    <3>3. QED
      BY <1>5, <3>1, <3>2 DEF OverviewEvents
  <2> DEFINE row == [of |-> Head(req.todo), pods |-> req.podCount, events |-> events]
  <2> HIDE DEF row
  <2>2. Becomes([req EXCEPT !.call = "pods", !.todo = Tail(@), !.failed = @ \union failed,
                            !.rows = Append(@, row)])
    BY <2>1 DEF OverviewRow, row
  <2>3. /\ req'.page = req.page /\ req'.user = req.user /\ req'.of = req.of
        /\ req'.answer = "none" /\ req'.failed \ req.failed \subseteq {<<"events", Head(req.todo)>>}
        /\ Shape' /\ UNCHANGED <<world, client, seen>>
    BY <1>1, <2>1, <2>2 DEF Shape, ReqFields, Becomes
  <2>4. \A f \in req'.failed \ req.failed : f[1] \in {"pods", "events"}
    BY <2>3
  <2>5. QED
    BY <1>1, <2>3, <2>4, OverviewStep
<1>6. CASE OverviewNodes
  <2>1. CASE Respond([req EXCEPT !.nodeCount = Cardinality(Here.nodes)])
    <3>1. /\ req'.page = req.page /\ req'.user = req.user /\ req'.of = req.of
          /\ req'.answer = "page" /\ req'.failed = req.failed
          /\ Shape' /\ UNCHANGED <<world, client, seen>>
      BY <1>1, <2>1 DEF Shape, ReqFields, Respond, Becomes
    <3>2. QED
      BY <1>1, <3>1, OverviewStep
  <2>2. QED
    BY <1>2, <1>6, <2>1 DEF OverviewNodes
<1>7. QED
  BY <1>3, <1>4, <1>5, <1>6
-----------------------------------------------------------------------------
LEMMA UnauthorizedIInv == IInv /\ Unauthorized => IInv'
<1> SUFFICES ASSUME IInv, Unauthorized PROVE IInv'
  OBVIOUS
<1>1. req.answer = "none" /\ req.call = FirstCall[req.page] /\ ErrorPage("user") /\ req.page \in PageNames
  BY DEF Unauthorized, IInv, Shape
<1>2. "user" \notin Hidden[req.page]
  BY <1>1, HiddenCalls DEF PageNames
<1>3. req.page = "describeNode" => req.call = "node"
  BY <1>1 DEF FirstCall
<1>4. QED
  BY <1>1, <1>2, <1>3, ErrorIInv

LEMMA EventsIInv == IInv /\ listEventsInNamespace => IInv'
<1> SUFFICES ASSUME IInv, listEventsInNamespace PROVE IInv'
  OBVIOUS
<1>1. req.page = "eventList" /\ req.answer = "none" /\ req.call = "nsEvents" /\ Authorized
  BY DEF listEventsInNamespace, Calling
<1>2. CASE ErrorPage("nsEvents")
  BY <1>1, <1>2, HiddenCalls, ErrorIInv
<1>3. CASE Respond(req)
  <2>1. /\ req'.page = req.page /\ req'.user = req.user /\ req'.of = req.of /\ req'.rows = req.rows
        /\ req'.answer = "page" /\ req'.failed = req.failed
        /\ Shape' /\ UNCHANGED <<world, client, seen>>
    BY <1>1, <1>3 DEF IInv, Shape, ReqFields, Respond, Becomes
  <2>2. NodesShowOneMoment'
    BY <1>1, <2>1 DEF NodesShowOneMoment
  <2>3. QED
    BY <1>1, <2>1, <2>2, StepIInv
<1>4. QED
  BY <1>2, <1>3 DEF listEventsInNamespace

\* The lists before the rows: an error page, or the next call.
LEMMA ListIInv ==
  ASSUME IInv, req.page \in {"listNodes", "nsInfo"}, req.answer = "none", Authorized,
         NEW what \in {"rcs", "svcs", "eps", "nodes"}, NEW next, NEW todo,
         ErrorPage(what) \/ Becomes([req EXCEPT !.call = next, !.todo = todo])
  PROVE  IInv'
<1>1. CASE ErrorPage(what)
  <2>1. what # "allPods"
    OBVIOUS
  <2>2. what \notin Hidden[req.page]
    BY <2>1, HiddenCalls
  <2>3. QED
    BY <1>1, <2>2, ErrorIInv
<1>2. CASE Becomes([req EXCEPT !.call = next, !.todo = todo])
  <2>1. /\ req'.page = req.page /\ req'.user = req.user /\ req'.of = req.of
        /\ req'.answer = "none" /\ req'.failed = req.failed
        /\ Shape' /\ UNCHANGED <<world, client, seen>>
    BY <1>2 DEF IInv, Shape, ReqFields, Becomes
  <2>2. NodesShowOneMoment'
    BY <2>1 DEF NodesShowOneMoment
  <2>3. QED
    BY <2>1, <2>2, StepIInv
<1>3. QED
  BY <1>1, <1>2

LEMMA OthersIInv == IInv /\ Others => IInv'
<1> SUFFICES ASSUME IInv, Others PROVE IInv'
  OBVIOUS
<1>1. PICK step \in {<<"rcs", "svcs">>, <<"svcs", "eps">>, <<"eps", "nodes">>} :
        /\ Calling({"nsInfo"}, step[1]) /\ Authorized
        /\ ErrorPage(step[1]) \/ Becomes([req EXCEPT !.call = step[2]])
  BY DEF Others
<1>2. step[1] \in {"rcs", "svcs", "eps", "nodes"}
  OBVIOUS
<1>3. Becomes([req EXCEPT !.call = step[2]]) => Becomes([req EXCEPT !.call = step[2], !.todo = req.todo])
  <2>1. [req EXCEPT !.call = step[2]] = [req EXCEPT !.call = step[2], !.todo = req.todo]
    BY DEF IInv, Shape, ReqFields
  <2>2. QED
    BY <2>1
<1>4. req.page = "nsInfo" /\ req.answer = "none"
  BY <1>1 DEF Calling
<1>5. QED
  BY <1>1, <1>2, <1>3, <1>4, ListIInv

LEMMA ListNodesIInv == IInv /\ ListNodes => IInv'
<1> SUFFICES ASSUME IInv, ListNodes PROVE IInv'
  OBVIOUS
<1>1. req.page \in {"listNodes", "nsInfo"} /\ req.answer = "none" /\ Authorized
  BY DEF ListNodes, Calling
<1>2. PICK todo : ErrorPage("nodes") \/ Becomes([req EXCEPT !.call = "allPods", !.todo = todo])
  BY Zenon DEF ListNodes
<1>3. QED
  BY <1>1, <1>2, ListIInv

LEMMA GenNodesIInv == IInv /\ genNodes => IInv'
<1> SUFFICES ASSUME IInv, genNodes PROVE IInv'
  OBVIOUS
<1>1. /\ req.page \in {"listNodes", "nsInfo"} /\ req.answer = "none" /\ req.call = "allPods"
      /\ Shape /\ Authorized /\ Here \in seen
  BY SMTT(30) DEF genNodes, Calling, IInv, HiddenSoFar, RowsSoFar, Here
<1>2. PICK rows, failed :
        /\ Respond([req EXCEPT !.rows = rows, !.failed = failed])
        /\ \/ failed = req.failed \union {<<"allPods", req.of>>} /\ \A i \in DOMAIN rows : rows[i].pods = {}
           \/ failed = req.failed /\ \A i \in DOMAIN rows : rows[i].pods = PodsOn(Here, rows[i].of)
  <2>1. CASE Respond([req EXCEPT !.rows = NodeRows({}), !.failed = @ \union {<<"allPods", req.of>>}])
    <3> DEFINE rows == NodeRows({})
    <3>1. \A i \in DOMAIN rows : rows[i].pods = {}
      BY SMTT(30) DEF NodeRows
    <3> HIDE DEF rows
    <3>2. QED
      BY <2>1, <3>1 DEF rows
  <2>2. CASE Respond([req EXCEPT !.rows = NodeRows(Pods)])
    <3> DEFINE rows == NodeRows(Pods)
    <3>1. \A i \in DOMAIN rows : rows[i].pods = PodsOn(Here, rows[i].of)
      BY DEF NodeRows, PodsOn
    <3>2. Respond([req EXCEPT !.rows = rows, !.failed = req.failed])
      <4> HIDE DEF rows
      <4>1. [req EXCEPT !.rows = rows] = [req EXCEPT !.rows = rows, !.failed = req.failed]
        BY <1>1 DEF Shape, ReqFields
      <4>2. QED
        BY <2>2, <4>1 DEF rows
    <3> HIDE DEF rows
    <3>3. QED
      BY <3>1, <3>2
  <2>3. QED
    BY <2>1, <2>2, ZenonT(30) DEF genNodes
<1>3. /\ req'.page = req.page /\ req'.user = req.user /\ req'.of = req.of
      /\ req'.answer = "page" /\ req'.failed = failed /\ req'.rows = rows
      /\ Shape' /\ UNCHANGED <<world, client, seen>>
  BY <1>1, <1>2 DEF Shape, ReqFields, Respond, Becomes
<1>4. NodesShowOneMoment'
  BY <1>1, <1>2, <1>3 DEF NodesShowOneMoment
<1>5. \A f \in req'.failed \ req.failed : f[1] = "allPods"
  BY <1>2, <1>3
<1>6. QED
  BY <1>1, <1>3, <1>4, <1>5, HiddenCalls, StepIInv
-----------------------------------------------------------------------------
LEMMA DescribeError ==
  ASSUME IInv, req.page = "describeNode", req.answer = "none", req.call \in {"node", "allPods"},
         ErrorPage(req.call)
  PROVE  IInv'
<1>1. req.call \notin {"nodeEvents", "events", "done"}
  OBVIOUS
<1>2. req.call \notin Hidden[req.page]
  BY <1>1, HiddenCalls
<1>3. QED
  BY <1>1, <1>2, ErrorIInv

LEMMA DescribeNodeIInv == IInv /\ DescribeNode => IInv'
<1> SUFFICES ASSUME IInv, DescribeNode PROVE IInv'
  OBVIOUS
<1>1. req.page = "describeNode" /\ req.answer = "none" /\ req.call = "node" /\ Authorized
  BY DEF DescribeNode, Calling, Authorized
<1>2. CASE ErrorPage("node")
  BY <1>1, <1>2, DescribeError
<1>3. CASE Becomes([req EXCEPT !.call = "allPods"])
  <2>1. /\ req'.page = req.page /\ req'.user = req.user /\ req'.of = req.of
        /\ req'.call = "allPods" /\ req'.answer = "none" /\ req'.failed = req.failed
        /\ Shape' /\ UNCHANGED <<world, client, seen>>
    BY <1>1, <1>3 DEF IInv, Shape, ReqFields, Becomes
  <2>2. NodesShowOneMoment'
    BY <2>1 DEF NodesShowOneMoment
  <2>3. QED
    BY <1>1, <2>1, <2>2, StepIInv
<1>4. QED
  BY <1>2, <1>3 DEF DescribeNode

\* The one row is made from the pods of this moment.
LEMMA DescribePodsIInv == IInv /\ DescribePods => IInv'
<1> SUFFICES ASSUME IInv, DescribePods PROVE IInv'
  OBVIOUS
<1>1. /\ req.page = "describeNode" /\ req.answer = "none" /\ req.call = "allPods"
      /\ Authorized /\ Here \in seen
  BY DEF DescribePods, Calling, Authorized, IInv, RowsSoFar, Here
<1>2. CASE ErrorPage("allPods")
  BY <1>1, <1>2, DescribeError
<1> DEFINE rows == <<[of |-> req.of, pods |-> PodsOn(Here, req.of)]>>
<1>3. \A i \in DOMAIN rows : rows[i].pods = PodsOn(Here, rows[i].of)
  OBVIOUS
<1> HIDE DEF rows
<1>4. CASE Becomes([req EXCEPT !.call = "nodeEvents", !.rows = rows])
  <2>1. /\ req'.page = req.page /\ req'.user = req.user /\ req'.of = req.of
        /\ req'.call = "nodeEvents" /\ req'.answer = "none" /\ req'.failed = req.failed
        /\ req'.rows = rows /\ Shape' /\ UNCHANGED <<world, client, seen>>
    BY <1>1, <1>4, ZenonT(30) DEF IInv, Shape, ReqFields, Becomes
  <2>2. NodesShowOneMoment' /\ RowsTrue'
    BY <1>1, <1>3, <2>1 DEF NodesShowOneMoment, RowsTrue
  <2>3. QED
    BY <1>1, <2>1, <2>2, StepIInv
<1>5. QED
  BY <1>2, <1>4 DEF DescribePods, rows

\* The events change no row.
LEMMA DescribeEventsIInv == IInv /\ DescribeEvents => IInv'
<1> SUFFICES ASSUME IInv, DescribeEvents PROVE IInv'
  OBVIOUS
<1>1. req.page = "describeNode" /\ req.answer = "none" /\ req.call \in {"nodeEvents", "events"} /\ Shape
  BY DEF DescribeEvents, Calling, IInv
<1>2. Authorized /\ RowsTrue
  BY <1>1, SMTT(30) DEF Authorized, IInv, RowsSoFar
<1>3. PICK failed \in SUBSET {<<"nodeEvents", req.of>>, <<"events", req.of>>} :
        \/ Becomes([req EXCEPT !.call = "events", !.failed = @ \union failed])
        \/ Respond([req EXCEPT !.failed = @ \union failed])
  BY DEF DescribeEvents
<1>4. /\ req'.page = req.page /\ req'.user = req.user /\ req'.of = req.of /\ req'.rows = req.rows
      /\ req'.answer \in {"none", "page"} /\ req'.failed = req.failed \union failed
      /\ req'.call \in {"events", "done"} /\ Shape' /\ UNCHANGED <<world, client, seen>>
  <2>1. CASE Becomes([req EXCEPT !.call = "events", !.failed = @ \union failed])
    BY <1>1, <2>1 DEF Shape, ReqFields, Becomes
  <2>2. CASE Respond([req EXCEPT !.failed = @ \union failed])
    BY <1>1, <2>2 DEF Shape, ReqFields, Respond, Becomes
  <2>3. QED
    BY <1>3, <2>1, <2>2
<1>5. RowsTrue' /\ NodesShowOneMoment'
  BY <1>2, <1>4 DEF RowsTrue, NodesShowOneMoment
<1>6. \A f \in req'.failed \ req.failed : f[1] \in {"nodeEvents", "events"}
  BY <1>3, <1>4
<1>7. QED
  BY <1>1, <1>2, <1>4, <1>5, <1>6, HiddenCalls, StepIInv, SMTT(30)
-----------------------------------------------------------------------------
LEMMA NextIInv == IInv /\ [Next]_vars => IInv'
<1> SUFFICES ASSUME IInv, [Next]_vars PROVE IInv'
  OBVIOUS
<1>1. CASE Handle
  BY <1>1, UnauthorizedIInv, OverviewIInv, EventsIInv, OthersIInv, ListNodesIInv, GenNodesIInv,
     DescribeNodeIInv, DescribePodsIInv, DescribeEventsIInv, SMTT(30) DEF Handle
<1>2. CASE MovePod \/ OtherChange \/ Switch
  BY <1>2, ChangingIInv DEF MovePod, OtherChange, Switch
<1>3. CASE UNCHANGED vars
  BY <1>3 DEF vars, IInv, Shape, HiddenSoFar, IsHidden, Authorized, RowsSoFar, RowsTrue, NodesShowOneMoment
<1>4. QED
  BY <1>1, <1>2, <1>3 DEF Next

LEMMA SpecIInv == Spec => []IInv
BY InitIInv, NextIInv, PTL DEF Spec

(***************************************************************************)
(* overview, listNodes, listOthersInNamespace and describeNode hide only   *)
(* the failures they are meant to, and none of those costs the page,       *)
(* however many names there are and whatever changes between the calls.    *)
(***************************************************************************)
THEOREM OnlyMeantHidden == Spec => []HidesOnly
<1>1. IInv => HidesOnly
  BY DEF IInv, HiddenSoFar, IsHidden, HidesOnly
<1>2. QED
  BY <1>1, SpecIInv, PTL

(***************************************************************************)
(* The rows that genNodes and describeNode make show the pods of one       *)
(* moment of the request, for any number of nodes and pods.                *)
(***************************************************************************)
THEOREM OneMoment == Spec => []NodesShowOneMoment
<1>1. IInv => NodesShowOneMoment
  BY DEF IInv
<1>2. QED
  BY <1>1, SpecIInv, PTL
-----------------------------------------------------------------------------
(***************************************************************************)
(* The numbers of the overview were true. A row is made of two calls, so   *)
(* the inductive invariant speaks of the number of pods that the request   *)
(* remembers from the first of them.                                       *)
(***************************************************************************)
\* Every row made so far was true.
RowWasTrue(row) ==
  /\ \E w \in seen : row.pods = Cardinality(PodsIn(w, row.of))
  /\ \/ row.events = 0 /\ <<"events", row.of>> \in req.failed
     \/ \E w \in seen : row.events = w.events[row.of]

OInv ==
  req.page = "overview" =>
    /\ \E S : req.rows \in Seq(S)
    /\ req.call = "events" => \E w \in seen : req.podCount = Cardinality(PodsIn(w, Head(req.todo)))
    /\ \A i \in DOMAIN req.rows : RowWasTrue(req.rows[i])
    /\ req.answer = "page" => \E w \in seen : req.nodeCount = Cardinality(w.nodes)

LEMMA InitOInv == Init => OInv
<1> SUFFICES ASSUME Init PROVE OInv
  OBVIOUS
<1>1. PICK r \in Requests : req = Started(r)
  BY DEF Init
<1>2. /\ req.rows = <<>> /\ req.answer = "none"
      /\ req.page = "overview" => req.call = "namespaces"
  BY <1>1 DEF Started, FirstCall
<1>3. req.rows \in Seq({}) /\ DOMAIN req.rows = {}
  BY <1>2
<1>4. QED
  BY <1>2, <1>3 DEF OInv

(***************************************************************************)
(* A step that makes no row keeps those that there are, if no moment and   *)
(* no failure is forgotten.                                                *)
(***************************************************************************)
LEMMA KeepsRows ==
  ASSUME OInv, req'.page = req.page, req'.rows = req.rows,
         seen \subseteq seen', req.failed \subseteq req'.failed,
         req.page = "overview" /\ req'.call = "events" =>
           \E w \in seen' : req'.podCount = Cardinality(PodsIn(w, Head(req'.todo))),
         req.page = "overview" /\ req'.answer = "page" =>
           \E w \in seen' : req'.nodeCount = Cardinality(w.nodes)
  PROVE  OInv'
<1>1. ASSUME NEW row, RowWasTrue(row) PROVE RowWasTrue(row)'
  BY <1>1 DEF RowWasTrue
<1>2. QED
  BY <1>1 DEF OInv

\* An error page, and a change of the clusters or the client, make no row.
LEMMA ErrorOInv ==
  ASSUME IInv, OInv, req.answer = "none", NEW what, ErrorPage(what)
  PROVE  OInv'
<1>1. /\ req'.page = req.page /\ req'.rows = req.rows /\ req'.call = req.call
      /\ req'.podCount = req.podCount /\ req'.todo = req.todo /\ req'.answer = "error"
      /\ req.failed \subseteq req'.failed /\ seen' = seen
  BY DEF IInv, Shape, ReqFields, ErrorPage, Becomes
<1>2. QED
  BY <1>1, KeepsRows DEF OInv

LEMMA ChangingOInv == OInv /\ Changing => OInv'
<1> SUFFICES ASSUME OInv, Changing PROVE OInv'
  OBVIOUS
<1>1. req' = req /\ seen \subseteq seen'
  BY DEF Changing
<1>2. QED
  BY <1>1, KeepsRows DEF OInv

LEMMA NamespacesOInv == IInv /\ OInv /\ OverviewNamespaces => OInv'
<1> SUFFICES ASSUME IInv, OInv, OverviewNamespaces PROVE OInv'
  OBVIOUS
<1>1. req.page = "overview" /\ req.answer = "none" /\ Shape
  BY DEF OverviewNamespaces, Calling, IInv
<1>2. ASSUME NEW s, Becomes([req EXCEPT !.call = "pods", !.todo = s]) PROVE OInv'
  <2>1. /\ req'.page = req.page /\ req'.rows = req.rows /\ req'.call = "pods"
        /\ req'.answer = "none" /\ req'.failed = req.failed /\ seen' = seen
    BY <1>1, <1>2 DEF Shape, ReqFields, Becomes
  <2>2. QED
    BY <2>1, KeepsRows
<1>3. QED
  BY <1>1, <1>2, ErrorOInv DEF OverviewNamespaces

\* The number of pods is that of the cluster at this moment, which is seen.
LEMMA PodsOInv == IInv /\ OInv /\ OverviewPods => OInv'
<1> SUFFICES ASSUME IInv, OInv, OverviewPods PROVE OInv'
  OBVIOUS
<1>1. /\ req.page = "overview" /\ req.answer = "none" /\ req.call = "pods"
      /\ Shape /\ Here \in seen
  BY DEF OverviewPods, Calling, IInv, RowsSoFar, Here
<1>2. CASE Becomes([req EXCEPT !.todo = Tail(@), !.failed = @ \union {<<"pods", Head(req.todo)>>}])
  <2>1. /\ req'.page = req.page /\ req'.rows = req.rows /\ req'.call = "pods"
        /\ req'.answer = "none" /\ req.failed \subseteq req'.failed /\ seen' = seen
    BY <1>1, <1>2 DEF Shape, ReqFields, Becomes
  <2>2. QED
    BY <2>1, KeepsRows
<1>3. CASE Becomes([req EXCEPT !.call = "events",
                               !.podCount = Cardinality(PodsIn(Here, Head(req.todo)))])
  <2>1. /\ req'.page = req.page /\ req'.rows = req.rows /\ req'.todo = req.todo
        /\ req'.answer = "none" /\ req'.failed = req.failed /\ seen' = seen
        /\ req'.podCount = Cardinality(PodsIn(Here, Head(req.todo)))
    BY <1>1, <1>3 DEF Shape, ReqFields, Becomes
  <2>2. QED
    BY <1>1, <2>1, KeepsRows
<1>4. QED
  BY <1>2, <1>3 DEF OverviewPods

\* The one step that makes a row.
LEMMA EventsRowOInv == IInv /\ OInv /\ OverviewEvents => OInv'
<1> SUFFICES ASSUME IInv, OInv, OverviewEvents PROVE OInv'
  OBVIOUS
<1>1. /\ req.page = "overview" /\ req.answer = "none" /\ req.call = "events"
      /\ Shape /\ Here \in seen
  BY DEF OverviewEvents, Calling, IInv, RowsSoFar, Here
<1>2. PICK events, failed :
        /\ OverviewRow(events, failed)
        /\ \/ events = 0 /\ <<"events", Head(req.todo)>> \in failed
           \/ events = Here.events[Head(req.todo)]
  <2>1. CASE OverviewRow(0, {<<"events", Head(req.todo)>>})
    BY <2>1
  <2>2. CASE OverviewRow(Here.events[Head(req.todo)], {})
    BY <2>2
  <2>3. QED
    BY <2>1, <2>2 DEF OverviewEvents
<1>3. PICK row : row = [of |-> Head(req.todo), pods |-> req.podCount, events |-> events]
  OBVIOUS
<1>4. Becomes([req EXCEPT !.call = "pods", !.todo = Tail(@), !.failed = @ \union failed,
                          !.rows = Append(@, row)])
  BY <1>2, <1>3 DEF OverviewRow
<1>5. /\ req'.page = req.page /\ req'.rows = Append(req.rows, row) /\ req'.call = "pods"
      /\ req'.answer = "none" /\ req'.failed = req.failed \union failed /\ seen' = seen
  BY <1>1, <1>4 DEF Shape, ReqFields, Becomes
<1>6. RowWasTrue(row)'
  <2>1. row.of = Head(req.todo) /\ row.pods = req.podCount /\ row.events = events
    BY <1>3
  <2>2. \E w \in seen : row.pods = Cardinality(PodsIn(w, row.of))
    BY <1>1, <2>1 DEF OInv
  <2>3. \/ row.events = 0 /\ <<"events", row.of>> \in failed
        \/ \E w \in seen : row.events = w.events[row.of]
    BY <1>1, <1>2, <2>1
  <2>4. QED
    BY <1>5, <2>2, <2>3 DEF RowWasTrue
<1>7. ASSUME NEW old, RowWasTrue(old) PROVE RowWasTrue(old)'
  BY <1>5, <1>7 DEF RowWasTrue
<1>8. PICK S : req.rows \in Seq(S)
  BY <1>1 DEF OInv
<1> DEFINE T == S \union {row}
<1>9. req.rows \in Seq(T) /\ row \in T
  BY <1>8
<1>10. /\ req'.rows \in Seq(T)
       /\ \A i \in DOMAIN req'.rows : \/ req'.rows[i] = row
                                      \/ i \in DOMAIN req.rows /\ req'.rows[i] = req.rows[i]
  <2> HIDE DEF T
  <2>1. /\ Append(req.rows, row) \in Seq(T)
        /\ Len(Append(req.rows, row)) = Len(req.rows) + 1
        /\ \A i \in 1..Len(req.rows) : Append(req.rows, row)[i] = req.rows[i]
        /\ Append(req.rows, row)[Len(req.rows) + 1] = row
    BY <1>9, AppendProperties
  <2>2. Len(req.rows) \in Nat /\ DOMAIN req.rows = 1..Len(req.rows)
    BY <1>9, LenProperties
  <2>3. DOMAIN Append(req.rows, row) = 1..(Len(req.rows) + 1)
    BY <2>1, LenProperties
  <2>4. \A n \in Nat : \A i \in 1..(n + 1) : i \in 1..n \/ i = n + 1
    OBVIOUS
  <2>5. QED
    BY <1>5, <2>1, <2>2, <2>3, <2>4
<1>11. (\A i \in DOMAIN req.rows : RowWasTrue(req.rows[i]))'
  BY <1>1, <1>6, <1>7, <1>10 DEF OInv
<1>12. QED
  BY <1>5, <1>10, <1>11 DEF OInv

LEMMA NodesOInv == IInv /\ OInv /\ OverviewNodes => OInv'
<1> SUFFICES ASSUME IInv, OInv, OverviewNodes PROVE OInv'
  OBVIOUS
<1>1. req.page = "overview" /\ req.answer = "none" /\ Shape /\ Here \in seen
  BY DEF OverviewNodes, Calling, IInv, RowsSoFar, Here
<1>2. CASE Respond([req EXCEPT !.nodeCount = Cardinality(Here.nodes)])
  <2>1. /\ req'.page = req.page /\ req'.rows = req.rows /\ req'.call = "done"
        /\ req'.failed = req.failed /\ seen' = seen /\ req'.nodeCount = Cardinality(Here.nodes)
    BY <1>1, <1>2 DEF Shape, ReqFields, Respond, Becomes
  <2>2. QED
    BY <1>1, <2>1, KeepsRows
<1>3. QED
  BY <1>1, <1>2, ErrorOInv DEF OverviewNodes

OtherPages ==
  \/ Unauthorized \/ listEventsInNamespace \/ Others \/ ListNodes \/ genNodes
  \/ DescribeNode \/ DescribePods \/ DescribeEvents

\* The steps of the other pages are not of the overview.
LEMMA OthersKeepPage ==
  ASSUME IInv, OtherPages
  PROVE  req.page # "overview" /\ req'.page = req.page
<1>1. req.page # "overview" /\ Shape
  BY DEF IInv, Unauthorized, Authorized, listEventsInNamespace, Others, ListNodes, genNodes,
         DescribeNode, DescribePods, DescribeEvents, Calling, OtherPages
<1>2. req'.page = req.page
  <2>1. CASE \E what : ErrorPage(what)
    BY <1>1, <2>1 DEF Shape, ReqFields, ErrorPage, Becomes
  <2>2. CASE Unauthorized
    BY <2>1, <2>2 DEF Unauthorized
  <2>3. CASE listEventsInNamespace
    BY <1>1, <2>1, <2>3 DEF listEventsInNamespace, Shape, ReqFields, Respond, Becomes
  <2>4. CASE Others
    BY <1>1, <2>1, <2>4 DEF Others, Shape, ReqFields, Becomes
  <2>5. CASE ListNodes
    <3>1. PICK todo : ErrorPage("nodes") \/ Becomes([req EXCEPT !.call = "allPods", !.todo = todo])
      BY <2>5, Zenon DEF ListNodes
    <3>2. QED
      BY <1>1, <2>1, <3>1 DEF Shape, ReqFields, Becomes
  <2>6. CASE genNodes
    BY <1>1, <2>6 DEF genNodes, Shape, ReqFields, Respond, Becomes
  <2>7. CASE DescribeNode
    BY <1>1, <2>1, <2>7 DEF DescribeNode, Shape, ReqFields, Becomes
  <2>8. CASE DescribePods
    BY <1>1, <2>1, <2>8 DEF DescribePods, Shape, ReqFields, Becomes
  <2>9. CASE DescribeEvents
    BY <1>1, <2>9 DEF DescribeEvents, Shape, ReqFields, Respond, Becomes
  <2>10. QED
    BY <2>2, <2>3, <2>4, <2>5, <2>6, <2>7, <2>8, <2>9, SMTT(30) DEF OtherPages
<1>3. QED
  BY <1>1, <1>2

LEMMA OthersOInv == IInv /\ OInv /\ OtherPages => OInv'
BY OthersKeepPage DEF OInv

LEMMA NextOInv == IInv /\ OInv /\ [Next]_vars => OInv'
<1> SUFFICES ASSUME IInv, OInv, [Next]_vars PROVE OInv'
  OBVIOUS
<1>1. CASE Handle
  BY <1>1, NamespacesOInv, PodsOInv, EventsRowOInv, NodesOInv, OthersOInv DEF Handle, OtherPages
<1>2. CASE MovePod \/ OtherChange \/ Switch
  BY <1>2, ChangingOInv DEF MovePod, OtherChange, Switch
<1>3. CASE UNCHANGED vars
  BY <1>3 DEF vars, OInv, RowWasTrue
<1>4. QED
  BY <1>1, <1>2, <1>3 DEF Next

(***************************************************************************)
(* Every number that overview shows of a namespace was true of it at some  *)
(* moment of the request, in the cluster that kubeclient talked to then,   *)
(* or is the 0 of a call that failed.                                      *)
(***************************************************************************)
THEOREM WasTrue == Spec => []OverviewWasTrue
<1>1. OInv => OverviewWasTrue
  BY DEF OInv, RowWasTrue, OverviewWasTrue
<1>2. QED
  BY <1>1, SpecIInv, InitOInv, NextOInv, PTL DEF Spec
-----------------------------------------------------------------------------
(***************************************************************************)
(* The overview is complete. While it is made, the rows and the names that *)
(* are still to do are together those of one answer of the API server, in  *)
(* order, without those whose pods could not be listed.                    *)
(***************************************************************************)
WorldOK == world \in [Clusters -> World] /\ client \in Clusters

\* Precedes is irreflexive because no namespace is listed twice.
Precedes(x, y) == Before(Namespaces, x, y)

Remaining(w) == {ns \in w.namespaces : <<"pods", ns>> \notin req.failed}

Covers(w) ==
  /\ \A i, j \in DOMAIN req.rows : i < j => Precedes(req.rows[i].of, req.rows[j].of)
  /\ \A i, j \in DOMAIN req.todo : i < j => Precedes(req.todo[i], req.todo[j])
  /\ \A i \in DOMAIN req.rows, j \in DOMAIN req.todo : Precedes(req.rows[i].of, req.todo[j])
  /\ \A i \in DOMAIN req.rows : req.rows[i].of \in Remaining(w)
  /\ \A j \in DOMAIN req.todo : req.todo[j] \in Remaining(w)
  /\ \A ns \in Remaining(w) : \/ \E i \in DOMAIN req.rows : req.rows[i].of = ns
                              \/ \E j \in DOMAIN req.todo : req.todo[j] = ns

CInv ==
  /\ WorldOK
  /\ req.page = "overview" /\ req.answer # "error" =>
       /\ \E S : req.rows \in Seq(S)
       /\ req.todo \in Seq(Range(Namespaces))
       /\ req.call = "namespaces" => req.rows = <<>> /\ req.answer = "none" /\ req.failed = {}
       /\ req.call # "namespaces" => \E w \in seen : Covers(w)
       /\ req.call = "events" => req.todo # <<>>
       /\ req.answer = "page" => req.todo = <<>> /\ req.call = "done"

LEMMA PrecedesIrreflexive ==
  \A x : ~Precedes(x, x)
<1>1. IsInjective(Namespaces) /\ Namespaces \in Seq(Range(Namespaces))
  BY ConstantsAssumption
<1>2. DOMAIN Namespaces \subseteq Nat
  BY <1>1
<1>3. QED
  BY <1>1, <1>2 DEF Precedes, Before, IsInjective

\* The namespaces of a cluster are finitely many.
LEMMA NamespacesFinite ==
  ASSUME NEW W, W \subseteq Range(Namespaces)
  PROVE  IsFiniteSet(W)
<1> DEFINE n == Len(Namespaces)
<1>1. Namespaces \in Seq(Range(Namespaces))
  BY ConstantsAssumption
<1>2. n \in Nat /\ Namespaces \in [1..n -> Range(Namespaces)]
  BY <1>1
<1>3. Namespaces \in Surjection(1..n, Range(Namespaces))
  BY <1>2 DEF Surjection, Range
<1>4. IsFiniteSet(1..n)
  BY <1>2, FS_Interval
<1>5. IsFiniteSet(Range(Namespaces))
  <2> HIDE DEF n
  <2> QED
    BY <1>3, <1>4, FS_Surjection
<1>6. QED
  BY <1>5, FS_Subset

\* A list of a finite set has each of its elements.
LEMMA ListedHasAll ==
  ASSUME NEW W, W \subseteq Range(Namespaces), NEW s \in Listed(Namespaces, W)
  PROVE  /\ s \in Seq(Range(Namespaces))
         /\ \A i, j \in DOMAIN s : i < j => Precedes(s[i], s[j])
         /\ \A i \in DOMAIN s : s[i] \in W
         /\ \A ns \in W : \E i \in DOMAIN s : s[i] = ns
<1> DEFINE n == Cardinality(W)
<1>1. IsFiniteSet(W) /\ n \in Nat /\ IsFiniteSet(1..n) /\ Cardinality(1..n) = n
  <2>1. IsFiniteSet(W) /\ n \in Nat
    BY NamespacesFinite, FS_CardinalityType
  <2>2. QED
    BY <2>1, FS_Interval
<1>2. s \in [1..n -> W] /\ \A i, j \in 1..n : i # j => s[i] # s[j]
  BY DEF Listed, SetToSeqs
<1>3. s \in Injection(1..n, W)
  BY <1>2 DEF Injection, IsInjective
<1>4. s \in Surjection(1..n, W)
  BY <1>1, <1>3, FS_Injection
<1>5. \A r \in W : \E i \in 1..n : s[i] = r
  BY <1>4 DEF Surjection
<1> HIDE DEF n
<1>6. s \in Seq(W)
  BY <1>1, <1>2
<1>7. s \in Seq(Range(Namespaces))
  BY <1>6
<1>8. QED
  BY <1>2, <1>5, <1>7 DEF Listed, Precedes

\* Conversely, a sequence that has each element of a set, in order, is its list.
LEMMA ListedIfAll ==
  ASSUME NEW W, NEW n \in Nat, NEW s \in [1..n -> W],
         \A i, j \in 1..n : i < j => Precedes(s[i], s[j]),
         \A ns \in W : \E i \in 1..n : s[i] = ns
  PROVE  s \in Listed(Namespaces, W)
<1>1. \A i, j \in 1..n : i # j => s[i] # s[j]
  <2>1. \A i, j \in 1..n : i # j => i < j \/ j < i
    OBVIOUS
  <2>2. QED
    BY <2>1, PrecedesIrreflexive
<1>2. s \in Bijection(1..n, W)
  BY <1>1 DEF Bijection, Injection, Surjection, IsInjective
<1>3. Cardinality(W) = n
  BY <1>2, FS_CountingElements DEF ExistsBijection
<1>4. s \in SetToSeqs(W)
  BY <1>1, <1>3 DEF SetToSeqs
<1>5. QED
  BY <1>4 DEF Listed, Precedes

LEMMA InitCInv == Init => CInv
<1> SUFFICES ASSUME Init PROVE CInv
  OBVIOUS
<1>1. PICK r \in Requests : req = Started(r)
  BY DEF Init
<1>2. /\ req.rows = <<>> /\ req.todo = <<>> /\ req.failed = {} /\ req.answer = "none"
      /\ req.page = "overview" => req.call = "namespaces"
  BY <1>1 DEF Started, FirstCall
<1>3. WorldOK
  BY ConstantsAssumption DEF Init, WorldOK
<1>4. QED
  BY <1>2, <1>3 DEF CInv

\* A step of the clusters or of the client.
LEMMA ChangingCInv == CInv /\ Changing /\ WorldOK' => CInv'
<1> SUFFICES ASSUME CInv, Changing, WorldOK' PROVE CInv'
  OBVIOUS
<1>1. req' = req /\ seen \subseteq seen'
  BY DEF Changing
<1>2. \A w : Covers(w) => Covers(w)'
  BY <1>1 DEF Covers, Remaining
<1>3. (\E w \in seen : Covers(w)) => (\E w \in seen : Covers(w))'
  BY <1>1, <1>2
<1>4. QED
  BY <1>1, <1>3 DEF CInv

LEMMA WorldStep == CInv /\ (MovePod \/ OtherChange \/ Switch) => WorldOK'
<1> SUFFICES ASSUME CInv, MovePod \/ OtherChange \/ Switch PROVE WorldOK'
  OBVIOUS
<1>1. WorldOK
  BY DEF CInv
<1>2. CASE MovePod
  <2>1. client' = client
    BY <1>2 DEF MovePod
  <2>2. PICK c \in Clusters, p \in Pods, place \in Range(Nodes) \union {Absent} :
          world' = [world EXCEPT ![c].pods[p] = place]
    BY <1>2 DEF MovePod
  <2>3. PICK w : w = [world[c] EXCEPT !.pods[p] = place]
    OBVIOUS
  <2>4. w \in World
    <3>1. world[c] \in World
      BY <1>1 DEF WorldOK
    <3>2. QED
      BY <2>3, <3>1 DEF World
  <2>5. world' = [world EXCEPT ![c] = w]
    BY <1>1, <2>2, <2>3 DEF WorldOK
  <2>6. QED
    BY <1>1, <2>1, <2>4, <2>5 DEF WorldOK
<1>3. CASE OtherChange
  <2>1. client' = client
    BY <1>3 DEF OtherChange
  <2>2. PICK c \in Clusters :
       \/ \E ns \in Range(Namespaces) : world' = [world EXCEPT ![c].events[ns] = @ + 1]
       \/ \E n \in Range(Nodes) : world' = [world EXCEPT ![c].nodes = SymDiff(@, {n})]
       \/ \E ns \in Range(Namespaces) : world' = [world EXCEPT ![c].namespaces = SymDiff(@, {ns})]
    BY <1>3 DEF OtherChange
  <2>3. world[c] \in World
    BY <1>1 DEF WorldOK
  <2>4. ASSUME NEW w \in World, world' = [world EXCEPT ![c] = w]
        PROVE  WorldOK'
    BY <1>1, <2>1, <2>4 DEF WorldOK
  <2>5. CASE \E ns \in Range(Namespaces) : world' = [world EXCEPT ![c].events[ns] = @ + 1]
    <3>1. PICK ns \in Range(Namespaces) : world' = [world EXCEPT ![c].events[ns] = @ + 1]
      BY <2>5
    <3>2. PICK w : w = [world[c] EXCEPT !.events[ns] = @ + 1]
      OBVIOUS
    <3>3. w \in World
      BY <2>3, <3>2 DEF World
    <3>4. world' = [world EXCEPT ![c] = w]
      BY <1>1, <3>1, <3>2 DEF WorldOK
    <3>5. QED
      BY <2>4, <3>3, <3>4
  <2>6. CASE \E n \in Range(Nodes) : world' = [world EXCEPT ![c].nodes = SymDiff(@, {n})]
    <3>1. PICK n \in Range(Nodes) : world' = [world EXCEPT ![c].nodes = SymDiff(@, {n})]
      BY <2>6
    <3>2. PICK w : w = [world[c] EXCEPT !.nodes = SymDiff(@, {n})]
      OBVIOUS
    <3>3. w \in World
      BY <2>3, <3>2 DEF World, SymDiff
    <3>4. world' = [world EXCEPT ![c] = w]
      BY <1>1, <3>1, <3>2 DEF WorldOK
    <3>5. QED
      BY <2>4, <3>3, <3>4
  <2>7. CASE \E ns \in Range(Namespaces) : world' = [world EXCEPT ![c].namespaces = SymDiff(@, {ns})]
    <3>1. PICK ns \in Range(Namespaces) : world' = [world EXCEPT ![c].namespaces = SymDiff(@, {ns})]
      BY <2>7
    <3>2. PICK w : w = [world[c] EXCEPT !.namespaces = SymDiff(@, {ns})]
      OBVIOUS
    <3>3. w \in World
      BY <2>3, <3>2 DEF World, SymDiff
    <3>4. world' = [world EXCEPT ![c] = w]
      BY <1>1, <3>1, <3>2 DEF WorldOK
    <3>5. QED
      BY <2>4, <3>3, <3>4
  <2>8. QED
    BY <2>2, <2>5, <2>6, <2>7
<1>4. CASE Switch
  BY <1>1, <1>4 DEF Switch, WorldOK
<1>5. QED
  BY <1>2, <1>3, <1>4

LEMMA NamespacesCInv == IInv /\ CInv /\ OverviewNamespaces => CInv'
<1> SUFFICES ASSUME IInv, CInv, OverviewNamespaces PROVE CInv'
  OBVIOUS
<1>1. /\ req.page = "overview" /\ req.answer = "none" /\ req.call = "namespaces" /\ Shape
      /\ WorldOK /\ Here \in seen /\ req.rows = <<>> /\ req.failed = {}
  BY DEF OverviewNamespaces, Calling, IInv, RowsSoFar, Here, CInv
<1>2. WorldOK'
  BY <1>1 DEF OverviewNamespaces, ErrorPage, Becomes, WorldOK
<1>3. CASE ErrorPage("namespaces")
  BY <1>1, <1>2, <1>3 DEF ErrorPage, Becomes, Shape, ReqFields, CInv
<1>4. ASSUME NEW s \in Listed(Namespaces, Here.namespaces),
             Becomes([req EXCEPT !.call = "pods", !.todo = s])
      PROVE  CInv'
  <2>1. /\ req'.page = req.page /\ req'.rows = <<>> /\ req'.call = "pods" /\ req'.todo = s
        /\ req'.answer = "none" /\ req'.failed = {} /\ seen' = seen
    BY <1>1, <1>4 DEF Shape, ReqFields, Becomes
  <2>2. Here.namespaces \subseteq Range(Namespaces)
    BY <1>1 DEF WorldOK, Here, World
  <2>3. /\ s \in Seq(Range(Namespaces))
        /\ \A i, j \in DOMAIN s : i < j => Precedes(s[i], s[j])
        /\ \A i \in DOMAIN s : s[i] \in Here.namespaces
        /\ \A ns \in Here.namespaces : \E i \in DOMAIN s : s[i] = ns
    BY <1>4, <2>2, ListedHasAll
  <2>4. PICK w \in seen : w = Here
    BY <1>1
  <2>5. DOMAIN req'.rows = {} /\ req'.rows \in Seq({})
    BY <2>1
  <2>6. Covers(w)'
    BY <2>1, <2>3, <2>4, <2>5 DEF Covers, Remaining, Precedes
  <2>7. QED
    BY <1>2, <2>1, <2>3, <2>5, <2>6 DEF CInv
<1>5. QED
  BY <1>3, <1>4 DEF OverviewNamespaces

\* The first of the names that are still to do comes before the others.
LEMMA HeadAndTail ==
  ASSUME NEW S, NEW t \in Seq(S), t # <<>>
  PROVE  /\ 1 \in DOMAIN t /\ Head(t) = t[1] /\ Tail(t) \in Seq(S)
         /\ \A j \in DOMAIN Tail(t) : j \in Nat /\ j + 1 \in DOMAIN t /\ 1 < j + 1 /\ Tail(t)[j] = t[j + 1]
         /\ \A i \in DOMAIN t : i = 1 \/ \E j \in DOMAIN Tail(t) : i = j + 1
<1>1. Len(t) \in Nat /\ Len(t) >= 1 /\ DOMAIN t = 1..Len(t)
  OBVIOUS
<1>2. Tail(t) \in Seq(S) /\ Len(Tail(t)) = Len(t) - 1 /\ DOMAIN Tail(t) = 1..(Len(t) - 1)
  OBVIOUS
<1>3. \A j \in 1..(Len(t) - 1) : Tail(t)[j] = t[j + 1]
  OBVIOUS
<1>4. \A n \in Nat : n >= 1 =>
        /\ \A j \in 1..(n - 1) : j \in Nat /\ j + 1 \in 1..n /\ 1 < j + 1
        /\ \A i \in 1..n : i = 1 \/ (i - 1 \in 1..(n - 1) /\ i = (i - 1) + 1)
  OBVIOUS
<1>5. /\ \A j \in DOMAIN Tail(t) : j \in Nat /\ j + 1 \in DOMAIN t /\ 1 < j + 1 /\ Tail(t)[j] = t[j + 1]
      /\ \A i \in DOMAIN t : i = 1 \/ (i - 1 \in DOMAIN Tail(t) /\ i = (i - 1) + 1)
  BY <1>1, <1>2, <1>3, <1>4, Zenon
<1>6. 1 \in DOMAIN t /\ Head(t) = t[1]
  BY <1>1
<1>7. QED
  BY <1>2, <1>5, <1>6

LEMMA PodsCInv == IInv /\ CInv /\ OverviewPods => CInv'
<1> SUFFICES ASSUME IInv, CInv, OverviewPods PROVE CInv'
  OBVIOUS
<1>1. /\ req.page = "overview" /\ req.answer = "none" /\ req.call = "pods" /\ Shape
      /\ WorldOK /\ req.todo # <<>>
  BY DEF OverviewPods, Calling, IInv, CInv
<1>2. WorldOK'
  BY <1>1 DEF OverviewPods, Becomes, WorldOK
<1>3. (\E S : req.rows \in Seq(S)) /\ req.todo \in Seq(Range(Namespaces))
  BY <1>1 DEF CInv
<1>4. PICK w \in seen : Covers(w)
  BY <1>1 DEF CInv
<1>5. CASE Becomes([req EXCEPT !.todo = Tail(@), !.failed = @ \union {<<"pods", Head(req.todo)>>}])
  <2>1. /\ req'.page = req.page /\ req'.rows = req.rows /\ req'.call = "pods"
        /\ req'.answer = "none" /\ req'.failed = req.failed \union {<<"pods", Head(req.todo)>>}
        /\ req'.todo = Tail(req.todo) /\ seen' = seen
    BY <1>1, <1>5 DEF Shape, ReqFields, Becomes
  <2> DEFINE t == req.todo
             x == Head(t)
  <2>2. /\ 1 \in DOMAIN t /\ x = t[1] /\ Tail(t) \in Seq(Range(Namespaces))
        /\ \A j \in DOMAIN Tail(t) : j \in Nat /\ j + 1 \in DOMAIN t /\ 1 < j + 1 /\ Tail(t)[j] = t[j + 1]
        /\ \A i \in DOMAIN t : i = 1 \/ \E j \in DOMAIN Tail(t) : i = j + 1
    BY <1>1, <1>3, HeadAndTail
  <2> HIDE DEF t, x
  <2>3. \A ns : ns \in Remaining(w)' <=> ns \in Remaining(w) /\ ns # x
    BY <2>1 DEF Remaining, x, t
  <2>4. \A i \in DOMAIN req.rows : Precedes(req.rows[i].of, x) /\ req.rows[i].of # x
    BY <1>4, <2>2, PrecedesIrreflexive DEF Covers, t
  <2>5. \A j \in DOMAIN Tail(t) : Precedes(x, Tail(t)[j]) /\ Tail(t)[j] # x
    BY <1>4, <2>2, PrecedesIrreflexive DEF Covers, t
  <2>6. \A i, j \in DOMAIN Tail(t) : i < j => Precedes(Tail(t)[i], Tail(t)[j])
    <3>1. \A i, j \in Nat : i < j => i + 1 < j + 1
      OBVIOUS
    <3>2. QED
      BY <1>4, <2>2, <3>1 DEF Covers, t
  <2>7. \A i \in DOMAIN req.rows, j \in DOMAIN Tail(t) : Precedes(req.rows[i].of, Tail(t)[j])
    BY <1>4, <2>2 DEF Covers, t
  <2>8. /\ \A i \in DOMAIN req.rows : req.rows[i].of \in Remaining(w)'
        /\ \A j \in DOMAIN Tail(t) : Tail(t)[j] \in Remaining(w)'
    BY <1>4, <2>2, <2>3, <2>4, <2>5 DEF Covers, t
  <2>9. \A ns \in Remaining(w)' : \/ \E i \in DOMAIN req.rows : req.rows[i].of = ns
                                  \/ \E j \in DOMAIN Tail(t) : Tail(t)[j] = ns
    BY <1>4, <2>2, <2>3 DEF Covers, t
  <2>10. Covers(w)'
    BY <1>4, <2>1, <2>6, <2>7, <2>8, <2>9 DEF Covers, Precedes, t
  <2>11. QED
    BY <1>2, <1>3, <2>1, <2>2, <2>10 DEF CInv, t
<1>6. ASSUME NEW n, Becomes([req EXCEPT !.call = "events", !.podCount = n])
      PROVE  CInv'
  <2>1. /\ req'.page = req.page /\ req'.rows = req.rows /\ req'.call = "events"
        /\ req'.answer = "none" /\ req'.failed = req.failed
        /\ req'.todo = req.todo /\ seen' = seen
    BY <1>1, <1>6 DEF Shape, ReqFields, Becomes
  <2>2. Covers(w)'
    BY <1>4, <2>1 DEF Covers, Remaining
  <2>3. QED
    BY <1>1, <1>2, <1>3, <2>1, <2>2 DEF CInv
<1>7. QED
  BY <1>5, <1>6 DEF OverviewPods

\* A new row is for the first of the names that are still to do.
LEMMA EventsCInv == IInv /\ CInv /\ OverviewEvents => CInv'
<1> SUFFICES ASSUME IInv, CInv, OverviewEvents PROVE CInv'
  OBVIOUS
<1>1. /\ req.page = "overview" /\ req.answer = "none" /\ req.call = "events" /\ Shape
      /\ WorldOK /\ req.todo # <<>>
  BY DEF OverviewEvents, Calling, IInv, CInv
<1>2. PICK events, failed : OverviewRow(events, failed) /\ failed \subseteq {<<"events", Head(req.todo)>>}
  <2>1. CASE OverviewRow(0, {<<"events", Head(req.todo)>>})
    BY <2>1
  <2>2. CASE OverviewRow(Here.events[Head(req.todo)], {})
    BY <2>2
  <2>3. QED
    BY <2>1, <2>2 DEF OverviewEvents
<1>3. PICK row : row = [of |-> Head(req.todo), pods |-> req.podCount, events |-> events]
  OBVIOUS
<1>4. Becomes([req EXCEPT !.call = "pods", !.todo = Tail(@), !.failed = @ \union failed,
                          !.rows = Append(@, row)])
  BY <1>2, <1>3 DEF OverviewRow
<1>5. /\ req'.page = req.page /\ req'.rows = Append(req.rows, row) /\ req'.call = "pods"
      /\ req'.answer = "none" /\ req'.failed = req.failed \union failed /\ seen' = seen
      /\ req'.todo = Tail(req.todo) /\ world' = world /\ client' = client
  BY <1>1, <1>4 DEF Shape, ReqFields, Becomes
<1>6. PICK S : req.rows \in Seq(S)
  BY <1>1 DEF CInv
<1>7. req.todo \in Seq(Range(Namespaces))
  BY <1>1 DEF CInv
<1>8. PICK w \in seen : Covers(w)
  BY <1>1 DEF CInv
<1> DEFINE t == req.todo
           x == Head(t)
           T == S \union {row}
           r == req.rows
           n == Len(r)
<1>9. /\ 1 \in DOMAIN t /\ x = t[1] /\ Tail(t) \in Seq(Range(Namespaces))
      /\ \A j \in DOMAIN Tail(t) : j \in Nat /\ j + 1 \in DOMAIN t /\ 1 < j + 1 /\ Tail(t)[j] = t[j + 1]
      /\ \A i \in DOMAIN t : i = 1 \/ \E j \in DOMAIN Tail(t) : i = j + 1
  BY <1>1, <1>7, HeadAndTail
<1>10. r \in Seq(T) /\ row \in T /\ row.of = x
  BY <1>3, <1>6
<1> HIDE DEF t, x, T, r, n
<1>11. /\ n \in Nat /\ DOMAIN r = 1..n
       /\ Append(r, row) \in Seq(T) /\ DOMAIN Append(r, row) = 1..(n + 1)
       /\ \A i \in 1..n : Append(r, row)[i] = r[i]
       /\ Append(r, row)[n + 1] = row
  BY <1>10, AppendProperties, LenProperties DEF n
<1>12. Remaining(w)' = Remaining(w)
  BY <1>2, <1>5 DEF Remaining
<1>13. \A i \in 1..n : Precedes(r[i].of, x)
  BY <1>8, <1>9, <1>11 DEF Covers, t, r
<1>14. \A j \in DOMAIN Tail(t) : Precedes(x, Tail(t)[j])
  BY <1>8, <1>9 DEF Covers, t
<1>15. \A i, j \in 1..(n + 1) : i < j => Precedes(Append(r, row)[i].of, Append(r, row)[j].of)
  <2>1. \A i, j \in 1..(n + 1) : i < j => i \in 1..n /\ (j \in 1..n \/ j = n + 1)
    BY <1>11
  <2>2. \A i, j \in 1..n : i < j => Precedes(r[i].of, r[j].of)
    BY <1>8, <1>11 DEF Covers, r
  <2>3. QED
    BY <1>10, <1>11, <1>13, <2>1, <2>2
<1>16. \A i, j \in DOMAIN Tail(t) : i < j => Precedes(Tail(t)[i], Tail(t)[j])
  <2>1. \A i, j \in Nat : i < j => i + 1 < j + 1
    OBVIOUS
  <2>2. QED
    BY <1>8, <1>9, <2>1 DEF Covers, t
<1>17. \A i \in 1..(n + 1) : i \in 1..n \/ i = n + 1
  BY <1>11
<1>18. \A i \in 1..(n + 1), j \in DOMAIN Tail(t) : Precedes(Append(r, row)[i].of, Tail(t)[j])
  <2>1. \A i \in 1..n, j \in DOMAIN Tail(t) : Precedes(r[i].of, Tail(t)[j])
    BY <1>8, <1>9, <1>11 DEF Covers, t, r
  <2>2. QED
    BY <1>10, <1>11, <1>14, <1>17, <2>1
<1>19. /\ \A i \in 1..(n + 1) : Append(r, row)[i].of \in Remaining(w)
       /\ \A j \in DOMAIN Tail(t) : Tail(t)[j] \in Remaining(w)
  <2>1. \A i \in 1..n : r[i].of \in Remaining(w)
    BY <1>8, <1>11 DEF Covers, r
  <2>2. x \in Remaining(w) /\ \A j \in DOMAIN Tail(t) : Tail(t)[j] \in Remaining(w)
    BY <1>8, <1>9 DEF Covers, t
  <2>3. QED
    BY <1>10, <1>11, <1>17, <2>1, <2>2
<1>20. \A ns \in Remaining(w) : \/ \E i \in 1..(n + 1) : Append(r, row)[i].of = ns
                                \/ \E j \in DOMAIN Tail(t) : Tail(t)[j] = ns
  <2> SUFFICES ASSUME NEW ns \in Remaining(w)
               PROVE  \/ \E i \in 1..(n + 1) : Append(r, row)[i].of = ns
                      \/ \E j \in DOMAIN Tail(t) : Tail(t)[j] = ns
    OBVIOUS
  <2>1. n + 1 \in 1..(n + 1) /\ \A i \in 1..n : i \in 1..(n + 1)
    BY <1>11
  <2>2. CASE \E i \in DOMAIN r : r[i].of = ns
    BY <1>11, <2>1, <2>2
  <2>3. CASE \E j \in DOMAIN t : t[j] = ns
    BY <1>9, <1>10, <1>11, <2>1, <2>3
  <2>4. QED
    BY <1>8, <2>2, <2>3 DEF Covers, t, r
<1>21. Covers(w)'
  BY <1>5, <1>11, <1>12, <1>15, <1>16, <1>18, <1>19, <1>20 DEF Covers, Precedes, t, r
<1>22. WorldOK'
  BY <1>1, <1>5 DEF WorldOK
<1>23. QED
  BY <1>5, <1>9, <1>11, <1>21, <1>22 DEF CInv, t, r

LEMMA NodesCInv == IInv /\ CInv /\ OverviewNodes => CInv'
<1> SUFFICES ASSUME IInv, CInv, OverviewNodes PROVE CInv'
  OBVIOUS
<1>1. /\ req.page = "overview" /\ req.answer = "none" /\ req.call = "pods" /\ Shape
      /\ WorldOK /\ req.todo = <<>>
  BY DEF OverviewNodes, Calling, IInv, CInv
<1>2. WorldOK'
  BY <1>1 DEF OverviewNodes, Respond, ErrorPage, Becomes, WorldOK
<1>3. CASE ErrorPage("nodes")
  BY <1>1, <1>2, <1>3 DEF ErrorPage, Becomes, Shape, ReqFields, CInv
<1>4. ASSUME NEW n, Respond([req EXCEPT !.nodeCount = n])
      PROVE  CInv'
  <2>1. /\ req'.page = req.page /\ req'.rows = req.rows /\ req'.call = "done"
        /\ req'.answer = "page" /\ req'.failed = req.failed
        /\ req'.todo = req.todo /\ seen' = seen
    BY <1>1, <1>4 DEF Shape, ReqFields, Respond, Becomes
  <2>2. \A w : Covers(w) => Covers(w)'
    BY <2>1 DEF Covers, Remaining
  <2>3. /\ \E S : req.rows \in Seq(S)
        /\ req.todo \in Seq(Range(Namespaces))
        /\ \E w \in seen : Covers(w)
    BY <1>1 DEF CInv
  <2>4. (\E w \in seen : Covers(w))'
    BY <2>1, <2>2, <2>3
  <2>5. QED
    BY <1>1, <1>2, <2>1, <2>3, <2>4 DEF CInv
<1>5. QED
  BY <1>3, <1>4 DEF OverviewNodes

LEMMA OthersCInv == IInv /\ CInv /\ OtherPages => CInv'
<1> SUFFICES ASSUME IInv, CInv, OtherPages PROVE CInv'
  OBVIOUS
<1>1. UNCHANGED <<world, client>>
  BY DEF OtherPages, Unauthorized, listEventsInNamespace, Others, ListNodes, genNodes, DescribeNode,
         DescribePods, DescribeEvents, ErrorPage, Respond, Becomes
<1>2. WorldOK'
  BY <1>1 DEF CInv, WorldOK
<1>3. QED
  BY <1>2, OthersKeepPage DEF CInv

LEMMA NextCInv == IInv /\ CInv /\ [Next]_vars => CInv'
<1> SUFFICES ASSUME IInv, CInv, [Next]_vars PROVE CInv'
  OBVIOUS
<1>1. CASE Handle
  BY <1>1, NamespacesCInv, PodsCInv, EventsCInv, NodesCInv, OthersCInv DEF Handle, OtherPages
<1>2. CASE MovePod \/ OtherChange \/ Switch
  BY <1>2, ChangingCInv, WorldStep DEF MovePod, OtherChange, Switch
<1>3. CASE UNCHANGED vars
  <2>1. UNCHANGED <<world, client, req, seen>>
    BY <1>3 DEF vars
  <2>2. WorldOK'
    BY <2>1 DEF CInv, WorldOK
  <2>3. \A w : Covers(w) => Covers(w)'
    BY <2>1 DEF Covers, Remaining
  <2>4. (\E w \in seen : Covers(w)) => (\E w \in seen : Covers(w))'
    BY <2>1, <2>3
  <2>5. QED
    BY <2>1, <2>2, <2>4 DEF CInv
<1>4. QED
  BY <1>1, <1>2, <1>3 DEF Next

(***************************************************************************)
(* The overview has one row, in order, for every namespace of one answer   *)
(* of the API server, and lacks only those whose pods could not be listed, *)
(* for any number of namespaces and of changes between the calls.          *)
(***************************************************************************)
THEOREM Complete == Spec => []OverviewComplete
<1>1. CInv => OverviewComplete
  <2> SUFFICES ASSUME CInv, req.page = "overview", req.answer = "page"
               PROVE  \E w \in seen :
                        [i \in DOMAIN req.rows |-> req.rows[i].of] \in Listed(Namespaces, Remaining(w))
    BY DEF OverviewComplete, Remaining
  <2>1. PICK S : req.rows \in Seq(S)
    BY DEF CInv
  <2>2. PICK n \in Nat : DOMAIN req.rows = 1..n
    BY <2>1
  <2>3. req.todo = <<>> /\ req.call = "done"
    BY DEF CInv
  <2>4. PICK w \in seen : Covers(w)
    BY <2>3 DEF CInv
  <2>5. PICK s : s = [i \in 1..n |-> req.rows[i].of]
    OBVIOUS
  <2>6. s \in [1..n -> Remaining(w)]
    BY <2>2, <2>4, <2>5 DEF Covers
  <2>7. \A i, j \in 1..n : i < j => Precedes(s[i], s[j])
    BY <2>2, <2>4, <2>5 DEF Covers
  <2>8. \A ns \in Remaining(w) : \E i \in 1..n : s[i] = ns
    BY <2>2, <2>3, <2>4, <2>5 DEF Covers
  <2>9. s \in Listed(Namespaces, Remaining(w))
    BY <2>6, <2>7, <2>8, ListedIfAll
  <2>10. QED
    BY <2>2, <2>4, <2>5, <2>9
<1>2. QED
  BY <1>1, SpecIInv, InitCInv, NextCInv, PTL DEF Spec
=============================================================================
