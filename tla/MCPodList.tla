------------------------------ MODULE MCPodList -----------------------------
(***************************************************************************)
(* An instance of PodList for TLC: two pods, images of the private         *)
(* registry and of Docker Hub with the same names, pods that list the same *)
(* images in two orders, and reports of every kind.                        *)
(***************************************************************************)
EXTENDS PodList

CONSTANTS a, b, v1, v2

Private(n, t) == [name |-> n, tag |-> t, private |-> TRUE]

Hub(n, t) == [name |-> n, tag |-> t, private |-> FALSE]

MCLists == {<<Private(a, v1), Private(b, v1)>>,
            <<Private(b, v1), Private(a, v1)>>,
            <<Hub(a, v1), PauseImage>>}

C(state, paused, started) == [state |-> state, paused |-> paused, started |-> started]

R(phase, ready, reason, cs) == [phase |-> phase, ready |-> ready, reason |-> reason, containers |-> cs]

MCReports == {R("Running", TRUE, "", <<C("ready", FALSE, 1), C("ready", FALSE, 2)>>),
              R("Running", TRUE, "", <<C("ready", TRUE, 1), C("waiting", FALSE, 1)>>)}

AllReports ==
  LET containers == {C("ready", TRUE, 1)} \union
                    {C(s, FALSE, 1) : s \in {"waiting", "starting", "terminated", "ready", "unready"}}
  IN  {R(phase, ready, reason, cs) :
         phase \in {"Running", "Failed"}, ready \in BOOLEAN, reason \in {"", "Evicted"},
         cs \in UNION {[1..n -> containers] : n \in 0..2}}

\* Two pods that the kubelets report of in one of two ways, or one of which they
\* may report anything.
MCFirst ==
  LET ps(lists, reports, hosts) == [images : lists, report : reports, host : hosts, deleting : {FALSE}]
  IN  [Pods -> ps(MCLists, MCReports, Hosts \union {NoHost})]
        \union [{1} -> ps({<<Private(a, v1), Private(b, v1)>>}, AllReports, Hosts)]
=============================================================================
