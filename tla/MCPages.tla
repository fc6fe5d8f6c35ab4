------------------------------- MODULE MCPages ------------------------------
(***************************************************************************)
(* An instance of Pages for TLC: two clusters with the same names in them, *)
(* two namespaces, two nodes and two pods.                                 *)
(***************************************************************************)
EXTENDS Pages

CONSTANTS a, b, n1, n2, p, q

MCNamespaces == <<a, b>>

MCNodes == <<n1, n2>>

MCProject == (n1 :> a) @@ (n2 :> a)

MCPodNamespace == (p :> a) @@ (q :> b)

MCWorlds == {[namespaces |-> {a, b}, nodes |-> {n1, n2},
              pods |-> (p :> n1) @@ (q :> n2), events |-> (a :> 0) @@ (b :> 1)],
             [namespaces |-> {a}, nodes |-> {n1, n2},
              pods |-> (p :> n2) @@ (q :> Absent), events |-> (a :> 2) @@ (b :> 0)]}
=============================================================================
