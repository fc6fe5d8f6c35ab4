--------------------------- MODULE MCNodeResources --------------------------
(***************************************************************************)
(* An instance of NodeResources for TLC: two nodes, one of which has not   *)
(* reported its capacity, and containers that ask for nothing, for one     *)
(* kind, for both, and in either format.                                   *)
(***************************************************************************)
EXTENDS NodeResources

CONSTANTS n1, n2, cpu, memory

D(amount) == [format |-> "decimal", amount |-> amount]

B(amount) == [format |-> "binary", amount |-> amount]

MCNodes == <<n1, n2>>

MCContainers == {<<>>, cpu :> D(1), cpu :> D(2) @@ memory :> B(1), memory :> D(3)}

MCCapacity == (n1 :> (cpu :> 5 @@ memory :> 3)) @@ (n2 :> (cpu :> 0 @@ memory :> 4))

MCPodCapacity == n1 :> 2 @@ n2 :> 0
=============================================================================
