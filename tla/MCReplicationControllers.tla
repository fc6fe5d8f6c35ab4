---------------------- MODULE MCReplicationControllers ----------------------
(***************************************************************************)
(* Instances of ReplicationControllers for TLC: posts that scale one       *)
(* controller and that rewrite its template, exports to it, and a delete.  *)
(***************************************************************************)
EXTENDS ReplicationControllers

CONSTANTS s1, s2, w, x1, x2, d
=============================================================================
