---------------------------- MODULE MCKubeConfig ----------------------------
(***************************************************************************)
(* Two updates of the configuration, one of them with an address that the  *)
(* client library refuses, and a crash at any point.                       *)
(***************************************************************************)
EXTENDS KubeConfig

CONSTANTS a, bad
=============================================================================
