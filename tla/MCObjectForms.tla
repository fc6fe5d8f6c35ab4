--------------------------- MODULE MCObjectForms ----------------------------
(***************************************************************************)
(* A service and a node, three forms, and other writers.                   *)
(***************************************************************************)
EXTENDS ObjectForms, TLC

AnyForm == Permutations(Forms)
=============================================================================
