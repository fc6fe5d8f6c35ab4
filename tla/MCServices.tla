----------------------------- MODULE MCServices -----------------------------
(***************************************************************************)
(* An instance of Services, and of Durations, for TLC. Services differ in  *)
(* their addresses or in their ports; endpoints have up to eight pairs of  *)
(* an address and a port. The ages are every half second around zero, and  *)
(* the half seconds on both sides of every change of a unit or its number  *)
(* near a limit of shortHumanDuration.                                     *)
(***************************************************************************)
EXTENDS Services

CONSTANTS i1, i2

MCItems ==
  LET simple(s) == s.external = <<>> /\ s.ingress = <<>>
      lists == {<<>>, <<i1>>, <<i1, i2>>}
      subsets == {s \in Subset : s.ports \in {<<>>, <<80>>, <<443, 80>>} /\ s.addresses \in lists}
  IN  {s \in Service : ~s.kubernetes /\ (s.ports = <<>> \/ (simple(s) /\ s.type = "ClusterIP"))}
      \union {e \in Endpoints : \/ ~e.kubernetes /\ ToSet(e.subsets) \subseteq subsets
                                \/ e.kubernetes /\ e.subsets = <<>>}
      \union {s \in Service : s.kubernetes /\ s.ports = <<>> /\ simple(s) /\ s.type = "ClusterIP"}

Around(ns, unit) == {n * Unit[unit] + e : n \in ns, e \in {-1, 0, 1}}

MCAges ==
  -8..8 \union Around({1, 2, 59, 60, 61}, "s") \union Around({1, 2, 59, 60, 61}, "m")
    \union Around({1, 2, 23, 24, 25}, "h") \union Around({1, 2, 360, 363, 364, 365, 366}, "d")
    \union Around({1, 2, 3}, "y")
=============================================================================
