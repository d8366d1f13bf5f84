---------------------- MODULE MCClusterInvestigations ----------------------
(***************************************************************************)
(* An instance of ClusterInvestigations for TLC: one run with one child,   *)
(* executed by two attempts.                                               *)
(***************************************************************************)
EXTENDS ClusterInvestigations

CONSTANTS c1, p1

ParentOf == [c \in Children |-> p1]
RunOf == [a \in Attempts |-> p1]
=============================================================================
