----------------------------- MODULE MCConnect -----------------------------
(***************************************************************************)
(* Hosts for TLC.                                                          *)
(***************************************************************************)
EXTENDS Connect

CONSTANTS r1, r2

\* Two replicas, in the order of the setting /replica.
TwoReplicas == <<r1, r2>>
=============================================================================
