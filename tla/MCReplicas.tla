----------------------------- MODULE MCReplicas -----------------------------
(***************************************************************************)
(* The tables of MCActiveRecord, read from a replica.                      *)
(***************************************************************************)
EXTENDS Replicas, MCActiveRecord
=============================================================================
