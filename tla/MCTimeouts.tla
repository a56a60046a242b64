----------------------------- MODULE MCTimeouts -----------------------------
(***************************************************************************)
(* Timeouts for TLC: one table with a timeout of its own, connections that *)
(* are interchangeable.                                                    *)
(***************************************************************************)
EXTENDS Timeouts, TLC

Symmetry == Permutations(Conn)
=============================================================================
