----------------------------- MODULE MCRunStart -----------------------------
(* Small instances of RunStart for TLC. *)
EXTENDS RunStart

CONSTANTS m1, s1, s2, e

OneEntry == [s \in Starts |-> e]
=============================================================================
