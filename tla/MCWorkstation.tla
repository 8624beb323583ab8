---------------------------- MODULE MCWorkstation ----------------------------
(* Small instances of Workstation for TLC. *)
EXTENDS Workstation

CONSTANTS r1, t1, t2

OneRun == [t \in Tasks |-> r1]
=============================================================================
