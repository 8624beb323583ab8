----------------------------- MODULE MCWriterLock -----------------------------
(* Small instances of WriterLock for TLC. *)
EXTENDS WriterLock

CONSTANTS p1, p2, p3

\* Two processes on one machine, the third on another one with the same folder.
Hosts == [p \in Processes |-> IF p = p3 THEN "second" ELSE "first"]

=============================================================================
