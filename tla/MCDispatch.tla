------------------------------ MODULE MCDispatch ------------------------------
(* Small instances of Dispatch for TLC. *)
EXTENDS Dispatch

CONSTANTS lead, worker, s1, s2

\* The owner created the lead, the lead its worker.
Team == [a \in Actors |-> IF a = worker THEN lead ELSE Owner]

\* The lead watches how its worker's turns fail and that it stops, and the worker what becomes of the lead.
Watches == [s \in Subscriptions |->
    IF s = s1 THEN [subscriber |-> lead, sources |-> {worker}, kinds |-> {"failed", "interrupted", "stopped"}]
    ELSE [subscriber |-> worker, sources |-> {lead}, kinds |-> {"completed", "stopped", "restarted"}]]

=============================================================================
