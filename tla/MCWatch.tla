-------------------------------- MODULE MCWatch --------------------------------
(* Small instances of Watch for TLC. *)
EXTENDS Watch

CONSTANTS c1, c2, plain, full

\* One watch without and one with an operation and a stall.
TwoDefs == [c \in Calls |-> IF c = c1 THEN plain ELSE full]

\* Both conditions ask for a finished turn; that of the second also for a stall during a turn, and it throws while
\* inputs wait.
Verdicts ==
    [d \in Defs |-> [p \in Observation \X Observation |->
        IF p[1].stalled /\ p[1].state = "queued" THEN "error"
        ELSE IF p[1].done > p[2].done \/ (p[1].stalled /\ p[1].state = "running") THEN "wake"
        ELSE "nothing"]]
=============================================================================
