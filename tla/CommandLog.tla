------------------------------ MODULE CommandLog ------------------------------
(***************************************************************************)
(* What the journal of one run promises to its callers: a log of commands  *)
(* that only grows and takes every command at most once, a view of it that *)
(* the runtime works with, and answers that the log never takes back.      *)
(***************************************************************************)
EXTENDS Naturals, SequencesExt

CONSTANTS Commands,
          BatchSize      \* bound: the commands that one batch brings

VARIABLES
    log,       \* the committed commands, in order
    view,      \* the part of the log the runtime has taken over
    answered   \* the commands a caller was told are done

vars == <<log, view, answered>>

Init == log = <<>> /\ view = <<>> /\ answered = {}

\* A decision of the runtime, or a batch that a fork or an import brings along.
Commit == \E b \in SeqOf(Commands, BatchSize) :
    /\ b # <<>> /\ IsInjective(log \o b)
    /\ log' = log \o b
    /\ UNCHANGED <<view, answered>>

\* The runtime follows the log, and starts over when its process does.
Show == \E n \in 0..Len(log) :
    view' = SubSeq(log, 1, n) /\ UNCHANGED <<log, answered>>

Answer == \E S \in SUBSET ToSet(view) :
    answered' = answered \cup S /\ UNCHANGED <<log, view>>

Next == Commit \/ Show \/ Answer
Spec == Init /\ [][Next]_vars

=============================================================================
