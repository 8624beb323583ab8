----------------------------- MODULE MCRunKernel -----------------------------
(* Small instances of RunKernel for TLC. *)
EXTENDS RunKernel, TLC

\* Every actor may create, stop and write to others.
BranchGrants == [a \in Executable |-> {"agent.spawn", "actor.input", "execution.stopOwned"}]

\* Every actor may subscribe.
SubscriberGrants == [a \in Executable |-> {"event.subscribe"}]

\* Agents are interchangeable: no constant names one of them.
Symmetry == Permutations(Agents)
=============================================================================
