------------------------------- MODULE MCJournal -------------------------------
(* Small instances of Journal for TLC. *)
EXTENDS Journal, TLC

\* Commands without a payload file are interchangeable; every property is safety.
Symmetry == Permutations(Commands \ Large)

=============================================================================
