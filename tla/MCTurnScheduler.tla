--------------------------- MODULE MCTurnScheduler ---------------------------
(* An instance of the turn scheduler for TLC.  The scheduler keeps its entries  *)
(* per actor; one actor already meets every stop, timer and continuation.       *)
EXTENDS TurnScheduler

CONSTANT agent
=============================================================================
