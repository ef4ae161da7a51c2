----------------------------- MODULE MCCwKeyers -----------------------------
(* Instances of CwSupervisor for TLC.                                       *)
EXTENDS CwSupervisor, TLC

ConsoleSymmetry == Permutations(Consoles) \cup Permutations(Tickets) \cup Permutations(Jobs)
=============================================================================
