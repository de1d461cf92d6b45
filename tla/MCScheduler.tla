---------------------------- MODULE MCScheduler ----------------------------
(***************************************************************************)
(* Scheduler for TLC: three tables compete for two slots undisturbed, two  *)
(* are disturbed once, one table alone twice.                              *)
(***************************************************************************)
EXTENDS Scheduler

CONSTANTS sick, big, small

MCInit == Init /\ events + 1 >= Cardinality(desired)

MCSpec == MCInit /\ [][Next]_vars /\ Fairness
=============================================================================
