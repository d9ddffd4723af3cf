----------------------------- MODULE MCJobQueue -----------------------------
(***************************************************************************)
(* JobQueue on small instances: interchangeable workers and row slots.     *)
(***************************************************************************)
EXTENDS JobQueue, TLC

WorkersAndSlots == Permutations(Workers) \cup Permutations(Jobs)
=============================================================================
