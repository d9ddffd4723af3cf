-------------------------- MODULE MCReportPipeline --------------------------
(***************************************************************************)
(* ReportPipeline on small instances: interchangeable workers and slots.   *)
(***************************************************************************)
EXTENDS ReportPipeline, TLC

WorkersAndSlots == Permutations(Workers) \cup Permutations(Jobs)
=============================================================================
