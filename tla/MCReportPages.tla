--------------------------- MODULE MCReportPages ---------------------------
(***************************************************************************)
(* ReportPages on small instances.                                         *)
(***************************************************************************)
EXTENDS ReportPages, TLC
=============================================================================
