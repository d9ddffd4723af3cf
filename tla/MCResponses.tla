---------------------------- MODULE MCResponses ----------------------------
(***************************************************************************)
(* Responses has no constants: every kind of request, error and answer is  *)
(* checked.                                                                *)
(***************************************************************************)
EXTENDS Responses, TLC
=============================================================================
