-------------------------- MODULE MCAppLifecycle ---------------------------
(***************************************************************************)
(* AppLifecycle on small instances.                                        *)
(***************************************************************************)
EXTENDS AppLifecycle, TLC
=============================================================================
