--------------------------- MODULE MCIntegration ---------------------------
(***************************************************************************)
(* Integration for TLC.  The configuration gives the constants.            *)
(***************************************************************************)
EXTENDS Integration
=============================================================================
