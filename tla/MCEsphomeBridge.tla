-------------------------- MODULE MCEsphomeBridge --------------------------
(***************************************************************************)
(* EsphomeBridge for TLC.  The configuration gives the constants.          *)
(***************************************************************************)
EXTENDS EsphomeBridge
=============================================================================
