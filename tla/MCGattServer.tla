---------------------------- MODULE MCGattServer ----------------------------
(***************************************************************************)
(* GattServer for TLC.  The configurations give the constants; ready stays *)
(* short because every action that adds to it is bounded by MaxReady.      *)
(***************************************************************************)
EXTENDS GattServer
=============================================================================
