---------------------------- MODULE MCUsbBridge ----------------------------
(***************************************************************************)
(* UsbBridge for TLC.  The configurations give the constants.              *)
(***************************************************************************)
EXTENDS UsbBridge
=============================================================================
