--------------------------- MODULE BridgeContract ---------------------------
(***************************************************************************)
(* What Home Assistant may expect of a server between its start() and the  *)
(* end of its stop(), whatever it is connected to: it listens to           *)
(* state_changed only during a session, a call of stop() ends the          *)
(* listening for good, no session begins after it, and when stop() returns *)
(* there is none.                                                          *)
(***************************************************************************)

VARIABLES
    phase,      \* of the server: "new", "running", "stopping", "stopped"
    session,    \* there is a connection to the device
    listening   \* the listener of state_changed is registered

contractVars == <<phase, session, listening>>

ContractInit == phase = "new" /\ session = FALSE /\ listening = FALSE

Starts ==
    /\ phase = "new"
    /\ phase' = "running"
    /\ UNCHANGED <<session, listening>>

SessionBegins ==
    /\ phase = "running" /\ ~session
    /\ session' = TRUE
    /\ UNCHANGED <<phase, listening>>

(* A phone comes or goes, as far as the server knows.                      *)
PhoneComes ==
    /\ phase = "running" /\ session
    /\ listening' = TRUE
    /\ UNCHANGED <<phase, session>>

PhoneGoes ==
    /\ listening
    /\ listening' = FALSE
    /\ UNCHANGED <<phase, session>>

SessionEnds ==
    /\ session
    /\ session' = FALSE
    /\ listening' = FALSE
    /\ UNCHANGED phase

StopCalled ==
    /\ phase = "running"
    /\ phase' = "stopping"
    /\ listening' = FALSE
    /\ UNCHANGED session

StopEnds ==
    /\ phase = "stopping" /\ ~session
    /\ phase' = "stopped"
    /\ UNCHANGED <<session, listening>>

ContractNext == Starts \/ SessionBegins \/ PhoneComes \/ PhoneGoes
                \/ SessionEnds \/ StopCalled \/ StopEnds

ContractSpec == ContractInit /\ [][ContractNext]_contractVars
=============================================================================
