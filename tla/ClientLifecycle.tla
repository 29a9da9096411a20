-------------------------- MODULE ClientLifecycle --------------------------
(***************************************************************************)
(* The part of PacketDispatcher every transport shares: does the Android   *)
(* end of the bridge count as connected, and is the integration listening  *)
(* to Home Assistant's state_changed events on its behalf.                 *)
(*                                                                         *)
(* Every action here is one synchronous call made on the event loop, so    *)
(* it is atomic.  A transport module EXTENDS this one and calls the two    *)
(* hooks as part of its own actions.                                       *)
(***************************************************************************)

VARIABLES
    bleClientConnected,  \* self._ble_client_connected
    stateUnsub           \* self._state_unsub is set: the listener is registered

lifecycleVars == <<bleClientConnected, stateUnsub>>

LifecycleTypeOK == bleClientConnected \in BOOLEAN /\ stateUnsub \in BOOLEAN

LifecycleInit == bleClientConnected = FALSE /\ stateUnsub = FALSE

(* async_listen is only reached when no listener is registered.            *)
SubscribeStateChanges == stateUnsub' = TRUE

(* A second "connected" report returns before it subscribes again.         *)
OnBleClientConnected ==
    IF bleClientConnected
    THEN UNCHANGED lifecycleVars
    ELSE bleClientConnected' = TRUE /\ SubscribeStateChanges

OnlyListenerRemoved ==
    stateUnsub' = FALSE /\ UNCHANGED bleClientConnected

(* The listener is removed only when a client counted as connected.        *)
OnBleClientDisconnected ==
    IF bleClientConnected
    THEN bleClientConnected' = FALSE /\ stateUnsub' = FALSE
    ELSE UNCHANGED lifecycleVars

=============================================================================
