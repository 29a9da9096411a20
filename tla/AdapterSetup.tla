---------------------------- MODULE AdapterSetup ----------------------------
(***************************************************************************)
(* What the native bridge does to the Bluetooth adapter when it is set up, *)
(* over several setups of the integration: _configure_adapter with its     *)
(* D-Bus path and its bluetoothctl fallback, and the task that tells the   *)
(* user, in one persistent notification, of services on the adapter that   *)
(* make Android ask for a pairing.                                         *)
(*                                                                         *)
(* The bridge already advertises while this runs, so phones come and go    *)
(* between two D-Bus calls, and stop() may cancel the task at any of them. *)
(* A D-Bus call is answered, if at all, in a later pass of the loop: no    *)
(* answer overtakes a notification task that has been woken (Settled).     *)
(***************************************************************************)
EXTENDS Naturals

CONSTANTS
    Phones,       \* the devices BlueZ may know
    Uuids,        \* the services the adapter may expose
    Conflicting,  \* those in _LEAKING_UUID_TABLE
    MaxSetups     \* bound: setups of the integration

ASSUME AdapterAssumption == Conflicting \subseteq Uuids /\ MaxSetups \in Nat

VARIABLES
    setups,      \* the setup that is or was running last, 0 before the first
    pc,          \* where its task is
    todo,        \* devices it still has to remove
    device,      \* BlueZ's device objects: none, known, or connected
    exposed,     \* Adapter1.UUIDs
    leaking,     \* each setup's leaking_uuids
    configDone,  \* each setup's configure_done
    notifier,    \* where each setup's _post_leak_notification is
    notice,      \* the notification is shown
    entered,     \* history: the setups that began _configure_adapter
    readAs,      \* history: what each setup read of Adapter1.UUIDs
    cached       \* history: devices that were listed to be removed, and
                 \* that neither connected since nor were refused

setupVars  == <<leaking, configDone, entered, readAs>>
deviceVars == <<device, cached>>
vars == <<setups, pc, todo, deviceVars, exposed, setupVars, notifier, notice>>

Setups == 1..MaxSetups

ConfigPcs == {"dbus", "props", "uuids", "objects", "remove", "fallback"}

(* The type of every variable; only services of the table are reported.    *)
TypeOK ==
    /\ setups \in 0..MaxSetups
    /\ pc \in {"stopped", "starting", "failed", "done"} \cup ConfigPcs
    /\ todo \subseteq Phones
    /\ device \in [Phones -> {"none", "known", "connected"}]
    /\ exposed \subseteq Uuids
    /\ leaking \in [Setups -> SUBSET Conflicting]
    /\ configDone \in [Setups -> BOOLEAN]
    /\ notifier \in [Setups -> {"none", "waiting", "timedOut", "ended"}]
    /\ notice \in BOOLEAN
    /\ entered \subseteq Setups
    /\ readAs \in [Setups -> {"unread", "clean", "conflict"}]
    /\ cached \subseteq Phones

Init ==
    /\ setups = 0
    /\ pc = "stopped"
    /\ todo = {}
    /\ device \in [Phones -> {"none", "known"}]
    /\ exposed \in SUBSET Uuids
    /\ leaking = [i \in Setups |-> {}]
    /\ configDone = [i \in Setups |-> FALSE]
    /\ notifier = [i \in Setups |-> "none"]
    /\ notice = FALSE
    /\ entered = {}
    /\ readAs = [i \in Setups |-> "unread"]
    /\ cached = {}

Settled == ~\E i \in Setups : notifier[i] = "waiting" /\ configDone[i]

-----------------------------------------------------------------------------
(* The task of the setup that is running.                                  *)

(* start(): the task is created, and the one that waits for its check.     *)
Start ==
    /\ pc = "stopped"
    /\ setups < MaxSetups
    /\ setups' = setups + 1
    /\ pc' = "starting"
    /\ notifier' = [notifier EXCEPT ![setups + 1] = "waiting"]
    /\ cached' = {}
    /\ UNCHANGED <<todo, device, exposed, setupVars, notice>>

(* The task moves on when a call it awaited is answered.                   *)
Goes(from, to) ==
    /\ pc = from
    /\ Settled
    /\ pc' = to
    /\ UNCHANGED <<setups, exposed, notifier, notice>>

(* The bridge is advertised, and _configure_adapter begins.                *)
Advertises ==
    /\ Goes("starting", "dbus")
    /\ entered' = entered \cup {setups}
    /\ UNCHANGED <<todo, deviceVars, leaking, configDone, readAs>>

(* bless is missing, or BlueZ refuses: the check never runs.               *)
StartFails ==
    /\ Goes("starting", "failed")
    /\ UNCHANGED <<todo, deviceVars, setupVars>>

ConnectsToBus ==
    /\ Goes("dbus", "props")
    /\ UNCHANGED <<todo, deviceVars, setupVars>>

(* Pairable and Discoverable are set.                                      *)
SetsProperties ==
    /\ Goes("props", "uuids")
    /\ UNCHANGED <<todo, deviceVars, setupVars>>

ClassifyAll(u) == u

(* _classify_leaking_uuids.                                                *)
Classify(u) == u \cap Conflicting

ReadsUuids ==
    /\ Goes("uuids", "objects")
    /\ leaking' = [leaking EXCEPT ![setups] = Classify(exposed)]
    /\ readAs' = [readAs EXCEPT ![setups] =
                    IF exposed \cap Conflicting = {} THEN "clean" ELSE "conflict"]
    /\ UNCHANGED <<todo, deviceVars, configDone, entered>>

(* The exception is logged and the rest goes on.                           *)
ReadFails ==
    /\ Goes("uuids", "objects")
    /\ UNCHANGED <<todo, deviceVars, setupVars>>

(* The devices the loop over the managed objects does not pass over.       *)
Removable == {d \in Phones : device[d] = "known"}

ListsDevices ==
    /\ Goes("objects", "remove")
    /\ todo' = Removable
    /\ cached' = Removable
    /\ UNCHANGED <<device, setupVars>>

(* Whether the device is removed, which also ends its connection, or BlueZ *)
(* refuses.                                                                *)
Removes(d) ==
    \/ device' = [device EXCEPT ![d] = "none"] /\ UNCHANGED cached
    \/ cached' = cached \ {d} /\ UNCHANGED device

GivesUpRemoving(d) ==
    /\ d \in todo
    /\ Goes("remove", "remove")
    /\ Removes(d)
    /\ todo' = IF device' = device THEN {} ELSE todo \ {d}
    /\ UNCHANGED setupVars

(* RemoveDevice is called; if it fails, the loop goes on.                  *)
RemovesDevice(d) ==
    /\ d \in todo
    /\ Goes("remove", "remove")
    /\ Removes(d)
    /\ todo' = todo \ {d}
    /\ UNCHANGED setupVars

ConfigReturnsUncancelled ==
    configDone' = IF pc \in {"remove", "fallback"}
                  THEN [configDone EXCEPT ![setups] = TRUE]
                  ELSE configDone

(* The finally clause, however _configure_adapter ends.                    *)
ConfigReturns == configDone' = [configDone EXCEPT ![setups] = TRUE]

DevicesRemoved ==
    /\ todo = {}
    /\ Goes("remove", "done")
    /\ ConfigReturns
    /\ UNCHANGED <<todo, deviceVars, leaking, entered, readAs>>

(* No D-Bus library, no bus, or a call outside the two inner handlers      *)
(* raises.                                                                 *)
DBusFails ==
    /\ \E from \in {"dbus", "props", "objects"} : Goes(from, "fallback")
    /\ UNCHANGED <<todo, deviceVars, setupVars>>

(* The three bluetoothctl commands, whatever comes of each.                *)
FallsBack ==
    /\ Goes("fallback", "done")
    /\ ConfigReturns
    /\ UNCHANGED <<todo, deviceVars, leaking, entered, readAs>>

(* stop() cancels the task; within _configure_adapter the finally runs.    *)
Stop ==
    /\ pc # "stopped"
    /\ pc' = "stopped"
    /\ IF pc \in ConfigPcs THEN ConfigReturns ELSE UNCHANGED configDone
    /\ todo' = {}
    /\ UNCHANGED <<setups, deviceVars, exposed, leaking, entered, readAs, notifier,
                   notice>>

-----------------------------------------------------------------------------
(* _post_leak_notification, which stop() does not cancel.                  *)

NotifierPostsOnly(i) ==
    /\ notifier[i] = "waiting"
    /\ configDone[i]
    /\ notice' = (notice \/ leaking[i] # {})
    /\ notifier' = [notifier EXCEPT ![i] = "ended"]
    /\ UNCHANGED <<setups, pc, todo, deviceVars, exposed, setupVars>>

(* The event is set: the notification is created, or dismissed.            *)
NotifierWakes(i) ==
    /\ notifier[i] = "waiting"
    /\ configDone[i]
    /\ notice' = (leaking[i] # {})
    /\ notifier' = [notifier EXCEPT ![i] = "ended"]
    /\ UNCHANGED <<setups, pc, todo, deviceVars, exposed, setupVars>>

(* Twenty seconds have passed.                                             *)
NotifierTimesOut(i) ==
    /\ notifier[i] = "waiting"
    /\ ~configDone[i]
    /\ notifier' = [notifier EXCEPT ![i] = "timedOut"]
    /\ UNCHANGED <<setups, pc, todo, deviceVars, exposed, setupVars, notice>>

-----------------------------------------------------------------------------
(* The phones and the host.                                                *)

PhoneConnects(d) ==
    /\ pc \in ConfigPcs \cup {"done"}
    /\ device[d] # "connected"
    /\ device' = [device EXCEPT ![d] = "connected"]
    /\ cached' = cached \ {d}
    /\ UNCHANGED <<setups, pc, todo, exposed, setupVars, notifier, notice>>

PhoneLeaves(d) ==
    /\ device[d] = "connected"
    /\ device' = [device EXCEPT ![d] = "known"]
    /\ UNCHANGED <<setups, pc, todo, exposed, setupVars, notifier, notice, cached>>

(* The user applies the fix, or a host update undoes it: bluetoothd is     *)
(* restarted with other plugins, and every connection is lost.             *)
PluginsChange ==
    /\ exposed' \in SUBSET Uuids
    /\ exposed' # exposed
    /\ device' = [d \in Phones |-> IF device[d] = "connected" THEN "known" ELSE device[d]]
    /\ UNCHANGED <<setups, pc, todo, setupVars, notifier, notice, cached>>

-----------------------------------------------------------------------------
Configures ==
    \/ Advertises
    \/ StartFails
    \/ ConnectsToBus
    \/ SetsProperties
    \/ ReadsUuids
    \/ ReadFails
    \/ ListsDevices
    \/ \E d \in Phones : RemovesDevice(d)
    \/ DevicesRemoved
    \/ DBusFails
    \/ FallsBack

Next ==
    \/ Start
    \/ Configures
    \/ Stop
    \/ \E i \in Setups : NotifierWakes(i) \/ NotifierTimesOut(i)
    \/ \E d \in Phones : PhoneConnects(d) \/ PhoneLeaves(d)
    \/ PluginsChange

Spec == Init /\ [][Next]_vars

-----------------------------------------------------------------------------
(* Properties.                                                             *)

(* Reloads do not confuse the notification, although the tasks of earlier  *)
(* setups are never cancelled and share it: when a setup has read the      *)
(* adapter, and its task was not too late, the notification is shown       *)
(* exactly if that setup found a conflict.                                 *)
NoticeCurrent ==
    /\ setups > 0
    /\ pc = "done"
    /\ readAs[setups] # "unread"
    /\ notifier[setups] = "ended"
    => (notice <=> readAs[setups] = "conflict")

(* However a check that has begun ends -- on D-Bus, by the fallback, by a  *)
(* failure at any call, or cancelled while it awaits one -- the task that  *)
(* waits for it is released.                                               *)
CheckReleased ==
    \A i \in entered : configDone[i] \/ (i = setups /\ pc \in ConfigPcs)

(* A check that went through D-Bus leaves no cached device behind: of      *)
(* those that were disconnected when it listed them, all are gone but the  *)
(* ones that have connected since and the ones BlueZ refused to remove,    *)
(* whatever phones come and go between the calls, and whichever of several *)
(* removals fails.                                                         *)
CachesCleared == pc = "done" => \A d \in cached : device[d] = "none"
=============================================================================
