------------------------- MODULE AdapterSetupProofs -------------------------
(***************************************************************************)
(* What the adapter check and its notification guarantee, proved for any   *)
(* number of setups, phones and services, however the tasks of earlier     *)
(* setups interleave with the present one.                                 *)
(***************************************************************************)
EXTENDS AdapterSetup, TLAPS

(* There is a setup whenever its task runs.                                *)
Begun == pc # "stopped" => setups \in Setups

(* A setup that has not begun has left no trace; one that has begun has a  *)
(* notification task.                                                      *)
Fresh ==
    \A i \in Setups : IF i <= setups THEN notifier[i] # "none"
                      ELSE /\ readAs[i] = "unread" /\ ~configDone[i]
                           /\ i \notin entered
                           /\ notifier[i] = "none"

(* A setup reports a conflict exactly if it has read of one.               *)
Reported == \A i \in Setups : leaking[i] # {} <=> readAs[i] = "conflict"

(* What the place of the present task says of the event it must set.       *)
Pending ==
    /\ pc \in {"starting", "failed"} => readAs[setups] = "unread" /\ setups \notin entered
    /\ pc \in {"starting", "failed"} \cup ConfigPcs => ~configDone[setups]

(* A notification task that has ended was woken by its own setup's event,  *)
(* and once the present setup advertises, no older one can still be woken. *)
Woken ==
    /\ \A i \in Setups : notifier[i] = "ended" => configDone[i]
    /\ pc \notin {"stopped", "starting"} =>
         \A i \in 1..(setups - 1) : ~(notifier[i] = "waiting" /\ configDone[i])

(* A device that was listed to be removed is gone, or its turn is to come. *)
Cleared ==
    /\ pc # "remove" => todo = {}
    /\ pc # "stopped" => \A d \in cached : d \in todo \/ device[d] = "none"

Inv == /\ TypeOK /\ Begun /\ Fresh /\ Reported /\ Pending /\ Woken /\ Cleared
       /\ CheckReleased /\ NoticeCurrent

USE DEF setupVars, deviceVars, Setups, ConfigPcs

LEMMA InitInv == Init => Inv
<1> SUFFICES ASSUME Init PROVE Inv
  OBVIOUS
<1>1. TypeOK
  <2>1. device \in [Phones -> {"none", "known", "connected"}] /\ exposed \subseteq Uuids
    BY DEF Init
  <2>2. /\ leaking \in [Setups -> SUBSET Conflicting]
        /\ configDone \in [Setups -> BOOLEAN]
        /\ notifier \in [Setups -> {"none", "waiting", "timedOut", "ended"}]
        /\ readAs \in [Setups -> {"unread", "clean", "conflict"}]
    BY DEF Init
  <2>3. notice \in BOOLEAN
    BY DEF Init
  <2> QED BY <2>1, <2>2, <2>3, AdapterAssumption DEF Init, TypeOK
<1>2. Begun /\ Fresh /\ Reported /\ Pending /\ Woken
  BY AdapterAssumption DEF Init, Begun, Fresh, Reported, Pending, Woken
<1>3. Cleared /\ CheckReleased /\ NoticeCurrent
  BY AdapterAssumption DEF Init, Cleared, CheckReleased, NoticeCurrent
<1> QED BY <1>1, <1>2, <1>3 DEF Inv

(* A new setup: its notification task waits, and those of earlier setups   *)
(* may still be about to be woken.                                         *)
LEMMA StartInv == ASSUME Inv, Start PROVE Inv'
<1>1. TypeOK'
  BY AdapterAssumption DEF Inv, TypeOK, Start
<1>2. setups + 1 \in Setups /\ ~configDone[setups + 1] /\ readAs[setups + 1] = "unread"
  BY AdapterAssumption DEF Inv, TypeOK, Start, Fresh
<1>3. Begun' /\ Fresh' /\ Reported' /\ Pending' /\ Woken'
  BY <1>2, AdapterAssumption
     DEF Inv, TypeOK, Start, Begun, Fresh, Reported, Pending, Woken
<1>4. Cleared' /\ CheckReleased' /\ NoticeCurrent'
  BY <1>2, AdapterAssumption
     DEF Inv, TypeOK, Start, Cleared, CheckReleased, NoticeCurrent
<1> QED BY <1>1, <1>3, <1>4 DEF Inv

(* A step of the task that reads and removes nothing: no older task can be *)
(* woken any more, and the present one waits.                              *)
LEMMA QuietInv ==
    ASSUME Inv,
           StartFails \/ ConnectsToBus \/ SetsProperties \/ ReadFails \/ DBusFails
    PROVE  Inv'
<1>1. /\ UNCHANGED <<setups, todo, deviceVars, exposed, setupVars, notifier, notice>>
      /\ Settled
      /\ \/ pc = "starting" /\ pc' = "failed"
         \/ pc \in ConfigPcs \ {"remove"} /\ pc' \in ConfigPcs
  BY DEF Goes, StartFails, ConnectsToBus, SetsProperties, ReadFails, DBusFails
<1>2. TypeOK'
  BY <1>1 DEF Inv, TypeOK
<1>3. Begun'
  BY <1>1 DEF Inv, Begun
<1>4. Fresh' /\ Reported'
  BY <1>1 DEF Inv, Fresh, Reported
<1>5. Pending'
  BY <1>1 DEF Inv, Pending
<1>6. Woken'
  <2>1. \A i \in 1..(setups - 1) : i \in Setups
    BY AdapterAssumption DEF Inv, TypeOK
  <2> QED BY <1>1, <2>1 DEF Inv, Woken, Settled
<1>7. Cleared' /\ CheckReleased' /\ NoticeCurrent'
  BY <1>1 DEF Inv, TypeOK, Cleared, CheckReleased, NoticeCurrent
<1> QED BY <1>2, <1>3, <1>4, <1>5, <1>6, <1>7 DEF Inv

(* The check begins: from here on it must set its event.                   *)
LEMMA AdvertisesInv == ASSUME Inv, Advertises PROVE Inv'
<1>1. /\ UNCHANGED <<setups, todo, deviceVars, exposed, notifier, notice>>
      /\ UNCHANGED <<leaking, configDone, readAs>>
      /\ Settled /\ pc = "starting" /\ pc' = "dbus"
      /\ entered' = entered \cup {setups} /\ setups \in Setups
  BY DEF Goes, Advertises, Inv, Begun
<1>2. TypeOK'
  BY <1>1 DEF Inv, TypeOK
<1>3. Begun' /\ Fresh' /\ Reported' /\ Pending'
  BY <1>1, AdapterAssumption DEF Inv, TypeOK, Begun, Fresh, Reported, Pending
<1>4. Woken'
  <2>1. \A i \in 1..(setups - 1) : i \in Setups
    BY AdapterAssumption DEF Inv, TypeOK
  <2> QED BY <1>1, <2>1 DEF Inv, Woken, Settled
<1>5. Cleared' /\ CheckReleased' /\ NoticeCurrent'
  BY <1>1 DEF Inv, TypeOK, Cleared, CheckReleased, NoticeCurrent
<1> QED BY <1>2, <1>3, <1>4, <1>5 DEF Inv

(* What is reported is what was read.                                      *)
LEMMA ReadsUuidsInv == ASSUME Inv, ReadsUuids PROVE Inv'
<1>1. setups \in Setups
  BY DEF Inv, Begun, ReadsUuids, Goes
<1>2. TypeOK'
  BY <1>1 DEF Inv, TypeOK, ReadsUuids, Goes, Classify
<1>3. Reported'
  BY <1>1 DEF Inv, TypeOK, Reported, ReadsUuids, Goes, Classify
<1>4. Begun' /\ Fresh' /\ Pending' /\ Woken'
  BY <1>1 DEF Inv, TypeOK, ReadsUuids, Goes, Begun, Fresh, Pending, Woken
<1>5. Cleared' /\ CheckReleased' /\ NoticeCurrent'
  BY <1>1 DEF Inv, TypeOK, ReadsUuids, Goes, Pending, Cleared,
              CheckReleased, NoticeCurrent
<1> QED BY <1>2, <1>3, <1>4, <1>5 DEF Inv

(* Whoever is to be removed is on the list.                                *)
LEMMA ListsDevicesInv == ASSUME Inv, ListsDevices PROVE Inv'
<1>1. TypeOK'
  BY DEF Inv, TypeOK, ListsDevices, Goes, Removable
<1>2. Cleared'
  BY DEF Inv, TypeOK, ListsDevices, Goes, Removable, Cleared
<1>3. Begun' /\ Fresh' /\ Reported' /\ Pending' /\ Woken'
  BY DEF Inv, TypeOK, ListsDevices, Goes, Begun, Fresh, Reported, Pending, Woken
<1>4. CheckReleased' /\ NoticeCurrent'
  BY DEF Inv, TypeOK, ListsDevices, Goes, CheckReleased, NoticeCurrent
<1> QED BY <1>1, <1>2, <1>3, <1>4 DEF Inv

(* A device leaves the list removed, or refused.                           *)
LEMMA RemovesDeviceInv == ASSUME Inv, NEW d \in Phones, RemovesDevice(d) PROVE Inv'
<1>1. TypeOK'
  BY DEF Inv, TypeOK, RemovesDevice, Removes, Goes
<1>2. Cleared'
  BY DEF Inv, TypeOK, RemovesDevice, Removes, Goes, Cleared
<1>3. Begun' /\ Fresh' /\ Reported' /\ Pending' /\ Woken'
  BY DEF Inv, TypeOK, RemovesDevice, Removes, Goes, Begun, Fresh, Reported, Pending, Woken
<1>4. CheckReleased' /\ NoticeCurrent'
  BY DEF Inv, TypeOK, RemovesDevice, Removes, Goes, CheckReleased, NoticeCurrent
<1> QED BY <1>1, <1>2, <1>3, <1>4 DEF Inv

(* The event of the present setup is set.  Its task has not ended, so the  *)
(* notification is not yet its own.                                        *)
LEMMA ReturnsInv == ASSUME Inv, DevicesRemoved \/ FallsBack PROVE Inv'
<1>1. /\ setups \in Setups
      /\ pc \in ConfigPcs /\ pc' = "done"
      /\ Settled
      /\ UNCHANGED <<setups, todo, deviceVars, exposed, leaking, entered, readAs, notifier, notice>>
      /\ configDone' = [configDone EXCEPT ![setups] = TRUE]
  BY DEF DevicesRemoved, FallsBack, Goes, ConfigReturns, Inv, Begun
<1>2. TypeOK'
  BY <1>1 DEF Inv, TypeOK
<1>3. configDone'[setups] /\ \A i \in Setups \ {setups} : configDone'[i] = configDone[i]
  BY <1>1 DEF Inv, TypeOK
<1>4. Begun'
  BY <1>1 DEF Begun
<1>5. Fresh' /\ Reported'
  BY <1>1, <1>3 DEF Inv, TypeOK, Fresh, Reported
<1>6. Pending'
  BY <1>1 DEF Pending
<1>7. Woken'
  BY <1>1, <1>3 DEF Inv, TypeOK, Woken, Settled
<1>8. notifier[setups] # "ended"
  BY <1>1 DEF Inv, Pending, Woken
<1>9. Cleared' /\ NoticeCurrent'
  <2>1. todo = {}
    BY DEF Inv, Cleared, DevicesRemoved, FallsBack, Goes
  <2> QED BY <1>1, <1>8, <2>1 DEF Inv, Cleared, NoticeCurrent
<1>10. CheckReleased'
  BY <1>1, <1>3 DEF Inv, TypeOK, CheckReleased
<1> QED BY <1>2, <1>4, <1>5, <1>6, <1>7, <1>9, <1>10 DEF Inv

(* The finally clause sets the event of a check that is cut off.           *)
LEMMA StopInv == ASSUME Inv, Stop PROVE Inv'
<1>1. /\ setups \in Setups
      /\ pc' = "stopped" /\ todo' = {}
      /\ UNCHANGED <<setups, deviceVars, exposed, leaking, entered, readAs, notifier, notice>>
  BY DEF Stop, Inv, Begun
<1>2. TypeOK'
  BY <1>1 DEF Inv, TypeOK, Stop, ConfigReturns
<1>3. /\ \A i \in Setups \ {setups} : configDone'[i] = configDone[i]
      /\ configDone[setups] => configDone'[setups]
      /\ pc \in ConfigPcs => configDone'[setups]
  BY <1>1 DEF Inv, TypeOK, Stop, ConfigReturns
<1>4. Begun' /\ Pending'
  BY <1>1 DEF Begun, Pending
<1>5. Fresh' /\ Reported'
  BY <1>1, <1>3 DEF Inv, TypeOK, Fresh, Reported
<1>6. Woken'
  BY <1>1, <1>3 DEF Inv, Woken
<1>7. Cleared' /\ NoticeCurrent'
  BY <1>1 DEF Inv, Cleared, NoticeCurrent
<1>8. pc \notin ConfigPcs /\ setups \in entered => configDone[setups]
  BY DEF Stop, Inv, CheckReleased
<1>9. ASSUME NEW i \in entered PROVE configDone'[i]
  <2>1. i \in Setups
    BY DEF Inv, TypeOK
  <2>2. i # setups => configDone[i]
    BY DEF Inv, CheckReleased
  <2>3. CASE i = setups
    BY <1>3, <1>8, <2>3
  <2>4. CASE i # setups
    BY <1>3, <2>1, <2>2, <2>4
  <2> QED BY <2>3, <2>4
<1>10. CheckReleased'
  BY <1>1, <1>9 DEF CheckReleased
<1> QED BY <1>2, <1>4, <1>5, <1>6, <1>7, <1>10 DEF Inv

(* Once the present setup is done, the only task that can be woken is its  *)
(* own, and it shows what that setup found.                                *)
LEMMA NotifierWakesInv == ASSUME Inv, NEW i \in Setups, NotifierWakes(i) PROVE Inv'
<1>1. TypeOK'
  BY DEF Inv, TypeOK, NotifierWakes
<1>2. Begun' /\ Fresh' /\ Reported' /\ Pending' /\ Woken'
  BY DEF Inv, TypeOK, NotifierWakes, Begun, Fresh, Reported, Pending, Woken
<1>3. Cleared' /\ CheckReleased'
  BY DEF Inv, NotifierWakes, Cleared, CheckReleased
<1>4. pc = "done" => i = setups
  BY DEF Inv, TypeOK, NotifierWakes, Fresh, Woken
<1>5. NoticeCurrent'
  BY <1>4 DEF Inv, TypeOK, NotifierWakes, Reported, NoticeCurrent
<1> QED BY <1>1, <1>2, <1>3, <1>5 DEF Inv

LEMMA NotifierTimesOutInv == ASSUME Inv, NEW i \in Setups, NotifierTimesOut(i) PROVE Inv'
<1>1. TypeOK'
  BY DEF Inv, TypeOK, NotifierTimesOut
<1>2. Begun' /\ Fresh' /\ Reported' /\ Pending' /\ Woken'
  BY DEF Inv, TypeOK, NotifierTimesOut, Begun, Fresh, Reported, Pending, Woken
<1>3. Cleared' /\ CheckReleased' /\ NoticeCurrent'
  BY DEF Inv, TypeOK, NotifierTimesOut, Cleared, CheckReleased, NoticeCurrent
<1> QED BY <1>1, <1>2, <1>3 DEF Inv

(* Phones and plugins change the devices only.                             *)
LEMMA OutsideInv ==
    ASSUME Inv,
           \/ \E d \in Phones : PhoneConnects(d) \/ PhoneLeaves(d)
           \/ PluginsChange
           \/ UNCHANGED vars
    PROVE  Inv'
<1>1. TypeOK'
  BY DEF Inv, TypeOK, PhoneConnects, PhoneLeaves, PluginsChange, vars
<1>2. Cleared'
  BY DEF Inv, TypeOK, PhoneConnects, PhoneLeaves, PluginsChange, vars, Cleared
<1>3. Begun' /\ Fresh' /\ Reported' /\ Pending' /\ Woken'
  BY DEF Inv, PhoneConnects, PhoneLeaves, PluginsChange, vars, Begun, Fresh, Reported,
         Pending, Woken
<1>4. CheckReleased' /\ NoticeCurrent'
  BY DEF Inv, PhoneConnects, PhoneLeaves, PluginsChange, vars, CheckReleased, NoticeCurrent
<1> QED BY <1>1, <1>2, <1>3, <1>4 DEF Inv

LEMMA Invariant == Spec => []Inv
<1>1. Init => Inv
  BY InitInv
<1>2. Inv /\ [Next]_vars => Inv'
  BY StartInv, AdvertisesInv, QuietInv, ReadsUuidsInv, ListsDevicesInv, RemovesDeviceInv, ReturnsInv, StopInv,
     NotifierWakesInv, NotifierTimesOutInv, OutsideInv DEF Next, Configures
<1> QED BY <1>1, <1>2, PTL DEF Spec

(* Every variable keeps its type, and only services of the table are ever  *)
(* reported.                                                               *)
THEOREM TypeCorrect == Spec => []TypeOK
<1>1. Inv => TypeOK
  BY DEF Inv
<1> QED BY <1>1, Invariant, PTL

(* The notification follows the last check that read the adapter, however  *)
(* many tasks of earlier setups are left.                                  *)
THEOREM NoticeFollows == Spec => []NoticeCurrent
<1>1. Inv => NoticeCurrent
  BY DEF Inv
<1> QED BY <1>1, Invariant, PTL

(* Whatever ends a check, the task that waits for it is released.          *)
THEOREM WaiterReleased == Spec => []CheckReleased
<1>1. Inv => CheckReleased
  BY DEF Inv
<1> QED BY <1>1, Invariant, PTL

(* A check that went through D-Bus leaves no device that it listed, but    *)
(* those that have connected since and those BlueZ refused to remove.      *)
THEOREM CachesAreCleared == Spec => []CachesCleared
<1>1. Inv => CachesCleared
  BY DEF Inv, Cleared, CachesCleared
<1> QED BY <1>1, Invariant, PTL
=============================================================================
