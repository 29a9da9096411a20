---------------------------- MODULE Integration ----------------------------
(***************************************************************************)
(* The integration as Home Assistant runs it: the config flow makes an     *)
(* entry, async_setup_entry makes a server for it and the OTA button that  *)
(* refers to it, async_unload_entry takes them down again, the update      *)
(* listener reloads.  A server is what BridgeContract says of it.          *)
(*                                                                         *)
(* Home Assistant serialises what happens to one entry, so an entry is in  *)
(* one place at a time; several entries interleave.  It does not call      *)
(* async_unload_entry for an entry whose setup has failed, and answers     *)
(* FALSE, without raising, when a platform's unload fails.                 *)
(***************************************************************************)
EXTENDS ConfigFlow

CONSTANTS
    Entries,    \* the entries that can be made
    Servers,    \* bound: the servers there can be at a time
    NoEntry, NoServer

ASSUME IntegrationAssumption == NoEntry \notin Entries /\ NoServer \notin Servers

VARIABLES
    at,         \* where Home Assistant is with each entry
    data,       \* entry.data: its mode, if it names one, or "no host"
    next,       \* what an unload is for
    life,       \* of each server object, "none" before start and after stop,
                \* "left" when its stop() raised: it may still run
    owner,      \* the entry a server object was made for
    held,       \* hass.data[DOMAIN][entry_id]
    button,     \* the server the entry's OTA button holds
    spilled,    \* history: entries with a server started by a setup that failed,
                \* or with one whose stop() raised
    leftover    \* history: entries whose button outlived its platform's unload

serverVars == <<life, owner>>
entryVars  == <<at, data, next, held, button, spilled, leftover>>
vars == <<configVars, serverVars, entryVars>>

TypeOK ==
    /\ FlowTypeOK
    /\ at \in [Entries -> {"absent", "idle", "forwarding", "loaded", "unloading",
                           "unloaded", "stopping", "error"}]
    /\ data \in [Entries -> Modes \cup {"legacy", "no host"}]
    /\ next \in [Entries -> {"idle", "absent"}]
    /\ life \in [Servers -> {"none", "running", "stopping", "left"}]
    /\ owner \in [Servers -> Entries \cup {NoEntry}]
    /\ held \in [Entries -> Servers \cup {NoServer}]
    /\ button \in [Entries -> Servers \cup {NoServer}]
    /\ spilled \subseteq Entries
    /\ leftover \subseteq Entries

(* Entries of an earlier version name no mode.                             *)
Init ==
    /\ FlowInit
    /\ at \in [Entries -> {"absent", "idle"}]
    /\ data = [e \in Entries |-> "legacy"]
    /\ next = [e \in Entries |-> "idle"]
    /\ life = [s \in Servers |-> "none"]
    /\ owner = [s \in Servers |-> NoEntry]
    /\ held = [e \in Entries |-> NoServer]
    /\ button = [e \in Entries |-> NoServer]
    /\ spilled = {}
    /\ leftover = {}

-----------------------------------------------------------------------------
(* An ESPHome entry may have no host.                                      *)
EntryData == IF mode = "esphome" /\ host = "" THEN "no host" ELSE mode

(* _finish: Home Assistant adds the entry.                                 *)
EntryMade(e) ==
    /\ step = "finished"
    /\ at[e] = "absent"
    /\ at' = [at EXCEPT ![e] = "idle"]
    /\ data' = [data EXCEPT ![e] = EntryData]
    /\ FlowIs("none")
    /\ UNCHANGED <<haVars, serverVars, next, held, button, spilled, leftover>>

(* async_migrate_entry runs before every setup and changes only an entry   *)
(* that has no mode yet.                                                   *)
Migrated(d) == IF d = "legacy" THEN "esp32" ELSE d

NewServer == CHOOSE s \in Servers : life[s] = "none"

(* async_setup_entry up to its first wait: an ESPHome entry without a host *)
(* is refused, any other has its server made, started and kept.            *)
SetupBegins(e) ==
    /\ at[e] = "idle"
    /\ data' = [data EXCEPT ![e] = Migrated(@)]
    /\ IF data[e] = "no host"
       THEN at' = [at EXCEPT ![e] = "error"] /\ UNCHANGED <<serverVars, held>>
       ELSE /\ at' = [at EXCEPT ![e] = "forwarding"]
            /\ \E s \in Servers : life[s] = "none"
            /\ life' = [life EXCEPT ![NewServer] = "running"]
            /\ owner' = [owner EXCEPT ![NewServer] = e]
            /\ held' = [held EXCEPT ![e] = NewServer]
    /\ UNCHANGED <<configVars, next, button, spilled, leftover>>

(* The button platform takes the server out of hass.data, and the setup    *)
(* ends with the update listener.  Where an old button was left behind, it *)
(* may stay in the way of the new one.                                     *)
SetupEnds(e) ==
    /\ at[e] = "forwarding"
    /\ at' = [at EXCEPT ![e] = "loaded"]
    /\ \/ data[e] = "esp32" /\ button' = [button EXCEPT ![e] = held[e]]
       \/ data[e] # "esp32" /\ UNCHANGED button
       \/ e \in leftover /\ UNCHANGED button
    /\ UNCHANGED <<configVars, serverVars, data, next, held, spilled, leftover>>

(* async_forward_entry_setups raises: the server runs on.                  *)
SetupFails(e) ==
    /\ at[e] = "forwarding"
    /\ at' = [at EXCEPT ![e] = "error"]
    /\ spilled' = spilled \cup {e}
    /\ UNCHANGED <<configVars, serverVars, data, next, held, button, leftover>>

(* A reload, which the update listener asks for as well, or the removal of *)
(* the entry.  A loaded entry is unloaded first.                           *)
TakenDown(e, purpose) ==
    /\ at[e] \in {"loaded", "error"}
    /\ at' = [at EXCEPT ![e] = IF @ = "loaded" THEN "unloading" ELSE purpose]
    /\ next' = [next EXCEPT ![e] = IF at[e] = "loaded" THEN purpose ELSE @]
    /\ UNCHANGED <<configVars, serverVars, data, held, button, spilled, leftover>>

ServerPopped(e) == UNCHANGED life

(* server.stop() is called.                                                *)
ServerStops(e) == life' = [life EXCEPT ![held[e]] = "stopping"]

StopsBeforePlatforms(e) ==
    /\ at[e] = "unloading"
    /\ at' = [at EXCEPT ![e] = "unloaded"]
    /\ ServerStops(e)
    /\ UNCHANGED <<configVars, owner, data, next, held, button, spilled, leftover>>

(* async_unload_platforms: the button goes with its platform, or the       *)
(* unload fails and leaves it; async_unload_entry ignores which.           *)
PlatformsUnload(e) ==
    /\ at[e] = "unloading"
    /\ at' = [at EXCEPT ![e] = "unloaded"]
    /\ \/ /\ button' = [button EXCEPT ![e] = NoServer]
          /\ leftover' = leftover \ {e}
       \/ /\ button[e] # NoServer
          /\ leftover' = leftover \cup {e}
          /\ UNCHANGED button
    /\ UNCHANGED <<configVars, serverVars, data, next, held, spilled>>

(* Then the server is taken out of hass.data and its stop() is awaited.    *)
Unloads(e) ==
    /\ at[e] = "unloaded"
    /\ at' = [at EXCEPT ![e] = "stopping"]
    /\ ServerStops(e)
    /\ held' = [held EXCEPT ![e] = NoServer]
    /\ UNCHANGED <<configVars, owner, data, next, button, spilled, leftover>>

StopReturns(s) ==
    /\ life[s] = "stopping"
    /\ life' = [life EXCEPT ![s] = "none"]
    /\ owner' = [owner EXCEPT ![s] = NoEntry]
    /\ UNCHANGED <<configVars, entryVars>>

(* What stop() raises is only logged, and what it had not got to runs on.  *)
StopRaises(s) ==
    /\ life[s] = "stopping"
    /\ life' = [life EXCEPT ![s] = "left"]
    /\ spilled' = spilled \cup {owner[s]}
    /\ UNCHANGED <<configVars, owner, at, data, next, held, button, leftover>>

(* stop() has returned, or raised what is only logged.                     *)
UnloadEnds(e) ==
    /\ at[e] = "stopping"
    /\ \A s \in Servers : owner[s] = e => life[s] # "stopping"
    /\ at' = [at EXCEPT ![e] = next[e]]
    /\ next' = [next EXCEPT ![e] = "idle"]
    /\ UNCHANGED <<configVars, serverVars, data, held, button, spilled, leftover>>

-----------------------------------------------------------------------------
Steps(e) == \/ SetupBegins(e) \/ SetupEnds(e) \/ SetupFails(e)
            \/ PlatformsUnload(e) \/ Unloads(e) \/ UnloadEnds(e)

Outside == (Flow \/ HaChanges) /\ UNCHANGED <<serverVars, entryVars>>

Next ==
    \/ Outside
    \/ \E e \in Entries : EntryMade(e) \/ Steps(e)
    \/ \E e \in Entries : \E purpose \in {"idle", "absent"} : TakenDown(e, purpose)
    \/ \E s \in Servers : StopReturns(s) \/ StopRaises(s)

Spec == Init /\ [][Next]_vars

-----------------------------------------------------------------------------
Live(e) == {s \in Servers : owner[s] = e /\ life[s] # "none"}

Running(e) == {s \in Live(e) : life[s] = "running"}

(* Whatever reloads and removals there are, an entry whose setups have not *)
(* failed and whose servers' stop() have not raised has at most one        *)
(* server: the one in hass.data runs from the setup to the unload, and     *)
(* when Home Assistant goes on to the next setup, or forgets the entry,    *)
(* the stop() of the last has returned.                                    *)
OneServer ==
    \A e \in Entries \ spilled :
       /\ Cardinality(Live(e)) <= 1
       /\ Running(e) = (IF at[e] \in {"forwarding", "loaded", "unloading", "unloaded"}
                        THEN {held[e]} ELSE {})
       /\ at[e] \in {"absent", "idle", "error"} => Live(e) = {}

(* While no platform's unload has failed, the OTA button never talks to a  *)
(* server of the past: whatever setups failed, stop()s raised and reloads  *)
(* there were, the one it holds runs and is the one in hass.data.  A       *)
(* button that outlives its platform's unload, which async_unload_entry    *)
(* does not look at, is the exception: its server is stopped all the same. *)
ButtonCurrent ==
    \A e \in Entries \ leftover :
       button[e] # NoServer => held[e] = button[e] /\ life[button[e]] = "running"
=============================================================================
