----------------------------- MODULE ConfigFlow -----------------------------
(***************************************************************************)
(* The config flow: the forms a user goes through, one at a time, until    *)
(* _finish creates an entry.  While a form is shown, and while the flow    *)
(* waits for Home Assistant, the integrations it looked up may change: the *)
(* ESPHome devices with their keys, and the entries of the `bluetooth`     *)
(* integration that would fight over the adapter.                          *)
(*                                                                         *)
(* Integration EXTENDS this module and says what becomes of the entry.     *)
(***************************************************************************)
EXTENDS Naturals, Sequences, FiniteSets, SequencesExt

CONSTANTS
    Hosts,      \* the ESPHome devices Home Assistant may know
    Adapters    \* the entries of the bluetooth integration

ASSUME ConfigAssumption ==
    /\ Hosts \cap {"", "typed"} = {}
    /\ IsFiniteSet(Adapters)

Modes == {"esp32", "esphome", "native"}

(* What an ESPHome entry says of the device's key.                         *)
Keys == {"none", "old", "new"}

NotListed == "not listed"

VARIABLES
    step,       \* the form that is shown, or what the flow waits for
    mode,       \* self._adapter_mode
    host,       \* self._esphome_host: a device, "typed", or "" for none
    key,        \* self._esphome_noise_psk
    options,    \* what _list_esphome_devices said when the form was made
    todo,       \* the conflicts the loop in async_step_native_warn has left
    devices,    \* environment: the key of each known ESPHome device
    enabled,    \* environment: the bluetooth entries that are enabled
    excused     \* history: what has changed, or refused to, since the answer

flowVars == <<step, mode, host, key, options, todo>>
haVars   == <<devices, enabled>>
configVars == <<flowVars, haVars, excused>>

FlowTypeOK ==
    /\ step \in {"none", "user", "scanning", "esp32", "esp32_manual", "esphome",
                 "esphome_manual", "native_warn", "disabling", "finished"}
    /\ mode \in Modes
    /\ host \in Hosts \cup {"", "typed"}
    /\ key \in Keys \cup {"typed"}
    /\ options \in [Hosts -> Keys \cup {NotListed}]
    /\ todo \in Seq(Adapters)
    /\ devices \in [Hosts -> Keys \cup {NotListed}]
    /\ enabled \subseteq Adapters
    /\ excused \subseteq Hosts \cup Adapters

NoOptions == [h \in Hosts |-> NotListed]

FlowInit ==
    /\ step = "none"
    /\ mode = "esp32"
    /\ host = ""
    /\ key = "none"
    /\ options = NoOptions
    /\ todo = <<>>
    /\ devices \in [Hosts -> {NotListed, "old"}]
    /\ enabled \in SUBSET Adapters
    /\ excused = {}

-----------------------------------------------------------------------------
(* _list_esphome_devices and _conflicting_bluetooth_entries, now.          *)

Listed(list) == {h \in Hosts : list[h] # NotListed}

Conflicts == enabled

KeyShown(h) == options[h]

KeyUnguarded(h) == devices[h]

(* psk_by_host is made anew for the answer.                                *)
KeyOf(h) == IF h \in Listed(devices) THEN devices[h] ELSE "none"

-----------------------------------------------------------------------------
(* A flow object has its defaults, and is forgotten when the flow ends.    *)
FlowIs(newStep) ==
    /\ step' = newStep
    /\ mode' = "esp32"
    /\ host' = ""
    /\ key' = "none"
    /\ options' = NoOptions
    /\ todo' = <<>>
    /\ excused' = {}

FlowStarts ==
    /\ step = "none"
    /\ FlowIs("user")
    /\ UNCHANGED haVars

Shows(from, to) ==
    /\ step = from
    /\ step' = to
    /\ UNCHANGED haVars

(* Without conflicts the native flow creates its entry at once.            *)
AfterNative == IF Conflicts = {} THEN "finished" ELSE "native_warn"

(* async_step_user; the scan for serial ports runs in an executor.         *)
ChoosesMode ==
    /\ \/ Shows("user", "scanning") /\ mode' = "esp32" /\ UNCHANGED options
       \/ Shows("user", "esphome") /\ mode' = "esphome" /\ options' = devices
       \/ Shows("user", AfterNative) /\ mode' = "native" /\ UNCHANGED options
    /\ UNCHANGED <<host, key, todo, excused>>

(* async_step_esp32 and async_step_esp32_manual.                           *)
ChoosesPort ==
    /\ \/ Shows("scanning", "esp32")
       \/ Shows("esp32", "finished")
       \/ Shows("esp32", "esp32_manual")
       \/ Shows("esp32_manual", "finished")
    /\ UNCHANGED <<mode, host, key, options, todo, excused>>

(* async_step_esphome: the key is the one the device has when the answer   *)
(* comes, and none if the device is not known any more.                    *)
ChoosesDevice ==
    /\ \/ /\ Shows("esphome", "finished")
          /\ \E h \in Listed(options) : host' = h /\ key' = KeyOf(h)
       \/ Shows("esphome", "esphome_manual") /\ UNCHANGED <<host, key>>
    /\ excused' = {}
    /\ UNCHANGED <<mode, options, todo>>

(* async_step_esphome_manual: what is left after strip() may be nothing.   *)
TypesDevice ==
    /\ Shows("esphome_manual", "finished")
    /\ host' \in {"typed", ""}
    /\ key' \in {"typed", "none"}
    /\ UNCHANGED <<mode, options, todo, excused>>

(* The user may leave the conflicts alone.  Otherwise those there are now  *)
(* are disabled, shown or not.                                             *)
AnswersWarning ==
    /\ \/ Shows("native_warn", "finished") /\ excused' = Adapters /\ UNCHANGED todo
       \/ /\ Conflicts # {}
          /\ Shows("native_warn", "disabling")
          /\ excused' = {}
          /\ todo' = SetToSeq(Conflicts)
    /\ UNCHANGED <<mode, host, key, options>>

LoopEnds == <<>>

LoopGoesOn == Tail(todo)

(* One turn of the loop.  async_set_disabled_by may fail, also because the *)
(* entry is gone; whatever it raises, the loop goes on.                    *)
Disables ==
    /\ step = "disabling"
    /\ \/ /\ enabled' = enabled \ {Head(todo)}
          /\ todo' = Tail(todo)
          /\ UNCHANGED excused
       \/ /\ excused' = excused \cup {Head(todo)}
          /\ todo' = LoopGoesOn
          /\ UNCHANGED enabled
    /\ step' = IF todo' = <<>> THEN "finished" ELSE "disabling"
    /\ UNCHANGED <<mode, host, key, options, devices>>

Flow == FlowStarts \/ ChoosesMode \/ ChoosesPort \/ ChoosesDevice
        \/ TypesDevice \/ AnswersWarning \/ Disables

-----------------------------------------------------------------------------
(* The rest of Home Assistant, during a flow: what happens between two     *)
(* flows is as if it happened at the beginning of the next.                *)

Changed(x) ==
    excused' = IF step \in {"disabling", "finished"} THEN excused \cup {x} ELSE excused

DeviceChanges(h) ==
    /\ step # "none"
    /\ devices' = [devices EXCEPT ![h] = CASE @ = NotListed -> "old"
                                           [] @ = "old"     -> "new"
                                           [] OTHER         -> NotListed]
    /\ Changed(h)
    /\ UNCHANGED <<flowVars, enabled>>

AdapterChanges(a) ==
    /\ step # "none"
    /\ IF a \in enabled
       THEN enabled' = enabled \ {a} /\ UNCHANGED excused
       ELSE enabled' = enabled \cup {a} /\ Changed(a)
    /\ UNCHANGED <<flowVars, devices>>

HaChanges == \/ \E h \in Hosts : DeviceChanges(h)
             \/ \E a \in Adapters : AdapterChanges(a)

-----------------------------------------------------------------------------
(* An entry made of a listed device has the key Home Assistant knew when   *)
(* the user picked it, however long the form was open.                     *)
KeyCurrent ==
    step = "finished" /\ host \in Hosts \ excused =>
       key = (IF devices[host] = NotListed THEN "none" ELSE devices[host])

(* A native entry whose user asked for it starts without a conflict, but   *)
(* for those that refused to be disabled or were enabled meanwhile: one    *)
(* failure does not keep the others, nor does a conflict that came while   *)
(* the form was open.                                                      *)
NoConflictLeft ==
    step = "finished" /\ mode = "native" => enabled \subseteq excused
=============================================================================
