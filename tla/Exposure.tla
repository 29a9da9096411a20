------------------------------ MODULE Exposure ------------------------------
(***************************************************************************)
(* Which entities a phone is told about, and whether what it knows of them *)
(* is up to date: the label filters of PacketDispatcher, its answers to    *)
(* REQ_DEVICES, REQ_STATE and REQ_DASHBOARDS, and the STATE_CHANGE packets *)
(* it pushes, while Home Assistant's states and label registry change.     *)
(*                                                                         *)
(* The loop is that of GattServer: on_connect, on_disconnect, the handlers *)
(* of requests and the pushes run in the order they were scheduled, and    *)
(* each sends its packet without suspending.  The transport here neither   *)
(* loses a packet nor reorders two while the link lasts.                   *)
(*                                                                         *)
(* A state is a version number, 0 for an entity that has no state; a label *)
(* stands for its id and its name.  The registries and the phone are not   *)
(* in the repository: their actions follow from how the code reads them    *)
(* and from what it sends.                                                 *)
(***************************************************************************)
EXTENDS ClientLifecycle, Naturals, Sequences

CONSTANTS
    Entities,
    Registered,  \* the entities that have an entry in the entity registry
    Devices,
    NoDevice,
    DeviceOf,    \* the device of an entity, or NoDevice
    Areas,
    NoArea,
    AreaOf,      \* the area of an entity's own entry, or NoArea
    DashLabels,  \* the labels whose name begins with DASH_
    Labellings,  \* bound: which labels are put on which entities and devices
    Unencodable, \* entities with an attribute that json.dumps refuses
    Asks,        \* the requests the phone sends
    MaxChanges,  \* bound: state changes in a behaviour
    MaxPending   \* bound: callbacks and packets outstanding when one is added

(* LABEL_BTDASH and LABEL_BTDASHAA.                                        *)
ExposureNames == {"BTDASH", "BTDASHAA"}

AllLabels == ExposureNames \cup DashLabels

ASSUME ExposureAssumption ==
    /\ Registered \subseteq Entities
    /\ NoDevice \notin Devices
    /\ DeviceOf \in [Entities -> Devices \cup {NoDevice}]
    /\ NoArea \notin Areas
    /\ AreaOf \in [Entities -> Areas \cup {NoArea}]
    /\ ExposureNames \cap DashLabels = {}
    /\ Labellings \subseteq (Registered \cup Devices) \X AllLabels
    /\ Unencodable \subseteq Entities
    /\ Asks \subseteq {"devices", "state", "dashboards"}
    /\ MaxChanges \in Nat
    /\ MaxPending \in Nat

VARIABLES
    labels,     \* the labels that exist
    entLabels,  \* the labels of each entity's entry
    devLabels,  \* the labels of each device
    states,     \* the state machine's version of each entity, 0 for none
    changes,    \* the last version given out
    ready,      \* callbacks scheduled on the loop
    wire,       \* packets under way to the phone
    link,       \* the phone is linked
    asked,      \* it has sent REQ_DEVICES on this link
    mirror,     \* the version it has of each entity it was listed, or 0
    overlap,    \* history: it linked before the last on_disconnect had run
    hidden,     \* history: entities not exposed at some time since on_connect ran
    shown       \* history: entities exposed at some time since the phone linked

regVars   == <<labels, entLabels, devLabels>>
haVars    == <<states, changes>>
phoneVars == <<link, asked, mirror, overlap>>
histVars  == <<hidden, shown>>
vars == <<lifecycleVars, regVars, haVars, ready, wire, phoneVars, histVars>>

-----------------------------------------------------------------------------
(* The filters.                                                            *)

ExposureLabelIds == labels \cap ExposureNames

(* An entity's own labels and its device's.                                *)
EntityLabelIds(e) ==
    entLabels[e] \cup (IF DeviceOf[e] = NoDevice THEN {} ELSE devLabels[DeviceOf[e]])

IsExposed(e) ==
    /\ e \in Registered
    /\ EntityLabelIds(e) \cap ExposureLabelIds # {}

DevicesAnswerUnfiltered(area) ==
    {e \in Registered :
       /\ states[e] # 0
       /\ ExposureLabelIds # {} => EntityLabelIds(e) \cap ExposureLabelIds # {}
       /\ area # NoArea => AreaOf[e] = area}

(* What _handle_req_devices lists for an area, or for NoArea (no filter).  *)
DevicesAnswer(area) ==
    {e \in Registered :
       /\ states[e] # 0
       /\ EntityLabelIds(e) \cap ExposureLabelIds # {}
       /\ area # NoArea => AreaOf[e] = area}

(* Whether _handle_req_state answers with a state and not with a NACK.     *)
StateAnswered(e) == states[e] # 0 /\ IsExposed(e)

-----------------------------------------------------------------------------
(* Data.                                                                   *)

Unknown == [e \in Entities |-> 0]

(* A callback is a request with what it asks for, or a push with the       *)
(* version the event carried.  A packet tells versions of some entities.   *)
ReadyOps == {"connect", "disconnect", "devices", "state", "dashboards", "push"}

Plain(op)    == [op |-> op, told |-> Unknown, area |-> NoArea]
Push(e, v)   == [op |-> "push", told |-> [Unknown EXCEPT ![e] = v], area |-> NoArea]
Listing(S)   == [op |-> "list", told |-> [e \in Entities |-> IF e \in S THEN states[e] ELSE 0]]
Telling(told) == [op |-> "tell", told |-> told]

(* What the phone may ask: the devices of an area or all of them, the      *)
(* state of an entity, the dashboards.                                     *)
Questions ==
    [op : {"devices"}, told : {Unknown}, area : Areas \cup {NoArea}]
      \cup {[Push(e, 1) EXCEPT !.op = "state"] : e \in Entities}
      \cup {Plain("dashboards")}

Callback == [op : ReadyOps, told : [Entities -> Nat], area : Areas \cup {NoArea}]
Packet   == [op : {"list", "tell"}, told : [Entities -> Nat]]

(* The type of every variable; labels that do not exist are on nothing.    *)
TypeOK ==
    /\ LifecycleTypeOK
    /\ labels \subseteq AllLabels
    /\ entLabels \in [Entities -> SUBSET labels]
    /\ devLabels \in [Devices -> SUBSET labels]
    /\ states \in [Entities -> 0..changes]
    /\ changes \in 0..MaxChanges
    /\ ready \in Seq(Callback)
    /\ wire \in Seq(Packet)
    /\ link \in BOOLEAN
    /\ asked \in BOOLEAN
    /\ mirror \in [Entities -> 0..changes]
    /\ overlap \in BOOLEAN
    /\ hidden \subseteq Entities
    /\ shown \subseteq Entities

Init ==
    /\ LifecycleInit
    /\ labels = AllLabels
    /\ entLabels = [e \in Entities |-> {}]
    /\ devLabels = [d \in Devices |-> {}]
    /\ states = Unknown
    /\ changes = 0
    /\ ready = <<>>
    /\ wire = <<>>
    /\ link = FALSE
    /\ asked = FALSE
    /\ mirror = Unknown
    /\ overlap = FALSE
    /\ hidden = {}
    /\ shown = {}

Exposed   == {e \in Entities : IsExposed(e)}
Unexposed == Entities \ Exposed

Room == Len(ready) + Len(wire) < MaxPending

-----------------------------------------------------------------------------
(* Home Assistant.  Each registry step records what is exposed after.      *)

RegistryChanges ==
    /\ hidden' = IF bleClientConnected THEN hidden \cup Unexposed' ELSE hidden
    /\ shown' = IF link THEN shown \cup Exposed' ELSE shown
    /\ UNCHANGED <<lifecycleVars, haVars, ready, wire, phoneVars>>

(* A deleted label is taken off whatever bears it.                         *)
LabelDeleted(n) ==
    /\ n \in labels
    /\ labels' = labels \ {n}
    /\ entLabels' = [e \in Entities |-> entLabels[e] \ {n}]
    /\ devLabels' = [d \in Devices |-> devLabels[d] \ {n}]
    /\ RegistryChanges

LabelsReplaced ==
    /\ labels' = ExposureNames
    /\ UNCHANGED <<entLabels, devLabels>>
    /\ RegistryChanges

(* async_setup_entry creates the exposure labels that are missing.         *)
EnsureBtdashLabels ==
    /\ labels' = labels \cup ExposureNames
    /\ UNCHANGED <<entLabels, devLabels>>
    /\ RegistryChanges

EntityLabelled(e, n) ==
    /\ n \in labels
    /\ <<e, n>> \in Labellings
    /\ entLabels' = [entLabels EXCEPT ![e] = IF n \in @ THEN @ \ {n} ELSE @ \cup {n}]
    /\ UNCHANGED <<labels, devLabels>>
    /\ RegistryChanges

DeviceLabelled(d, n) ==
    /\ n \in labels
    /\ <<d, n>> \in Labellings
    /\ devLabels' = [devLabels EXCEPT ![d] = IF n \in @ THEN @ \ {n} ELSE @ \cup {n}]
    /\ UNCHANGED <<labels, entLabels>>
    /\ RegistryChanges

(* _on_state_changed schedules a push for an exposed entity.               *)
Pushes(e) == stateUnsub /\ IsExposed(e)

StateChanged(e) ==
    /\ changes < MaxChanges
    /\ Room
    /\ changes' = changes + 1
    /\ states' = [states EXCEPT ![e] = changes + 1]
    /\ ready' = IF Pushes(e) THEN Append(ready, Push(e, changes + 1)) ELSE ready
    /\ UNCHANGED <<lifecycleVars, regVars, wire, phoneVars, histVars>>

(* The event of a removed state has no new_state, and nothing is pushed.   *)
StateRemoved(e) ==
    /\ states[e] # 0
    /\ states' = [states EXCEPT ![e] = 0]
    /\ UNCHANGED <<lifecycleVars, regVars, changes, ready, wire, phoneVars, histVars>>

-----------------------------------------------------------------------------
(* The phone.                                                              *)

PhoneConnects ==
    /\ ~link
    /\ Room
    /\ link' = TRUE
    /\ asked' = FALSE
    /\ mirror' = Unknown
    /\ shown' = Exposed
    /\ overlap' = \E i \in DOMAIN ready : ready[i].op = "disconnect"
    /\ ready' = Append(ready, Plain("connect"))
    /\ UNCHANGED <<lifecycleVars, regVars, haVars, wire, hidden>>

(* The phone's link is gone and the server has noticed.                    *)
PhoneGone ==
    /\ link
    /\ Room
    /\ link' = FALSE
    /\ asked' = FALSE
    /\ mirror' = Unknown
    /\ shown' = {}
    /\ overlap' = FALSE
    /\ wire' = <<>>
    /\ ready' = Append(ready, Plain("disconnect"))
    /\ UNCHANGED <<lifecycleVars, regVars, haVars, hidden>>

PhoneAsks(question) ==
    /\ link
    /\ question.op \in Asks
    /\ Room
    /\ asked' = (asked \/ question.op = "devices")
    /\ ready' = Append(ready, question)
    /\ UNCHANGED <<lifecycleVars, regVars, haVars, wire, link, mirror, overlap, histVars>>

(* Once it has asked, a list adds its entities to what the phone knows,    *)
(* and any other packet updates an entity it knows.                        *)
PhoneReceives ==
    /\ wire # <<>>
    /\ mirror' = [e \in Entities |->
                    LET v == Head(wire).told[e]
                    IN  IF asked /\ v # 0 /\ (Head(wire).op = "list" \/ mirror[e] # 0)
                        THEN v ELSE mirror[e]]
    /\ wire' = Tail(wire)
    /\ UNCHANGED <<lifecycleVars, regVars, haVars, ready, link, asked, overlap, histVars>>

-----------------------------------------------------------------------------
(* The loop's callbacks.                                                   *)

Runs(op) ==
    /\ ready # <<>>
    /\ Head(ready).op = op
    /\ ready' = Tail(ready)
    /\ UNCHANGED <<regVars, haVars, phoneVars>>

Send(p) == wire' = IF link THEN Append(wire, p) ELSE wire

RunOnConnect ==
    /\ Runs("connect")
    /\ OnBleClientConnected
    /\ hidden' = Unexposed
    /\ UNCHANGED <<wire, shown>>

RunOnDisconnect ==
    /\ Runs("disconnect")
    /\ OnBleClientDisconnected
    /\ hidden' = {}
    /\ UNCHANGED <<wire, shown>>

(* REQ_DEVICES: the list is made from the states of this moment, or it is  *)
(* longer than a packet may be and the handler raises.                     *)
RunReqDevices ==
    /\ Runs("devices")
    /\ Send(Listing(DevicesAnswer(Head(ready).area))) \/ UNCHANGED wire
    /\ UNCHANGED <<lifecycleVars, histVars>>

(* A state is sent with all its attributes.                                *)
SendState(e, v) ==
    IF e \in Unencodable THEN UNCHANGED wire
    ELSE Send(Telling([Unknown EXCEPT ![e] = v]))

(* REQ_STATE: the state of this moment, or a NACK that tells nothing.      *)
RunReqState ==
    /\ Runs("state")
    /\ \E e \in Entities :
         /\ Head(ready).told[e] # 0
         /\ IF StateAnswered(e) THEN SendState(e, states[e]) ELSE UNCHANGED wire
    /\ UNCHANGED <<lifecycleVars, histVars>>

(* REQ_DASHBOARDS names entities and tells no state.                       *)
RunReqDashboards ==
    /\ Runs("dashboards")
    /\ UNCHANGED <<lifecycleVars, wire, histVars>>

(* A push sends the version its event carried.                             *)
RunPush ==
    /\ Runs("push")
    /\ \E e \in Entities :
         Head(ready).told[e] # 0 /\ SendState(e, Head(ready).told[e])
    /\ UNCHANGED <<lifecycleVars, histVars>>

-----------------------------------------------------------------------------
Registry ==
    \/ \E n \in AllLabels : LabelDeleted(n)
    \/ EnsureBtdashLabels
    \/ \E n \in AllLabels : \E e \in Registered : EntityLabelled(e, n)
    \/ \E n \in AllLabels : \E d \in Devices : DeviceLabelled(d, n)

StateMachine == \E e \in Entities : StateChanged(e) \/ StateRemoved(e)

Phone ==
    \/ PhoneConnects
    \/ PhoneGone
    \/ \E question \in Questions : PhoneAsks(question)
    \/ PhoneReceives

RunReady == RunOnConnect \/ RunOnDisconnect \/ RunReqDevices \/ RunReqState
            \/ RunReqDashboards \/ RunPush

Next == Registry \/ StateMachine \/ Phone \/ RunReady

Spec == Init /\ [][Next]_vars

-----------------------------------------------------------------------------
(* Properties.                                                             *)

(* The phone knows a state only of entities that have been exposed at some *)
(* time since it linked: labels that were deleted, put back or moved, or   *)
(* that another session was answered under, never list it anything else,   *)
(* and a push left from before its link does not make it known.            *)
KnowsOnlyExposed == \A e \in Entities : mirror[e] # 0 => e \in shown

UpToDate(S) ==
    (link /\ asked /\ ready = <<>> /\ wire = <<>>)
       => \A e \in S : mirror[e] # 0 /\ states[e] # 0 => mirror[e] = states[e]

(* A phone with nothing left to receive knows the current state of every   *)
(* entity it was listed that has been exposed ever since it connected and  *)
(* whose attributes can be sent, whatever order changes, requests, pushes  *)
(* and reconnections came in.  When it linked before the loop had come to  *)
(* the last on_disconnect, an answer or a push of the session before may   *)
(* reach it late, and what happened between the two callbacks is not told. *)
MirrorCurrent == ~overlap => UpToDate(Entities \ (hidden \cup Unencodable))
=============================================================================
