----------------------------- MODULE UsbBridge -----------------------------
(***************************************************************************)
(* The USB bridge: UsbSerialServer, between the packet dispatcher and an   *)
(* ESP32-S3 that holds the phone's BLE link.  Everything runs on one       *)
(* asyncio loop, so an action is the code between two awaits.  The actors  *)
(* are                                                                     *)
(*                                                                         *)
(*   - the task _run: it opens the port, drains it, and runs the bridge,   *)
(*     whose reader handles one frame at a time, service calls included;   *)
(*   - the write worker, which empties the session's write queue;          *)
(*   - the tasks that push a state change;                                 *)
(*   - the caller of stop(), and whoever presses the OTA button;           *)
(*   - the ESP32 and its phone, and whoever unplugs them.                  *)
(*                                                                         *)
(* A packet in the write queue is only counted: each is one length-        *)
(* prefixed frame, queued or dropped whole.                                *)
(***************************************************************************)
EXTENDS ClientLifecycle, Integers, Sequences

CONSTANTS
    Frames,     \* what the ESP32 may send besides control messages
    QCap,       \* capacity of _write_queue (64 in the code)
    MaxInbox,   \* bound: frames received and not yet read
    MaxPushes   \* bound: push tasks scheduled and not yet run

ASSUME UsbAssumption ==
    /\ Frames \subseteq {"query", "call", "reject", "junk"}
    /\ QCap \in Nat \ {0}
    /\ MaxInbox \in Nat
    /\ MaxPushes \in Nat

VARIABLES
    running,    \* self._running
    runPc,      \* where the task _run is
    cancelled,  \* stop() has cancelled it and it has not noticed
    hasQueue,   \* self._write_queue is not None
    queued,     \* how many packets it holds
    worker,     \* where _write_worker of this session is
    inbox,      \* frames in the stream reader
    broken,     \* the serial connection of this session is lost
    pushes,     \* scheduled push tasks
    stopPc,     \* where stop is
    plugged,    \* the port is there
    espClient,  \* the ESP32 has a phone
    missed,     \* history: the ESP32's last control message was lost
    forgotten   \* history: a session ended that the ESP32's phone outlived,
                \* and the ESP32 has sent no control message since

sendVars == <<hasQueue, queued>>
taskVars == <<running, runPc, cancelled>>
lossVars == <<missed, forgotten>>
espVars  == <<plugged, espClient, lossVars>>
vars == <<lifecycleVars, taskVars, sendVars, worker, inbox, broken, pushes,
          stopPc, espVars>>

Controls == {"up", "down"}

(* The type of every variable; the write queue never holds more than QCap. *)
TypeOK ==
    /\ LifecycleTypeOK
    /\ running \in BOOLEAN
    /\ runPc \in {"off", "opening", "drain", "reading", "calling", "closing",
                  "backoff", "ended"}
    /\ cancelled \in BOOLEAN
    /\ hasQueue \in BOOLEAN
    /\ queued \in 0..QCap
    /\ worker \in {"off", "up", "dead", "done"}
    /\ inbox \in Seq(Frames \cup Controls)
    /\ broken \in BOOLEAN
    /\ pushes \in 0..MaxPushes
    /\ stopPc \in {"idle", "stopping", "stopped"}
    /\ plugged \in BOOLEAN
    /\ espClient \in BOOLEAN
    /\ missed \in BOOLEAN
    /\ forgotten \in BOOLEAN

Init ==
    /\ LifecycleInit
    /\ running = FALSE
    /\ runPc = "off"
    /\ cancelled = FALSE
    /\ hasQueue = FALSE
    /\ queued = 0
    /\ worker = "off"
    /\ inbox = <<>>
    /\ broken = FALSE
    /\ pushes = 0
    /\ stopPc = "idle"
    /\ plugged \in BOOLEAN
    /\ espClient = FALSE
    /\ missed = FALSE
    /\ forgotten = FALSE

Bridging == runPc \in {"reading", "calling"}

HasControl(q) == \E i \in 1..Len(q) : q[i] \in Controls

(* What the dispatcher will believe once it has read q, if it believes b:  *)
(* what the last control message says, or b if there is none.              *)
ViewAfter(b, q) ==
    \/ b /\ ~HasControl(q)
    \/ \E i \in 1..Len(q) :
         q[i] = "up" /\ \A j \in (i + 1)..Len(q) : q[j] \notin Controls

-----------------------------------------------------------------------------
(* Sending.                                                                *)

SendUnbounded(n) ==
    /\ queued' = IF hasQueue THEN queued + n ELSE queued
    /\ UNCHANGED hasQueue

(* _send_raw, n times in a row: with no queue nothing is sent, and each    *)
(* packet that finds it full is dropped.                                   *)
Send(n) ==
    IF ~hasQueue THEN UNCHANGED sendVars
    ELSE /\ queued' = IF queued + n <= QCap THEN queued + n ELSE QCap
         /\ UNCHANGED hasQueue

-----------------------------------------------------------------------------
(* The task _run.                                                          *)

Start ==
    /\ runPc = "off"
    /\ running' = TRUE
    /\ runPc' = "opening"
    /\ UNCHANGED <<lifecycleVars, cancelled, sendVars, worker, inbox, broken,
                   pushes, stopPc, espVars>>

(* The task goes on from where it is, unless it has been cancelled.        *)
Goes(from, to) ==
    /\ runPc = from
    /\ ~cancelled
    /\ runPc' = to
    /\ UNCHANGED <<running, cancelled, stopPc, plugged, espClient>>

(* A new stream: what the last one still held is never read.               *)
Opens ==
    /\ plugged
    /\ Goes("opening", "drain")
    /\ inbox' = <<>>
    /\ missed' = (missed \/ HasControl(inbox))
    /\ broken' = FALSE
    /\ UNCHANGED <<lifecycleVars, sendVars, worker, pushes, forgotten>>

OpenFailsForGood ==
    /\ Goes("opening", "ended")
    /\ UNCHANGED <<lifecycleVars, sendVars, worker, inbox, broken, pushes, lossVars>>

(* The port is not there, is busy or may not be opened: wait and try again. *)
OpenFails ==
    /\ Goes("opening", "backoff")
    /\ UNCHANGED <<lifecycleVars, sendVars, worker, inbox, broken, pushes, lossVars>>

BackoffEnds ==
    /\ Goes("backoff", IF running THEN "opening" ELSE "ended")
    /\ UNCHANGED <<lifecycleVars, sendVars, worker, inbox, broken, pushes, lossVars>>

(* _drain throws away whatever arrives, control messages included.         *)
DrainDiscards ==
    /\ Goes("drain", "drain")
    /\ inbox # <<>>
    /\ inbox' = <<>>
    /\ missed' = (missed \/ HasControl(inbox))
    /\ UNCHANGED <<lifecycleVars, sendVars, worker, broken, pushes, forgotten>>

(* The connection is lost with an exception while _drain reads.            *)
DrainFails ==
    /\ broken
    /\ Goes("drain", IF running THEN "backoff" ELSE "ended")
    /\ UNCHANGED <<lifecycleVars, sendVars, worker, inbox, broken, pushes, lossVars>>

(* A second later _bridge makes a new queue, starts the worker and queues  *)
(* restart_adv.                                                            *)
BridgeStarts ==
    /\ Goes("drain", "reading")
    /\ hasQueue' = TRUE
    /\ queued' = 1
    /\ worker' = "up"
    /\ UNCHANGED <<lifecycleVars, inbox, broken, pushes, lossVars>>

(* The reader goes on to the next frame, or to the service it has to call. *)
(* What is buffered when the connection is lost may still be read.         *)
Reads(f, to) ==
    /\ inbox # <<>>
    /\ Head(inbox) = f
    /\ Goes("reading", to)
    /\ inbox' = Tail(inbox)
    /\ UNCHANGED <<worker, broken, pushes>>

ReadsControlLogsDown ==
    \/ Reads("up", "reading") /\ OnBleClientConnected /\ UNCHANGED <<sendVars, lossVars>>
    \/ Reads("down", "reading") /\ UNCHANGED <<lifecycleVars, sendVars, lossVars>>

(* _handle_control.                                                        *)
ReadsControl ==
    \/ Reads("up", "reading") /\ OnBleClientConnected /\ UNCHANGED <<sendVars, lossVars>>
    \/ Reads("down", "reading") /\ OnBleClientDisconnected /\ UNCHANGED <<sendVars, lossVars>>

(* A packet is handled before the next is read: a query gets its ACK and   *)
(* its answer, a service call its ACK before the reader waits for it.      *)
ReadsPacket ==
    /\ \/ Reads("query", "reading") /\ Send(2)
       \/ Reads("reject", "reading") /\ Send(1)
       \/ Reads("call", "calling") /\ Send(1)
    /\ UNCHANGED <<lifecycleVars, lossVars>>

CallDone ==
    /\ Goes("calling", "reading")
    /\ Send(1)
    /\ UNCHANGED <<lifecycleVars, worker, inbox, broken, pushes, lossVars>>

(* The 4-byte window slides over garbage; the length it settles on may     *)
(* take in frames that follow, the last of them not to its end.            *)
ReadsJunk ==
    /\ inbox # <<>>
    /\ Head(inbox) = "junk"
    /\ Goes("reading", "reading")
    /\ \E n \in 1..Len(inbox) :
         LET rest == SubSeq(inbox, n + 1, Len(inbox))
         IN  inbox' = rest \/ (n > 1 /\ inbox' = <<"junk">> \o rest)
    /\ missed' = (missed \/ (HasControl(inbox) /\ ~HasControl(inbox')))
    /\ UNCHANGED <<lifecycleVars, sendVars, worker, broken, pushes, forgotten>>

BridgeEndsSilently ==
    /\ hasQueue' = FALSE
    /\ queued' = 0
    /\ worker' = "done"
    /\ forgotten' = (forgotten \/ espClient)
    /\ UNCHANGED lifecycleVars

BridgeLeavesWorker ==
    /\ hasQueue' = FALSE
    /\ queued' = 0
    /\ OnBleClientDisconnected
    /\ forgotten' = (forgotten \/ espClient)
    /\ UNCHANGED worker

(* The finally clause of _bridge: no queue, no client, and the worker is   *)
(* cancelled.                                                              *)
BridgeEnds ==
    /\ hasQueue' = FALSE
    /\ queued' = 0
    /\ OnBleClientDisconnected
    /\ worker' = "done"
    /\ forgotten' = (forgotten \/ espClient)

(* The connection is lost, garbage went on for too long, or handling a     *)
(* packet raised: its payload is not an object, or the answer cannot be    *)
(* encoded.                                                                *)
ReaderFails ==
    /\ broken \/ (inbox # <<>> /\ Head(inbox) \in {"junk", "query", "call"})
    /\ Goes("reading", "closing")
    /\ BridgeEnds
    /\ UNCHANGED <<inbox, broken, pushes, missed>>

(* The cancelled worker has ended, and the port is closed.  A cancellation *)
(* that arrives while _bridge waits for the worker is swallowed.           *)
Closes ==
    /\ runPc = "closing"
    /\ cancelled' = FALSE
    /\ runPc' = IF running THEN "backoff" ELSE "ended"
    /\ UNCHANGED <<lifecycleVars, running, sendVars, worker, inbox, broken,
                   pushes, stopPc, espVars>>

(* The cancellation arrives: in the bridge its finally clause runs first,  *)
(* anywhere else the task ends.                                            *)
Cancels ==
    /\ cancelled
    /\ runPc # "closing"
    /\ cancelled' = FALSE
    /\ IF Bridging
       THEN runPc' = "closing" /\ BridgeEnds
       ELSE /\ runPc' = "ended"
            /\ UNCHANGED <<lifecycleVars, hasQueue, queued, worker, forgotten>>
    /\ UNCHANGED <<running, inbox, broken, pushes, stopPc, plugged, espClient,
                   missed>>

RunTask == Opens \/ OpenFails \/ BackoffEnds \/ DrainFails \/ BridgeStarts
           \/ ReadsControl \/ ReadsPacket \/ CallDone \/ ReadsJunk
           \/ ReaderFails \/ Closes \/ Cancels

-----------------------------------------------------------------------------
(* The write worker, the pushes and the OTA button.                        *)

(* writer.write returns, or raises and the worker leaves its loop.         *)
WorkerWrites ==
    /\ worker = "up"
    /\ queued > 0
    /\ queued' = queued - 1
    /\ worker' \in {"up", "dead"}
    /\ UNCHANGED <<lifecycleVars, taskVars, hasQueue, inbox, broken,
                   pushes, stopPc, espVars>>

StateChanged ==
    /\ stateUnsub
    /\ pushes < MaxPushes
    /\ pushes' = pushes + 1
    /\ UNCHANGED <<lifecycleVars, taskVars, sendVars, worker, inbox, broken,
                   stopPc, espVars>>

RunPush ==
    /\ pushes > 0
    /\ pushes' = pushes - 1
    /\ Send(1)
    /\ UNCHANGED <<lifecycleVars, taskVars, worker, inbox, broken, stopPc, espVars>>

EnableOta ==
    /\ runPc # "off"
    /\ Send(1)
    /\ UNCHANGED <<lifecycleVars, taskVars, worker, inbox, broken, pushes,
                   stopPc, espVars>>

-----------------------------------------------------------------------------
(* Stopping.                                                               *)

StopKeepsListener ==
    /\ stopPc = "idle"
    /\ runPc # "off"
    /\ running' = FALSE
    /\ cancelled' = (runPc # "ended")
    /\ stopPc' = "stopping"
    /\ UNCHANGED <<lifecycleVars, runPc, sendVars, worker, inbox, broken, pushes,
                   espVars>>

(* stop(): the listener is removed, though the client still counts as      *)
(* connected, and the task is cancelled.                                   *)
Stop ==
    /\ stopPc = "idle"
    /\ runPc # "off"
    /\ running' = FALSE
    /\ stateUnsub' = FALSE
    /\ cancelled' = (runPc # "ended")
    /\ stopPc' = "stopping"
    /\ UNCHANGED <<bleClientConnected, runPc, sendVars, worker, inbox, broken,
                   pushes, espVars>>

StopAwaitsWorker ==
    /\ stopPc = "stopping"
    /\ runPc = "ended" /\ worker = "done"
    /\ stopPc' = "stopped"
    /\ UNCHANGED <<lifecycleVars, taskVars, sendVars, worker, inbox, broken,
                   pushes, espVars>>

(* The awaited task has ended.                                             *)
StopReturns ==
    /\ stopPc = "stopping"
    /\ runPc = "ended"
    /\ stopPc' = "stopped"
    /\ UNCHANGED <<lifecycleVars, taskVars, sendVars, worker, inbox, broken,
                   pushes, espVars>>

-----------------------------------------------------------------------------
(* The ESP32, its phone, and the cable.                                    *)

Receiving == plugged /\ ~broken /\ (runPc = "drain" \/ Bridging)

(* The firmware sends a control message when its phone comes or goes.      *)
PhoneChanges(control) ==
    /\ espClient = (control = "down")
    /\ espClient' = (control = "up")
    /\ IF Receiving
       THEN /\ Len(inbox) < MaxInbox
            /\ inbox' = Append(inbox, control)
            /\ missed' = FALSE
            /\ forgotten' = FALSE
       ELSE missed' = TRUE /\ UNCHANGED <<inbox, forgotten>>
    /\ UNCHANGED <<lifecycleVars, taskVars, sendVars, worker, broken, pushes,
                   stopPc, plugged>>

EspSends(f) ==
    /\ Receiving
    /\ f # "junk" => espClient
    /\ Len(inbox) < MaxInbox
    /\ inbox' = Append(inbox, f)
    /\ UNCHANGED <<lifecycleVars, taskVars, sendVars, worker, broken, pushes,
                   stopPc, espVars>>

(* The ESP32 may have power of its own and keep its phone.                 *)
Unplugged ==
    /\ plugged
    /\ plugged' = FALSE
    /\ espClient' \in {espClient, FALSE}
    /\ broken' = TRUE
    /\ UNCHANGED <<lifecycleVars, taskVars, sendVars, worker, inbox, pushes,
                   stopPc, lossVars>>

Plugged ==
    /\ ~plugged
    /\ plugged' = TRUE
    /\ UNCHANGED <<lifecycleVars, taskVars, sendVars, worker, inbox, broken,
                   pushes, stopPc, espClient, lossVars>>

-----------------------------------------------------------------------------
Esp32 == \/ \E control \in Controls : PhoneChanges(control)
         \/ \E f \in Frames : EspSends(f)
         \/ Unplugged
         \/ Plugged

Next ==
    \/ Start
    \/ RunTask
    \/ DrainDiscards
    \/ WorkerWrites
    \/ StateChanged
    \/ RunPush
    \/ EnableOta
    \/ Stop
    \/ StopReturns
    \/ Esp32

Spec == Init /\ [][Next]_vars

(* The loop runs its tasks; the drain and the back-off are timers, and a   *)
(* service call times out.  A port that is there each time it is tried is  *)
(* opened in the end.  Nothing is assumed of the ESP32, of Home Assistant, *)
(* or of when stop() is called.                                            *)
Fairness ==
    /\ WF_vars(RunTask)
    /\ SF_vars(Opens)
    /\ WF_vars(WorkerWrites)
    /\ WF_vars(RunPush)
    /\ WF_vars(StopReturns)

FairSpec == Spec /\ Fairness

-----------------------------------------------------------------------------
(* Safety.                                                                 *)

(* Only a bridge that is up has a client: whenever the port is closed, for *)
(* whatever reason, the dispatcher has been told that the phone is gone,   *)
(* and until stop() is called it listens exactly while it has a client.    *)
OnlineOnly ==
    /\ bleClientConnected => Bridging
    /\ stateUnsub => bleClientConnected
    /\ bleClientConnected /\ stopPc = "idle" => stateUnsub

(* The dispatcher's view of the phone is the ESP32's, once it has read     *)
(* what the ESP32 sent, across unplugging, garbage and reconnections, with *)
(* two exceptions, and each only until the ESP32's next control message:   *)
(* its last one was lost -- nobody read the port, the drain threw it away, *)
(* or garbage took it with it --, or a session ended, for a handler raised *)
(* or the cable was pulled, while the ESP32 kept its phone: the finally    *)
(* clause forgets the phone, and nothing tells the next session of it.     *)
ViewSettles ==
    Bridging /\ ~broken /\ ~missed /\ ~forgotten
       => (ViewAfter(bleClientConnected, inbox) <=> espClient)

(* A stop() that has returned leaves nothing behind: no listener, no       *)
(* client, no queue that packets go to, no worker.                         *)
StoppedQuiet ==
    stopPc = "stopped" =>
       /\ ~stateUnsub /\ ~bleClientConnected
       /\ ~hasQueue /\ worker \in {"off", "done"}

(* The server is one that Home Assistant can start, stop and forget.       *)
Contract ==
    INSTANCE BridgeContract
    WITH phase     <- IF stopPc # "idle" THEN stopPc
                      ELSE IF runPc = "off" THEN "new" ELSE "running",
         session   <- Bridging,
         listening <- stateUnsub

KeepsContract == Contract!ContractSpec

-----------------------------------------------------------------------------
(* Liveness, under FairSpec.                                               *)

(* However often the bridge has failed, an ESP32 that stays plugged in is  *)
(* bridged again and again until the server is stopped.                    *)
Reconnects ==
    <>[](plugged /\ running) => []<>(Bridging \/ stopPc # "idle")

(* stop() returns, although the cancellation it sends may be swallowed     *)
(* while a failed bridge waits for its worker.                             *)
StopCompletes == stopPc = "stopping" ~> stopPc = "stopped"

-----------------------------------------------------------------------------
(* What the source says of itself and the code does not keep: a run finds  *)
(* a counterexample.                                                       *)

(* "writer is broken -- exit and let _bridge restart": a bridge whose      *)
(* worker is gone comes to its end.                                        *)
BrokenWriterRestarts == worker = "dead" ~> worker # "dead"
=============================================================================
