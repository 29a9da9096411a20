----------------------------- MODULE GattServer -----------------------------
(***************************************************************************)
(* The native BLE bridge: HaBleGattServer and the NativeBleServer that     *)
(* wires it to the packet dispatcher.  Everything runs on one asyncio      *)
(* loop, so an action is the code between two awaits.  The actors are      *)
(*                                                                         *)
(*   - the setup task _run, which becomes the TX worker and the disconnect *)
(*     detector once the adapter is configured;                            *)
(*   - the loop's own FIFO of callbacks, `ready`: on_connect,              *)
(*     on_disconnect, on_frame, and the tasks that handle a request or     *)
(*     push a state change;                                                *)
(*   - CALL_SERVICE handlers suspended on hass.services.async_call;        *)
(*   - the caller of stop();                                               *)
(*   - the phone, which links, subscribes, writes chunks and vanishes.     *)
(*                                                                         *)
(* Packets are abstracted to what they make the server do and how many     *)
(* chunks they take.  `stale` marks a service call, and its answer, asked  *)
(* for by a client that was declared gone before the present one linked;   *)
(* "foreign" marks bytes an earlier link left in _rx_buf.  No guard reads  *)
(* either of them.                                                         *)
(***************************************************************************)
EXTENDS ClientLifecycle, Integers, Sequences

CONSTANTS
    Requests,      \* the kinds of packet the phone sends
    LongRequests,  \* whether one of them may take more than one chunk
    QCap,          \* capacity of _tx_queue (256 in the code)
    AnsChunks,     \* chunks of an answer, or of a pushed state
    MaxReady,      \* bound: callbacks the phone and HA may have outstanding
    MaxCalls,      \* bound: no CALL_SERVICE is sent with this many suspended
    PollMayFail,   \* whether running bluetoothctl may fail or time out
    OtherDevices   \* whether other devices may be connected to the adapter

ASSUME GattAssumption ==
    /\ Requests \subseteq {"query", "call", "reject"}
    /\ LongRequests \in BOOLEAN
    /\ QCap \in Nat \ {0}
    /\ AnsChunks \in Nat \ {0}
    /\ MaxReady \in Nat
    /\ MaxCalls \in Nat
    /\ PollMayFail \in BOOLEAN
    /\ OtherDevices \in BOOLEAN

VARIABLES
    running,    \* self._running
    runPc,      \* where the task _run is
    server,     \* self._server: None, created, or registered with BlueZ
    connected,  \* self._connected
    rxBuf,      \* whose bytes self._rx_buf holds
    txQueue,    \* self._tx_queue
    ready,      \* callbacks scheduled on the loop
    calls,      \* number of suspended CALL_SERVICE handlers, stale or not
    worker,     \* where _tx_worker is
    detector,   \* where _disconnect_detector is
    detSeen,    \* connected_macs is not empty (the sample being taken)
    detPrev,    \* prev_connected is not empty
    stopPc,     \* where NativeBleServer.stop is
    link,       \* the phone: no link, linked, or subscribed to TX as well
    synced,     \* history: the phone completed a frame on this link
    txLast,     \* history: last chunk BlueZ was given since the phone linked
    lost,       \* history: a chunk that was meant for this link was dropped
    cut         \* history: this link was given up, or begun, within a frame

envVars  == <<link, synced>>
rxVars   == <<rxBuf>>
linkVars == <<txLast, lost, cut>>
txVars   == <<txQueue, linkVars>>
detVars  == <<detector, detSeen, detPrev>>
runVars  == <<running, runPc, server>>
vars == <<lifecycleVars, runVars, connected, rxVars, txVars, ready, calls,
          worker, detVars, stopPc, envVars>>

-----------------------------------------------------------------------------
(* Data.                                                                   *)

RequestKinds == {"query", "call", "reject", "torn"}
ReadyOps     == {"connect", "disconnect", "frame", "handle", "push"}
Callback     == [op : ReadyOps, kind : RequestKinds \cup {"none"}]
Lifecycle(op) == [op |-> op, kind |-> "none"]
Frame(kind)   == [op |-> "frame", kind |-> kind]
Push          == [op |-> "push", kind |-> "none"]

(* A chunk is its place in its frame; the None that stops the worker is    *)
(* place 0.                                                                *)
Chunk      == [idx : Nat, of : Nat, stale : BOOLEAN]
StopMark   == [idx |-> 0, of |-> 0, stale |-> FALSE]
FrameStart == [idx |-> 0, of |-> 0, stale |-> FALSE]

FlagsTypeOK ==
    /\ LifecycleTypeOK
    /\ running \in BOOLEAN
    /\ connected \in BOOLEAN
    /\ detSeen \in BOOLEAN
    /\ detPrev \in BOOLEAN
    /\ synced \in BOOLEAN
    /\ lost \in BOOLEAN
    /\ cut \in BOOLEAN

DataTypeOK ==
    /\ runPc \in {"off", "setup", "register", "config", "serve", "ended"}
    /\ server \in {"none", "created", "serving"}
    /\ rxBuf \in SUBSET {"mine", "foreign"}
    /\ txQueue \in Seq(Chunk)
    /\ Len(txQueue) <= QCap
    /\ ready \in Seq(Callback)
    /\ calls \in [BOOLEAN -> Nat]
    /\ worker \in {"off", "get", "sleep", "done"}
    /\ detector \in {"off", "sleep", "poll", "done"}
    /\ stopPc \in {"idle", "put", "cancel", "unregister", "stopped"}
    /\ link \in {"none", "linked", "subscribed"}
    /\ txLast \in Chunk

(* The type of every variable; the TX queue never holds more than QCap.    *)
TypeOK == FlagsTypeOK /\ DataTypeOK

Init ==
    /\ LifecycleInit
    /\ running = FALSE
    /\ runPc = "off"
    /\ server = "none"
    /\ connected = FALSE
    /\ rxBuf = {}
    /\ txQueue = <<>>
    /\ ready = <<>>
    /\ calls = [s \in BOOLEAN |-> 0]
    /\ worker = "off"
    /\ detector = "off"
    /\ detSeen = FALSE
    /\ detPrev = FALSE
    /\ stopPc = "idle"
    /\ link = "none"
    /\ synced = FALSE
    /\ txLast = FrameStart
    /\ lost = FALSE
    /\ cut = FALSE

-----------------------------------------------------------------------------
(* Sending.                                                                *)

EnqueueUnbounded(q, n, stale) ==
    q \o [i \in 1..n |-> [idx |-> i, of |-> n, stale |-> stale]]

(* _encode_chunks and the put_nowait loop of send_frame: the chunks that   *)
(* fit are queued, and the first that does not fit ends the loop.          *)
Enqueue(q, n, stale) ==
    LET room == QCap - Len(q)
        fit  == IF n <= room THEN n ELSE room
    IN  q \o [i \in 1..fit |-> [idx |-> i, of |-> n, stale |-> stale]]

Overflows(q, n) == Len(q) + n > QCap

CanSendUnchecked == server # "none"

(* One handler's packets go out back to back: send_frame never suspends.   *)
CanSend == connected /\ server # "none"

SendNothing == UNCHANGED txVars

SendFrame(n, stale) ==
    IF CanSend
    THEN /\ txQueue' = Enqueue(txQueue, n, stale)
         /\ lost' = (lost \/ Overflows(txQueue, n))
         /\ UNCHANGED <<txLast, cut>>
    ELSE SendNothing

SendAckAndAnswer(n) ==
    IF CanSend
    THEN LET acked == Enqueue(txQueue, 1, FALSE)
         IN  /\ txQueue' = Enqueue(acked, n, FALSE)
             /\ lost' = (lost \/ Overflows(txQueue, 1) \/ Overflows(acked, n))
             /\ UNCHANGED <<txLast, cut>>
    ELSE SendNothing

(* Some chunks of a frame were sent, and its last one was not.             *)
WithinFrame == txLast # FrameStart

MarkDisconnectedUndrained ==
    /\ connected' = FALSE
    /\ UNCHANGED txVars
    /\ ready' = Append(ready, Lifecycle("disconnect"))

MarkDisconnectedSilently ==
    /\ connected' = FALSE
    /\ txQueue' = <<>>
    /\ cut' = (cut \/ WithinFrame)
    /\ UNCHANGED <<txLast, lost, ready>>

(* _mark_disconnected, called with `connected` true.  If the phone is      *)
(* still there, the rest of a frame it was being sent is drained too.      *)
MarkDisconnected ==
    /\ connected' = FALSE
    /\ txQueue' = <<>>
    /\ cut' = (cut \/ WithinFrame)
    /\ ready' = Append(ready, Lifecycle("disconnect"))
    /\ UNCHANGED <<txLast, lost>>

-----------------------------------------------------------------------------
(* Setting up.                                                             *)

(* NativeBleServer.start: one server object is started once.               *)
Start ==
    /\ runPc = "off"
    /\ running' = TRUE
    /\ runPc' = "setup"
    /\ UNCHANGED <<lifecycleVars, server, connected, rxVars, txVars, ready,
                   calls, worker, detVars, stopPc, envVars>>

(* _run up to the first await: bless imports and the server is created.    *)
CreateServer ==
    /\ runPc = "setup"
    /\ runPc' = "register"
    /\ server' = "created"
    /\ UNCHANGED <<lifecycleVars, running, connected, rxVars, txVars, ready,
                   calls, worker, detVars, stopPc, envVars>>

(* The service and both characteristics are registered and advertised.     *)
Advertise ==
    /\ runPc = "register"
    /\ runPc' = "config"
    /\ server' = "serving"
    /\ UNCHANGED <<lifecycleVars, running, connected, rxVars, txVars, ready,
                   calls, worker, detVars, stopPc, envVars>>

(* bless is missing, or BlueZ refuses: the task logs the error and ends.   *)
SetupFails ==
    /\ runPc \in {"setup", "register"}
    /\ runPc' = "ended"
    /\ UNCHANGED <<lifecycleVars, running, server, connected, rxVars, txVars,
                   ready, calls, worker, detVars, stopPc, envVars>>

(* _configure_adapter returns, and only then do the TX worker and the      *)
(* detector start; both test _running before anything else.                *)
AdapterConfigured ==
    /\ runPc = "config"
    /\ runPc' = "serve"
    /\ worker' = IF running THEN "get" ELSE "done"
    /\ detector' = IF running THEN "sleep" ELSE "done"
    /\ UNCHANGED <<lifecycleVars, running, server, connected, rxVars, txVars,
                   ready, calls, detSeen, detPrev, stopPc, envVars>>

-----------------------------------------------------------------------------
(* The phone.                                                              *)

(* A new link: what _rx_buf still holds was written by somebody else.  If  *)
(* the server knows that the last client is gone, a suspended call is      *)
(* stale; if it does not, the queue's chunks go to the new phone.          *)
ClientLink ==
    /\ link = "none"
    /\ server = "serving"
    /\ link' = "linked"
    /\ rxBuf' = IF rxBuf = {} THEN {} ELSE {"foreign"}
    /\ calls' = IF connected THEN calls
                ELSE [s \in BOOLEAN |-> IF s THEN calls[TRUE] + calls[FALSE] ELSE 0]
    /\ synced' = FALSE
    /\ txLast' = FrameStart
    /\ lost' = (connected /\ lost)
    /\ cut' = (connected /\ (cut \/ WithinFrame))
    /\ UNCHANGED <<lifecycleVars, runVars, connected, txQueue, ready, worker,
                   detVars, stopPc>>

ClientSubscribe ==
    /\ link = "linked"
    /\ link' = "subscribed"
    /\ UNCHANGED <<lifecycleVars, runVars, connected, rxVars, txVars, ready,
                   calls, worker, detVars, stopPc, synced>>

ClientDrop ==
    /\ link # "none"
    /\ link' = "none"
    /\ synced' = FALSE
    /\ UNCHANGED <<lifecycleVars, runVars, connected, rxVars, txVars, ready,
                   calls, worker, detVars, stopPc>>

CanWrite == link # "none" /\ server = "serving"

(* _handle_write with the CONTINUES flag.                                  *)
WriteContinues ==
    /\ CanWrite
    /\ LongRequests
    /\ rxBuf' = rxBuf \cup {"mine"}
    /\ UNCHANGED <<lifecycleVars, runVars, connected, txVars, ready, calls,
                   worker, detVars, stopPc, envVars>>

FinishFrameUncleared == UNCHANGED rxBuf

(* The frame is taken out of _rx_buf.                                      *)
FinishFrame == rxBuf' = {}

(* The first frame announces the client before the frame is scheduled.     *)
ScheduleFrame(frame) ==
    ready' = IF connected
             THEN Append(ready, frame)
             ELSE Append(Append(ready, Lifecycle("connect")), frame)

(* _handle_write with the FINAL flag: the buffer becomes a frame, the      *)
(* first frame announces the client, and the frame goes to the loop.       *)
WriteFinal(kind) ==
    /\ CanWrite
    /\ Len(ready) + (IF connected THEN 1 ELSE 2) <= MaxReady
    /\ kind = "call" => calls[TRUE] + calls[FALSE] < MaxCalls
    /\ FinishFrame
    /\ connected' = TRUE
    /\ synced' = TRUE
    /\ ScheduleFrame(Frame(IF "foreign" \in rxBuf THEN "torn" ELSE kind))
    /\ UNCHANGED <<lifecycleVars, runVars, txVars, calls, worker, detVars,
                   stopPc, link>>

ClientWritesFrame == \E kind \in Requests : WriteFinal(kind)

-----------------------------------------------------------------------------
(* The loop's callbacks, in the order they were scheduled.                 *)

RunOnConnect ==
    /\ ready # <<>>
    /\ Head(ready).op = "connect"
    /\ OnBleClientConnected
    /\ ready' = Tail(ready)
    /\ UNCHANGED <<runVars, connected, rxVars, txVars, calls, worker, detVars,
                   stopPc, envVars>>

RunOnDisconnect ==
    /\ ready # <<>>
    /\ Head(ready).op = "disconnect"
    /\ OnBleClientDisconnected
    /\ ready' = Tail(ready)
    /\ UNCHANGED <<runVars, connected, rxVars, txVars, calls, worker, detVars,
                   stopPc, envVars>>

(* _on_frame_from_gatt only schedules the task that handles the packet.    *)
RunOnFrame ==
    /\ ready # <<>>
    /\ Head(ready).op = "frame"
    /\ ready' = Append(Tail(ready), [Head(ready) EXCEPT !.op = "handle"])
    /\ UNCHANGED <<lifecycleVars, runVars, connected, rxVars, txVars, calls,
                   worker, detVars, stopPc, envVars>>

(* _handle_incoming_packet up to its end or its first real suspension: a   *)
(* torn frame fails to decode, a rejected one gets a NACK, a query its ACK *)
(* and its answer, a service call its ACK before it waits.  A request that *)
(* was acknowledged may still raise: its payload is not an object, or its  *)
(* answer cannot be encoded.                                               *)
RunHandle ==
    /\ ready # <<>>
    /\ LET task == Head(ready)
       IN  /\ task.op = "handle"
           /\ \/ task.kind = "torn" /\ SendNothing /\ UNCHANGED calls
              \/ task.kind # "torn" /\ SendFrame(1, FALSE) /\ UNCHANGED calls
              \/ /\ task.kind = "query"
                 /\ SendAckAndAnswer(AnsChunks)
                 /\ UNCHANGED calls
              \/ /\ task.kind = "call"
                 /\ SendFrame(1, FALSE)
                 /\ calls' = [calls EXCEPT ![FALSE] = @ + 1]
    /\ ready' = Tail(ready)
    /\ UNCHANGED <<lifecycleVars, runVars, connected, rxVars, worker, detVars,
                   stopPc, envVars>>

(* The task _on_state_changed scheduled: one STATE_CHANGE packet, or an    *)
(* exception when an attribute is not JSON.                                *)
RunPush ==
    /\ ready # <<>>
    /\ Head(ready).op = "push"
    /\ SendFrame(AnsChunks, FALSE) \/ SendNothing
    /\ ready' = Tail(ready)
    /\ UNCHANGED <<lifecycleVars, runVars, connected, rxVars, calls, worker,
                   detVars, stopPc, envVars>>

RunReady == RunOnConnect \/ RunOnDisconnect \/ RunOnFrame \/ RunHandle \/ RunPush

(* A service call returns, fails or times out: its answer is sent.         *)
CallDone(stale) ==
    /\ calls[stale] > 0
    /\ calls' = [calls EXCEPT ![stale] = @ - 1]
    /\ SendFrame(1, stale)
    /\ UNCHANGED <<lifecycleVars, runVars, connected, rxVars, ready, worker,
                   detVars, stopPc, envVars>>

(* Home Assistant fires state_changed for an exposed entity.               *)
StateChanged ==
    /\ stateUnsub
    /\ Len(ready) < MaxReady
    /\ ready' = Append(ready, Push)
    /\ UNCHANGED <<lifecycleVars, runVars, connected, rxVars, txVars, calls,
                   worker, detVars, stopPc, envVars>>

-----------------------------------------------------------------------------
(* The TX worker.                                                          *)

WorkerLoop == worker' = IF running THEN "get" ELSE "done"

WorkerGets ==
    /\ worker = "get"
    /\ txQueue # <<>>

(* The stop mark ends the worker.                                          *)
WorkerStops ==
    /\ WorkerGets
    /\ Head(txQueue) = StopMark
    /\ txQueue' = Tail(txQueue)
    /\ worker' = "done"
    /\ UNCHANGED <<lifecycleVars, runVars, connected, rxVars, linkVars,
                   ready, calls, detVars, stopPc, envVars>>

(* What the worker tests before it sends a chunk.                          *)
Serves == server # "none" /\ connected

WorkerHasChunk ==
    /\ WorkerGets
    /\ Head(txQueue) # StopMark
    /\ Serves

(* update_value reports success: always when the phone is subscribed, and  *)
(* possibly when it is not.                                                *)
WorkerSends ==
    /\ WorkerHasChunk
    /\ txQueue' = Tail(txQueue)
    /\ txLast' = IF Head(txQueue).idx = Head(txQueue).of
                 THEN FrameStart
                 ELSE [Head(txQueue) EXCEPT !.stale = FALSE]
    /\ worker' = "sleep"
    /\ UNCHANGED <<lifecycleVars, runVars, connected, rxVars, lost, cut, ready,
                   calls, detVars, stopPc, envVars>>

(* update_value reports that nobody is subscribed.                         *)
WorkerFindsNoSubscriber ==
    /\ WorkerHasChunk
    /\ link # "subscribed"
    /\ MarkDisconnected
    /\ worker' = "sleep"
    /\ UNCHANGED <<lifecycleVars, runVars, rxVars, calls, detVars, stopPc,
                   envVars>>

(* The chunk goes nowhere: there is no server or no client (which          *)
(* QuietWhenGone rules out), no characteristic, or update_value raises.    *)
WorkerSkips ==
    /\ WorkerGets
    /\ Head(txQueue) # StopMark
    /\ txQueue' = Tail(txQueue)
    /\ IF Serves THEN lost' = TRUE ELSE UNCHANGED lost
    /\ WorkerLoop
    /\ UNCHANGED <<lifecycleVars, runVars, connected, rxVars, txLast, cut, ready,
                   calls, detVars, stopPc, envVars>>

(* The 20 ms between two chunks have passed.                               *)
WorkerWakes ==
    /\ worker = "sleep"
    /\ WorkerLoop
    /\ UNCHANGED <<lifecycleVars, runVars, connected, rxVars, txVars, ready,
                   calls, detVars, stopPc, envVars>>

WorkerTakes == WorkerStops \/ WorkerSends \/ WorkerFindsNoSubscriber \/ WorkerSkips

-----------------------------------------------------------------------------
(* The disconnect detector.                                                *)

(* What bluetoothctl may list: the phone if it is linked, possibly others, *)
(* and nothing at all when running it fails.                               *)
Sample ==
    {link # "none"} \cup (IF PollMayFail THEN {FALSE} ELSE {})
                    \cup (IF OtherDevices THEN {TRUE} ELSE {})

(* The five seconds have passed: leave, or take a sample.                  *)
DetectorPolls ==
    /\ detector = "sleep"
    /\ IF running
       THEN detector' = "poll" /\ detSeen' \in Sample /\ UNCHANGED detPrev
       ELSE detector' = "done" /\ detSeen' = FALSE /\ detPrev' = FALSE
    /\ UNCHANGED <<lifecycleVars, runVars, connected, rxVars, txVars, ready,
                   calls, worker, stopPc, envVars>>

DroppedTooLate == detSeen /\ ~detSeen /\ connected

(* Previously something was connected, now nothing is.                     *)
Dropped == detPrev /\ ~detSeen /\ connected

(* The command's output is read, some time after the sample was taken.     *)
DetectorReads ==
    /\ detector = "poll"
    /\ IF Dropped
       THEN MarkDisconnected
       ELSE UNCHANGED <<connected, txVars, ready>>
    /\ detPrev' = (running /\ detSeen)
    /\ detSeen' = FALSE
    /\ detector' = IF running THEN "sleep" ELSE "done"
    /\ UNCHANGED <<lifecycleVars, runVars, rxVars, calls, worker, stopPc, envVars>>

-----------------------------------------------------------------------------
(* Stopping.                                                               *)

(* NativeBleServer.stop: the dispatcher is told, _running is cleared, and  *)
(* the stop mark is put at once if the queue has room for it.              *)
Stop ==
    /\ stopPc = "idle"
    /\ runPc # "off"
    /\ OnBleClientDisconnected
    /\ running' = FALSE
    /\ IF Len(txQueue) < QCap
       THEN txQueue' = Append(txQueue, StopMark) /\ stopPc' = "cancel"
       ELSE UNCHANGED txQueue /\ stopPc' = "put"
    /\ UNCHANGED <<runPc, server, connected, rxVars, linkVars, ready,
                   calls, worker, detVars, envVars>>

(* A full queue made stop() wait; now there is room.                       *)
StopPuts ==
    /\ stopPc = "put"
    /\ Len(txQueue) < QCap
    /\ txQueue' = Append(txQueue, StopMark)
    /\ stopPc' = "cancel"
    /\ UNCHANGED <<lifecycleVars, runVars, connected, rxVars, linkVars,
                   ready, calls, worker, detVars, envVars>>

StopAwaits ==
    /\ stopPc = "cancel"
    /\ {worker, detector} \subseteq {"off", "done"}
    /\ runPc' = "ended"
    /\ detSeen' = FALSE
    /\ detPrev' = FALSE
    /\ stopPc' = IF server = "none" THEN "stopped" ELSE "unregister"
    /\ UNCHANGED <<lifecycleVars, running, server, connected, rxVars, txVars,
                   ready, calls, worker, detector, envVars>>

(* The task is cancelled wherever it is, with the worker and the detector. *)
StopCancels ==
    /\ stopPc = "cancel"
    /\ runPc' = "ended"
    /\ worker' = IF worker = "off" THEN "off" ELSE "done"
    /\ detector' = IF detector = "off" THEN "off" ELSE "done"
    /\ detSeen' = FALSE
    /\ detPrev' = FALSE
    /\ stopPc' = IF server = "none" THEN "stopped" ELSE "unregister"
    /\ UNCHANGED <<lifecycleVars, running, server, connected, rxVars, txVars,
                   ready, calls, envVars>>

(* bless's stop() returns (or raises), and the server is forgotten.        *)
StopUnregisters ==
    /\ stopPc = "unregister"
    /\ server' = "none"
    /\ stopPc' = "stopped"
    /\ UNCHANGED <<lifecycleVars, running, runPc, connected, rxVars, txVars,
                   ready, calls, worker, detVars, envVars>>

-----------------------------------------------------------------------------
Setup  == Start \/ CreateServer \/ Advertise \/ SetupFails \/ AdapterConfigured
Phone  == ClientLink \/ ClientSubscribe \/ ClientDrop \/ WriteContinues
          \/ ClientWritesFrame
Worker == WorkerTakes \/ WorkerWakes
Detector == DetectorPolls \/ DetectorReads
StopSteps == StopPuts \/ StopCancels \/ StopUnregisters

Next ==
    \/ Setup
    \/ Phone
    \/ RunReady
    \/ \E stale \in BOOLEAN : CallDone(stale)
    \/ StateChanged
    \/ Worker
    \/ Detector
    \/ Stop
    \/ StopSteps

Spec == Init /\ [][Next]_vars

(* The loop runs what is scheduled, timers fire, subprocesses end or time  *)
(* out, and cancelled tasks end.  Nothing is assumed of the phone, of Home *)
(* Assistant, of when stop() is called, or of the setup task: bless and    *)
(* D-Bus calls there have no timeout.                                      *)
Fairness ==
    /\ WF_vars(RunReady)
    /\ WF_vars(Worker)
    /\ WF_vars(Detector)
    /\ WF_vars(StopSteps)
    /\ \A stale \in BOOLEAN : WF_vars(CallDone(stale))

FairSpec == Spec /\ Fairness

-----------------------------------------------------------------------------
(* Safety.                                                                 *)

IsLifecycle(c) == c.op \in {"connect", "disconnect"}

(* Once the callbacks r have run, a dispatcher that believes b now believes *)
(* c: the last lifecycle callback decides, for a repeated one is ignored.  *)
Settles(r, b, c) ==
    /\ (\A i \in 1..Len(r) : ~IsLifecycle(r[i])) => (b <=> c)
    /\ \A i \in 1..Len(r) :
          /\ IsLifecycle(r[i])
          /\ \A j \in 1..Len(r) : IsLifecycle(r[j]) => j <= i
          => ((r[i].op = "connect") <=> c)

(* The two layers never drift apart: until stop() is called, once its      *)
(* pending callbacks have run the dispatcher believes a client is there    *)
(* exactly when the GATT server does, and it listens to state_changed      *)
(* exactly when it believes so.  (_mark_disconnected's docstring describes *)
(* the earlier defect: a dispatcher subscribed for a phantom client.)      *)
ViewAgrees ==
    /\ stateUnsub <=> bleClientConnected
    /\ stopPc = "idle" => Settles(ready, bleClientConnected, connected)

(* No byte waits for a client the server has declared gone: with no client *)
(* the TX queue holds nothing but the mark that stops the worker, whatever *)
(* handlers, service calls and pushes were in flight.                      *)
QuietWhenGone ==
    ~connected => \A i \in 1..Len(txQueue) : txQueue[i] = StopMark

(* c may follow p on the wire: the next chunk of p's frame, or the first   *)
(* chunk of a frame when p ended one.                                      *)
Follows(p, c) ==
    IF p.idx = p.of THEN c.idx = 1 /\ c.of >= 1
                    ELSE c.idx = p.idx + 1 /\ c.of = p.of

(* The chunks q, sent after l, complete l's frame and then whole frames.   *)
Framed(q, l) ==
    /\ \A i \in 1..Len(q) : Follows(IF i = 1 THEN l ELSE q[i - 1], q[i])
    /\ LET last == IF q = <<>> THEN l ELSE q[Len(q)] IN last.idx = last.of

(* What a phone is given over one link, from its first chunk on, is whole  *)
(* frames, never two interleaved, although requests, service calls and     *)
(* pushes queue concurrently and disconnects drain the queue.  The code    *)
(* tears the stream in three ways, and only in these: a chunk was dropped, *)
(* for the queue was full or BlueZ failed (lost); the phone was declared   *)
(* gone while it was there, with a frame half sent; or it linked, with a   *)
(* frame half sent, before the server knew of the last one's leaving (cut, *)
(* both).                                                                  *)
TxFramed ==
    ~lost /\ ~cut /\ stopPc \in {"idle", "put"} => Framed(txQueue, txLast)

(* Reassembly heals itself: once the phone on this link has completed one  *)
(* frame, nothing an earlier link left behind can be in _rx_buf.           *)
RxRecovers ==
    link # "none" /\ synced => "foreign" \notin rxBuf

-----------------------------------------------------------------------------
(* Liveness, under FairSpec.                                               *)

(* A client that vanished after the detector had seen it is noticed, even  *)
(* if nothing is ever sent to it: by the next sample, unless that lists    *)
(* another device.  (A bluetoothctl that fails lists none.)                *)
PhantomSeenCleared ==
    (connected /\ link = "none" /\ detPrev)
        ~> \/ ~connected
           \/ link # "none" \/ stopPc # "idle"
           \/ detector = "poll" /\ detSeen

(* Once it has been called, stop() completes, although a disconnect may    *)
(* drain the stop mark before the worker sees it, and although it may have *)
(* to wait for room in the queue.  It hangs in one case only: the queue    *)
(* was full, and nobody takes from it any more, for the worker was never   *)
(* started or has found _running cleared by this very stop().              *)
HangsAtPut == stopPc = "put" /\ worker \in {"off", "done"}
StopCompletes == stopPc # "idle" ~> stopPc = "stopped" \/ []HangsAtPut

-----------------------------------------------------------------------------
(* What the source says of itself and the code does not keep: a run finds  *)
(* a counterexample.                                                       *)

(* "so the next client doesn't get bytes for the previous one's last       *)
(* in-flight request": no queued chunk answers a request of a client that  *)
(* was declared gone before the present one linked.                        *)
NoBytesForPrevious == \A i \in 1..Len(txQueue) : ~txQueue[i].stale

(* "its state-change subscription is torn down before bless rips out the   *)
(* GATT stack": once stop() has returned nobody listens.                   *)
StoppedUnsubscribed == stopPc = "stopped" => ~stateUnsub
=============================================================================
