--------------------------- MODULE EsphomeBridge ---------------------------
(***************************************************************************)
(* The ESPHome bridge: EsphomeApiServer, a client of the native API of an  *)
(* ESPHome device that holds the phone's BLE link.  Everything runs on one *)
(* asyncio loop, so an action is the code between two awaits.  The actors  *)
(* are                                                                     *)
(*                                                                         *)
(*   - the task _run: it connects, shakes hands, reads and answers;        *)
(*   - the ping task of the session;                                       *)
(*   - the tasks that push a state change;                                 *)
(*   - the caller of stop();                                               *)
(*   - the device, and the network between.                                *)
(*                                                                         *)
(* All of them write through _send_message.  It encodes a frame, which     *)
(* takes the next nonce of the session, and waits for the write lock, a    *)
(* queue that outlives the session; the holder keeps the lock until the    *)
(* transport has drained.  A sender that finds the lock free writes at     *)
(* once; here its write is a step of its own, and whoever sends meanwhile  *)
(* queues behind it.                                                       *)
(***************************************************************************)
EXTENDS ClientLifecycle, Integers, Sequences, FiniteSets

CONSTANTS
    Requests,   \* what the device may send once it has answered the hello
    MaxInbox,   \* bound: messages received and not yet read
    MaxPushes,  \* bound: push tasks scheduled and not yet run
    MaxWaiting, \* bound: frames of push tasks at the write lock
    Nonces      \* bound: nonces are told apart modulo this number

ASSUME EsphomeAssumption ==
    /\ Requests \subseteq {"query", "call", "ping", "bye", "other", "bad"}
    /\ MaxInbox \in Nat \ {0}
    /\ MaxPushes \in Nat
    /\ MaxWaiting \in Nat
    /\ Nonces \in Nat /\ Nonces > MaxWaiting + 2

VARIABLES
    noise,      \* a PSK is configured: the transport is _NoiseFrame
    running,    \* self._running
    runPc,      \* where the task _run is
    cancelled,  \* stop() has cancelled it and it has not noticed
    writer,     \* self._writer is not None
    link,       \* the connection, as the two ends know it
    unacked,    \* bytes were written that a vanished device never took
    nonce,      \* the nonce the next frame of this session is given
    lockQ,      \* the holder of _write_lock and those who wait for it
    draining,   \* the holder has written and waits in drain()
    ping,       \* where _ping_loop of this session is
    pushes,     \* scheduled push tasks
    inbox,      \* how many messages are in the stream reader
    stopPc,     \* where stop is
    expects,    \* the nonce the device expects next
    inStep,     \* history: the device could read all it got this session
    overlong    \* history: a push of this session did not fit a noise frame

taskVars == <<running, runPc, cancelled, stopPc>>
lockVars == <<nonce, lockQ, draining>>
linkVars == <<link, unacked>>
peerVars == <<expects, inStep, overlong>>
vars == <<lifecycleVars, noise, taskVars, writer, linkVars, lockVars, ping,
          pushes, inbox, peerVars>>

Talking == {"reading", "ackQuery", "ackCall", "calling", "answer", "bye"}
Greeting == {"securing", "hello", "greeting", "subscribe"}
Closing == {"closing", "aborting"}

(* The places where the task waits for the lock or for the drain.          *)
Sending == {"hello", "subscribe", "ackQuery", "ackCall", "answer", "bye"}

Entry == [by : {"run", "ping", "push"}, nonce : 0..Nonces, old : BOOLEAN]

(* The type of every variable.  Only pushes have more than one frame at    *)
(* the lock: the task and its pings wait for theirs to be through.         *)
TypeOK ==
    /\ LifecycleTypeOK
    /\ noise \in BOOLEAN
    /\ running \in BOOLEAN
    /\ runPc \in {"off", "opening", "backoff", "ended"}
                 \cup Talking \cup Greeting \cup Closing
    /\ cancelled \in BOOLEAN
    /\ writer \in BOOLEAN
    /\ link \in {"none", "up", "gone", "lost"}
    /\ unacked \in BOOLEAN
    /\ nonce \in 0..Nonces
    /\ lockQ \in Seq(Entry)
    /\ draining \in BOOLEAN
    /\ ping \in {"off", "sleep", "send", "dead"}
    /\ pushes \in 0..MaxPushes
    /\ inbox \in 0..MaxInbox
    /\ stopPc \in {"idle", "stopping", "stopped"}
    /\ expects \in 0..Nonces
    /\ inStep \in BOOLEAN
    /\ overlong \in BOOLEAN
    /\ \A i, j \in DOMAIN lockQ :
         i # j /\ lockQ[i].by = lockQ[j].by => lockQ[i].by = "push"

Init ==
    /\ LifecycleInit
    /\ noise \in BOOLEAN
    /\ running = FALSE
    /\ runPc = "off"
    /\ cancelled = FALSE
    /\ writer = FALSE
    /\ link = "none"
    /\ unacked = FALSE
    /\ nonce = 0
    /\ lockQ = <<>>
    /\ draining = FALSE
    /\ ping = "off"
    /\ pushes = 0
    /\ inbox = 0
    /\ stopPc = "idle"
    /\ expects = 0
    /\ inStep = TRUE
    /\ overlong = FALSE

Bridging == runPc \in Talking

-----------------------------------------------------------------------------
(* _send_message.                                                          *)

(* Nonce 0 is the first of a session only, that of the hello.              *)
After(n) == IF n = Nonces THEN 1 ELSE n + 1

(* The frame is encoded and its sender queues at the lock, behind q.  It   *)
(* belongs to the connection that _writer is at this moment.               *)
Encodes(who, q) ==
    /\ lockQ' = Append(q, [by |-> who, nonce |-> nonce, old |-> runPc = "ended"])
    /\ nonce' = After(nonce)

(* A cancelled sender leaves the queue, or the drain: the frame it has at  *)
(* the lock, if any, goes.                                                 *)
Without(who, q) ==
    LET mine == {i \in 1..Len(q) : q[i].by = who}
        i    == CHOOSE i \in mine : TRUE
    IN  IF mine = {} THEN q ELSE SubSeq(q, 1, i - 1) \o SubSeq(q, i + 1, Len(q))

StillDraining(who) == draining /\ Head(lockQ).by # who

-----------------------------------------------------------------------------
(* The task _run.                                                          *)

Start ==
    /\ runPc = "off"
    /\ running' = TRUE
    /\ runPc' = "opening"
    /\ UNCHANGED <<lifecycleVars, noise, cancelled, stopPc, writer, linkVars,
                   lockVars, ping, pushes, inbox, peerVars>>

(* The task goes on from where it is, unless it has been cancelled.        *)
Goes(from, to) ==
    /\ runPc = from
    /\ ~cancelled
    /\ runPc' = to
    /\ UNCHANGED <<noise, running, cancelled, stopPc>>

(* The device is connected.  In plaintext the hello goes out at once.      *)
Opens ==
    /\ Goes("opening", IF noise THEN "securing" ELSE "hello")
    /\ writer' = TRUE
    /\ link' = "up"
    /\ expects' = 0
    /\ inStep' = TRUE
    /\ overlong' = FALSE
    /\ IF noise THEN UNCHANGED <<nonce, lockQ>> ELSE Encodes("run", lockQ)
    /\ UNCHANGED <<lifecycleVars, unacked, draining, ping, pushes, inbox>>

(* The PSK is unusable, or there is no connection: wait and try again.     *)
OpenFails ==
    /\ Goes("opening", "backoff")
    /\ UNCHANGED <<lifecycleVars, writer, linkVars, lockVars, ping, pushes,
                   inbox, peerVars>>

(* Five seconds later; the push tasks of the last session have run.        *)
BackoffEnds ==
    /\ pushes = 0
    /\ Goes("backoff", IF running THEN "opening" ELSE "ended")
    /\ UNCHANGED <<lifecycleVars, writer, linkVars, lockVars, ping, pushes,
                   inbox, peerVars>>

(* _NoiseFrame has its keys, and the hello follows.                        *)
Secured ==
    /\ link = "up"
    /\ Goes("securing", "hello")
    /\ Encodes("run", lockQ)
    /\ UNCHANGED <<lifecycleVars, writer, linkVars, draining, ping, pushes,
                   inbox, peerVars>>

(* The HelloResponse has come: subscribe.                                  *)
Greeted ==
    /\ inbox > 0
    /\ Goes("greeting", "subscribe")
    /\ Encodes("run", lockQ)
    /\ inbox' = inbox - 1
    /\ UNCHANGED <<lifecycleVars, writer, linkVars, draining, ping, pushes,
                   peerVars>>

RebindsWriter(q) ==
    /\ lockQ' = q
    /\ link' = "none"
    /\ unacked' = FALSE
    /\ inbox' = 0

(* writer.close(): those in q wait for the lock to write to a connection   *)
(* that is no more.                                                        *)
ClosesWriter(q) ==
    /\ lockQ' = [i \in DOMAIN q |-> [q[i] EXCEPT !.old = TRUE]]
    /\ link' = "none"
    /\ unacked' = FALSE
    /\ inbox' = 0

(* What _run does when a session is over.                                  *)
ForgetsSession ==
    /\ OnBleClientDisconnected
    /\ writer' = FALSE
    /\ nonce' = 0

EndsForGood == "ended"

AfterSession == IF running THEN "backoff" ELSE "ended"

(* The keys are rejected, the answer is another or ten seconds late, or    *)
(* the connection is lost.                                                 *)
GreetingFails ==
    /\ \E pc \in {"securing", "greeting"} : Goes(pc, AfterSession)
    /\ ClosesWriter(lockQ)
    /\ ForgetsSession
    /\ UNCHANGED <<draining, ping, pushes, peerVars>>

(* What a message is, is decided when it is read.                          *)
Reads(m, to) ==
    /\ m \in Requests
    /\ inbox > 0
    /\ Goes("reading", to)
    /\ inbox' = inbox - 1
    /\ UNCHANGED <<lifecycleVars, writer, linkVars, draining, ping, pushes,
                   peerVars>>

(* One turn of _reader_loop.  A query and a service call are acknowledged  *)
(* first; the message that cannot be parsed ends the session.              *)
ReadsMessage ==
    \/ Reads("query", "ackQuery") /\ Encodes("run", lockQ)
    \/ Reads("call", "ackCall") /\ Encodes("run", lockQ)
    \/ Reads("ping", "answer") /\ Encodes("run", lockQ)
    \/ Reads("bye", "bye") /\ Encodes("run", lockQ)
    \/ Reads("other", "reading") /\ UNCHANGED <<lockQ, nonce>>
    \/ Reads("bad", "closing") /\ UNCHANGED <<lockQ, nonce>>

(* The service call has returned, failed, or lasted ten seconds.           *)
CallDone ==
    /\ Goes("calling", "answer")
    /\ Encodes("run", lockQ)
    /\ UNCHANGED <<lifecycleVars, writer, linkVars, draining, ping, pushes,
                   inbox, peerVars>>

ReaderFails ==
    /\ link = "lost"
    /\ Goes("reading", "closing")
    /\ UNCHANGED <<lifecycleVars, writer, linkVars, lockVars, ping, pushes,
                   inbox, peerVars>>

(* The cancelled ping task has ended, and the connection is closed.  A     *)
(* cancellation that arrives while _run waits for that task is swallowed.  *)
Closes ==
    /\ runPc = "closing"
    /\ runPc' = AfterSession
    /\ cancelled' = FALSE
    /\ ping' = "off"
    /\ draining' = StillDraining("ping")
    /\ ClosesWriter(Without("ping", lockQ))
    /\ ForgetsSession
    /\ UNCHANGED <<noise, running, stopPc, pushes, peerVars>>

(* The cancellation arrives.  A session that is up waits for its ping task *)
(* first; _run then leaves its loop, and the rest is left to stop().       *)
Cancels ==
    /\ cancelled
    /\ runPc # "closing"
    /\ cancelled' = FALSE
    /\ draining' = StillDraining("run")
    /\ IF Bridging
       THEN /\ runPc' = "aborting"
            /\ lockQ' = Without("run", lockQ)
            /\ UNCHANGED <<linkVars, inbox>>
       ELSE runPc' = "ended" /\ ClosesWriter(Without("run", lockQ))
    /\ UNCHANGED <<lifecycleVars, noise, running, stopPc, writer, nonce, ping,
                   pushes, peerVars>>

Aborts ==
    /\ runPc = "aborting"
    /\ runPc' = "ended"
    /\ ping' = "off"
    /\ draining' = StillDraining("ping")
    /\ ClosesWriter(Without("ping", lockQ))
    /\ UNCHANGED <<lifecycleVars, noise, running, cancelled, stopPc, writer,
                   nonce, pushes, peerVars>>

RunTask == Opens \/ OpenFails \/ BackoffEnds \/ Secured \/ Greeted
           \/ GreetingFails \/ ReadsMessage \/ CallDone \/ ReaderFails
           \/ Closes \/ Cancels \/ Aborts

-----------------------------------------------------------------------------
(* The write lock.                                                         *)

Holder == Head(lockQ)

(* The task goes on once its frame is through, and q waits at the lock.  A *)
(* request that was acknowledged may still raise, which ends the session:  *)
(* its payload is no object, the data of the service call is no dictionary *)
(* or the answer is longer than a noise frame can say.                     *)
RunResumes(q) ==
    /\ \/ Goes("hello", "greeting") /\ UNCHANGED <<nonce, lifecycleVars, ping>>
       \/ Goes("subscribe", "reading") /\ OnBleClientConnected
          /\ ping' = "sleep" /\ UNCHANGED nonce
       \/ Goes("ackQuery", "answer") /\ UNCHANGED <<lifecycleVars, ping>>
       \/ Goes("ackQuery", "closing") /\ UNCHANGED <<nonce, lifecycleVars, ping>>
       \/ Goes("ackCall", "calling") /\ UNCHANGED <<nonce, lifecycleVars, ping>>
       \/ Goes("ackCall", "closing") /\ UNCHANGED <<nonce, lifecycleVars, ping>>
       \/ Goes("answer", "reading") /\ UNCHANGED <<nonce, lifecycleVars, ping>>
       \/ Goes("bye", "closing") /\ UNCHANGED <<nonce, lifecycleVars, ping>>
    /\ IF runPc' = "answer" THEN Encodes("run", q) ELSE lockQ' = q

PingEnds == ping' = "dead"

(* The ping loop goes round.                                               *)
PingResumes == ping' = "sleep"

(* The holder has written and drained: it lets go of the lock.             *)
HolderResumes ==
    /\ draining' = FALSE
    /\ \/ /\ Holder.by = "push"
          /\ lockQ' = Tail(lockQ)
          /\ UNCHANGED <<lifecycleVars, noise, taskVars, nonce, ping>>
       \/ /\ Holder.by = "ping"
          /\ lockQ' = Tail(lockQ)
          /\ PingResumes
          /\ UNCHANGED <<lifecycleVars, noise, taskVars, nonce>>
       \/ Holder.by = "run" /\ RunResumes(Tail(lockQ))

Connected == lockQ # <<>> /\ ~Holder.old /\ link # "lost"

(* The device can read a frame that has the nonce it expects, and the      *)
(* first of a session is the hello.                                        *)
Writes ==
    /\ Connected /\ ~draining
    /\ expects' = After(expects)
    /\ inStep' = (/\ inStep
                  /\ Holder.nonce = expects
                  /\ expects = 0 => runPc = "hello" /\ Holder.by = "run")
    /\ unacked' = (unacked \/ link = "gone")
    /\ \/ HolderResumes
       \/ /\ draining' = TRUE
          /\ UNCHANGED <<lifecycleVars, noise, taskVars, nonce, lockQ, ping>>
    /\ UNCHANGED <<writer, link, pushes, inbox, overlong>>

(* The device takes what was written.                                      *)
Drained ==
    /\ Connected /\ draining
    /\ link = "up"
    /\ HolderResumes
    /\ UNCHANGED <<writer, linkVars, pushes, inbox, peerVars>>

(* The drain raises.  Only _run looks: its session is over.                *)
WriteFails ==
    /\ lockQ # <<>>
    /\ ~Holder.old
    /\ link = "lost"
    /\ draining' = FALSE
    /\ \/ /\ Holder.by # "run"
          /\ ping' = IF Holder.by = "ping" THEN "dead" ELSE ping
          /\ lockQ' = Tail(lockQ)
          /\ UNCHANGED <<lifecycleVars, noise, taskVars, writer, linkVars,
                         nonce, inbox>>
       \/ /\ Holder.by = "run" /\ Bridging
          /\ Goes(runPc, "closing")
          /\ lockQ' = Tail(lockQ)
          /\ UNCHANGED <<lifecycleVars, writer, linkVars, nonce, ping, inbox>>
       \/ /\ Holder.by = "run" /\ ~Bridging
          /\ Goes(runPc, AfterSession)
          /\ ClosesWriter(Tail(lockQ))
          /\ ForgetsSession
          /\ UNCHANGED ping
    /\ UNCHANGED <<pushes, peerVars>>

(* A push that is left of an earlier session has drained, or failed: the   *)
(* closed transport has sent what it still held, or TCP has given it up.   *)
Releases ==
    /\ lockQ # <<>>
    /\ Holder.old
    /\ draining' = FALSE
    /\ lockQ' = Tail(lockQ)
    /\ UNCHANGED <<lifecycleVars, noise, taskVars, writer, linkVars, nonce, ping,
                   pushes, inbox, peerVars>>

-----------------------------------------------------------------------------
(* The pings and the pushes.                                               *)

PingsAnyway ==
    /\ ping \in {"sleep", "send"}
    /\ runPc \notin Closing
    /\ ping' = "send"
    /\ Encodes("ping", lockQ)
    /\ UNCHANGED <<lifecycleVars, noise, taskVars, writer, linkVars, draining,
                   pushes, inbox, peerVars>>

(* Twenty seconds after the last was through.                              *)
Pings ==
    /\ ping = "sleep"
    /\ runPc \notin Closing
    /\ ping' = "send"
    /\ Encodes("ping", lockQ)
    /\ UNCHANGED <<lifecycleVars, noise, taskVars, writer, linkVars, draining,
                   pushes, inbox, peerVars>>

StateChanged ==
    /\ stateUnsub
    /\ pushes < MaxPushes
    /\ pushes' = pushes + 1
    /\ UNCHANGED <<lifecycleVars, noise, taskVars, writer, linkVars, lockVars,
                   ping, inbox, peerVars>>

(* Nothing is sent once _writer is None, or if the packet cannot be made.  *)
(* One that is just too long for a noise frame has been encrypted before   *)
(* that is noticed: its nonce is taken and never sent.  (Once a session.)  *)
RunPush ==
    /\ pushes > 0
    /\ pushes' = pushes - 1
    /\ \/ /\ writer
          /\ Cardinality({i \in DOMAIN lockQ : lockQ[i].by = "push"}) < MaxWaiting
          /\ Encodes("push", lockQ)
          /\ UNCHANGED overlong
       \/ /\ writer /\ noise /\ ~overlong
          /\ nonce' = After(nonce)
          /\ overlong' = TRUE
          /\ UNCHANGED lockQ
       \/ UNCHANGED <<lockQ, nonce, overlong>>
    /\ UNCHANGED <<lifecycleVars, noise, taskVars, writer, linkVars, draining,
                   ping, inbox, expects, inStep>>

-----------------------------------------------------------------------------
(* Stopping.                                                               *)

StopBeginsSilently ==
    /\ running' = FALSE
    /\ UNCHANGED lifecycleVars

(* The client is gone from the first.                                      *)
StopBegins ==
    /\ running' = FALSE
    /\ OnBleClientDisconnected

(* stop(): the task is cancelled.                                          *)
Stop ==
    /\ stopPc = "idle"
    /\ runPc # "off"
    /\ StopBegins
    /\ cancelled' = (runPc # "ended")
    /\ stopPc' = "stopping"
    /\ UNCHANGED <<noise, runPc, writer, linkVars, lockVars, ping, pushes, inbox,
                   peerVars>>

WriterLeft == UNCHANGED writer

WriterDropped == writer' = FALSE

StopAwaitsWriter ==
    /\ stopPc = "stopping"
    /\ runPc = "ended" /\ ~writer
    /\ stopPc' = "stopped"
    /\ UNCHANGED <<lifecycleVars, noise, running, runPc, cancelled, writer,
                   linkVars, lockVars, ping, pushes, inbox, peerVars>>

(* The awaited task has ended, and the writer it may have left is dropped. *)
StopReturns ==
    /\ stopPc = "stopping"
    /\ runPc = "ended"
    /\ stopPc' = "stopped"
    /\ WriterDropped
    /\ UNCHANGED <<lifecycleVars, noise, running, runPc, cancelled, linkVars,
                   lockVars, ping, pushes, inbox, peerVars>>

-----------------------------------------------------------------------------
(* The device and the network.                                             *)

(* It answers the hello, and sends requests once the session is set up.    *)
DeviceSends ==
    /\ link = "up"
    /\ runPc \in Talking \cup {"greeting", "subscribe"}
    /\ inbox < MaxInbox
    /\ inbox' = inbox + 1
    /\ UNCHANGED <<lifecycleVars, noise, taskVars, writer, linkVars, lockVars,
                   ping, pushes, peerVars>>

(* Power or WiFi may be gone, or back, without a word to our end.          *)
LinkChanges(from, to) ==
    /\ link = from
    /\ link' = to
    /\ unacked' = (to = "gone" /\ draining)
    /\ UNCHANGED <<lifecycleVars, noise, taskVars, writer, lockVars, ping,
                   pushes, inbox, peerVars>>

Vanishes == LinkChanges("up", "gone")
Returns == LinkChanges("gone", "up")

(* The connection is closed or reset by the other end.                     *)
Resets == LinkChanges("up", "lost")

(* Only a connection with bytes under way is ever given up.                *)
TcpGivesUp == unacked /\ LinkChanges("gone", "lost")

-----------------------------------------------------------------------------
Device == \/ DeviceSends
          \/ Vanishes
          \/ Returns
          \/ Resets

Lock == Writes \/ Drained \/ WriteFails \/ Releases

Next ==
    \/ Start
    \/ RunTask
    \/ Lock
    \/ Pings
    \/ StateChanged
    \/ RunPush
    \/ Stop
    \/ StopReturns
    \/ Device
    \/ TcpGivesUp

Spec == Init /\ [][Next]_vars

(* The loop runs its tasks and its timers, a device that is there again    *)
(* and again takes what is sent, and TCP gives a connection up in the end. *)
(* Nothing is assumed of what the device sends, or of when stop() is       *)
(* called.                                                                 *)
Fairness ==
    /\ WF_vars(RunTask)
    /\ SF_vars(Lock)
    /\ WF_vars(Pings)
    /\ WF_vars(RunPush)
    /\ WF_vars(StopReturns)
    /\ WF_vars(TcpGivesUp)

FairSpec == Spec /\ Fairness

-----------------------------------------------------------------------------
(* Safety.                                                                 *)

(* As long as a session is not being closed, the device can read all it    *)
(* gets: the frames of the three senders reach it in the order of their    *)
(* nonces, none is missing, none is of another session, and the first is   *)
(* the hello.  Only a push that did not fit a noise frame breaks this.     *)
DeviceInStep ==
    link # "none" /\ runPc \notin Closing /\ ~overlong => inStep

(* A stop() that has returned leaves nothing behind: no listener, no       *)
(* client, no writer, no open connection, no ping task.                    *)
StoppedQuiet ==
    stopPc = "stopped" =>
       /\ ~stateUnsub /\ ~bleClientConnected
       /\ ~writer /\ link = "none"
       /\ ping = "off"

(* The server is one that Home Assistant can start, stop and forget.       *)
Contract ==
    INSTANCE BridgeContract
    WITH phase     <- IF stopPc # "idle" THEN stopPc
                      ELSE IF runPc = "off" THEN "new" ELSE "running",
         session   <- writer /\ link # "none",
         listening <- stateUnsub

KeepsContract == Contract!ContractSpec

-----------------------------------------------------------------------------
(* Liveness, under FairSpec.                                               *)

(* A device that vanished without a word is noticed, or is back, though    *)
(* nobody waits for the answer to a ping.                                  *)
VanishedNoticed == link = "gone" ~> link # "gone"

(* The task is never stuck half-way, at the write lock of all places: from *)
(* wherever it is, it comes to read the next message or connects anew,     *)
(* until it is stopped.                                                    *)
ComesBack == runPc \in Greeting \cup Closing \cup Sending \cup {"backoff"}
                ~> runPc \in {"reading", "opening"} \/ stopPc # "idle"

(* stop() returns, although its cancellation may be swallowed while a      *)
(* session waits for its ping task.                                        *)
StopCompletes == stopPc = "stopping" ~> stopPc = "stopped"
=============================================================================
