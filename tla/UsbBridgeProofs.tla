-------------------------- MODULE UsbBridgeProofs --------------------------
(***************************************************************************)
(* What the USB bridge leaves behind when it goes down, and that its view  *)
(* of the phone becomes the ESP32's, proved for queues of every size and   *)
(* any amount of traffic.                                                  *)
(***************************************************************************)
EXTENDS UsbBridge, TLAPS

USE DEF lossVars

(* The inductive invariant.  The queue and the worker of a session exist   *)
(* exactly while _bridge is between its first line and its finally clause, *)
(* and a client can only be noticed there.                                 *)
SessionOpen ==
    /\ hasQueue => Bridging
    /\ worker \in {"up", "dead"} => Bridging
    /\ worker \in {"off", "up", "dead", "done"}

StopOrder ==
    /\ stopPc \in {"idle", "stopping", "stopped"}
    /\ stopPc = "stopped" => runPc = "ended"

FlagsTyped == LifecycleTypeOK

Inv == FlagsTyped /\ SessionOpen /\ StopOrder /\ OnlineOnly

LEMMA InitInv == Init => Inv
BY DEF Init, LifecycleInit, Inv, FlagsTyped, LifecycleTypeOK, SessionOpen, StopOrder,
       OnlineOnly, Bridging

(* The steps of the task that stay on one side of the session's boundary.  *)
LEMMA TaskStep == ASSUME Inv, RunTask PROVE Inv'
<1> USE DEF Inv, FlagsTyped, LifecycleTypeOK, SessionOpen, StopOrder, OnlineOnly,
            Bridging, Goes, lifecycleVars, sendVars, taskVars, espVars
<1>1. CASE Opens
  BY <1>1 DEF Opens
<1>2. CASE OpenFails
  BY <1>2 DEF OpenFails
<1>3. CASE BackoffEnds
  BY <1>3 DEF BackoffEnds
<1>4. CASE BridgeStarts
  BY <1>4 DEF BridgeStarts
<1>5. CASE ReadsControl
  <2>1. CASE Reads("up", "reading") /\ OnBleClientConnected /\ UNCHANGED <<sendVars, lossVars>>
    BY <2>1 DEF Reads, OnBleClientConnected, SubscribeStateChanges
  <2>2. CASE Reads("down", "reading") /\ OnBleClientDisconnected /\ UNCHANGED <<sendVars, lossVars>>
    BY <2>2 DEF Reads, OnBleClientDisconnected
  <2> QED BY <1>5, <2>1, <2>2 DEF ReadsControl
<1>6. CASE ReadsPacket
  <2>1. \A n : Send(n) => hasQueue' = hasQueue
    BY DEF Send
  <2>2. /\ runPc = "reading" /\ runPc' \in {"reading", "calling"}
        /\ hasQueue' = hasQueue
        /\ UNCHANGED <<worker, stopPc, bleClientConnected, stateUnsub>>
    BY <1>6, <2>1 DEF ReadsPacket, Reads
  <2> QED BY <2>2
<1>7. CASE CallDone
  <2>1. hasQueue' = hasQueue
    BY <1>7 DEF CallDone, Send
  <2> QED BY <1>7, <2>1 DEF CallDone
<1>8. CASE ReadsJunk
  BY <1>8 DEF ReadsJunk
<1>9. CASE ReaderFails
  BY <1>9 DEF ReaderFails, BridgeEnds, OnBleClientDisconnected
<1>10. CASE Closes
  BY <1>10 DEF Closes
<1>11. CASE Cancels
  <2>1. CASE Bridging
    BY <1>11, <2>1 DEF Cancels, BridgeEnds, OnBleClientDisconnected
  <2>2. CASE ~Bridging
    BY <1>11, <2>2 DEF Cancels
  <2> QED BY <2>1, <2>2
<1>12. CASE DrainFails
  BY <1>12 DEF DrainFails
<1> QED BY <1>1, <1>2, <1>3, <1>4, <1>5, <1>6, <1>7, <1>8, <1>9, <1>10, <1>11, <1>12
        DEF RunTask

LEMMA NextStep == ASSUME Inv, [Next]_vars PROVE Inv'
<1> USE DEF Inv, FlagsTyped, LifecycleTypeOK, SessionOpen, StopOrder, OnlineOnly,
            Bridging, lifecycleVars, sendVars, taskVars, espVars
<1>1. CASE Start
  BY <1>1 DEF Start
<1>2. CASE RunTask
  BY <1>2, TaskStep
<1>3. CASE DrainDiscards
  BY <1>3 DEF DrainDiscards, Goes
<1>4. CASE WorkerWrites
  BY <1>4 DEF WorkerWrites
<1>5. CASE StateChanged
  BY <1>5 DEF StateChanged
<1>6. CASE RunPush
  BY <1>6 DEF RunPush, Send
<1>7. CASE EnableOta
  BY <1>7 DEF EnableOta, Send
<1>8. CASE Stop
  BY <1>8 DEF Stop
<1>9. CASE StopReturns
  BY <1>9 DEF StopReturns
<1>10. CASE Esp32
  <2>1. ASSUME NEW c \in Controls, PhoneChanges(c) PROVE Inv'
    BY <2>1 DEF PhoneChanges
  <2>2. ASSUME NEW f \in Frames, EspSends(f) PROVE Inv'
    BY <2>2 DEF EspSends
  <2>3. CASE Unplugged
    BY <2>3 DEF Unplugged
  <2>4. CASE Plugged
    BY <2>4 DEF Plugged
  <2> QED BY <1>10, <2>1, <2>2, <2>3, <2>4 DEF Esp32
<1>11. CASE UNCHANGED vars
  BY <1>11 DEF vars
<1> QED BY <1>1, <1>2, <1>3, <1>4, <1>5, <1>6, <1>7, <1>8, <1>9, <1>10, <1>11 DEF Next

LEMMA Invariant == Spec => []Inv
<1>1. Init => Inv
  BY InitInv
<1>2. Inv /\ [Next]_vars => Inv'
  BY NextStep
<1> QED BY <1>1, <1>2, PTL DEF Spec

(* However the port is lost, the dispatcher has no client while the bridge *)
(* is down, and listens exactly while it has one.                          *)
THEOREM NoClientOffline == Spec => []OnlineOnly
<1>1. Inv => OnlineOnly
  BY DEF Inv
<1> QED BY <1>1, Invariant, PTL

(* A stop() that has returned leaves no listener, client, queue or worker. *)
THEOREM StopLeavesNothing == Spec => []StoppedQuiet
<1>1. Inv => StoppedQuiet
  BY DEF Inv, FlagsTyped, LifecycleTypeOK, SessionOpen, StopOrder, OnlineOnly, Bridging,
         StoppedQuiet
<1> QED BY <1>1, Invariant, PTL

-----------------------------------------------------------------------------
(* The contract.  Once stop() has been called the task is cancelled, or is *)
(* past the point where a session can begin.                               *)
StopCut ==
    /\ runPc = "off" => ~cancelled /\ stopPc = "idle"
    /\ stopPc # "idle" => ~running /\ (cancelled \/ runPc \in {"closing", "ended"})

LEMMA StopCutInit == Init => StopCut
BY DEF Init, StopCut

(* The task only runs as long as it is not cancelled, and when it has been *)
(* it ends.                                                                *)
LEMMA TaskCut == ASSUME StopCut, RunTask PROVE StopCut'
<1> USE DEF StopCut, Goes
<1>1. ASSUME NEW from, NEW to, from \notin {"off", "closing", "ended"}, to # "off",
             Goes(from, to)
      PROVE  StopCut'
  BY <1>1
<1>2. CASE Opens \/ OpenFails \/ BackoffEnds \/ DrainFails \/ BridgeStarts \/ CallDone
            \/ ReadsJunk \/ ReaderFails
  BY <1>1, <1>2 DEF Opens, OpenFails, BackoffEnds, DrainFails, BridgeStarts, CallDone,
                    ReadsJunk, ReaderFails
<1>3. CASE ReadsControl \/ ReadsPacket
  BY <1>1, <1>3 DEF ReadsControl, ReadsPacket, Reads
<1>4. CASE Closes
  BY <1>4 DEF Closes
<1>5. CASE Cancels
  BY <1>5 DEF Cancels
<1> QED BY <1>2, <1>3, <1>4, <1>5 DEF RunTask

LEMMA StopCutStep == ASSUME StopCut, [Next]_vars PROVE StopCut'
<1> USE DEF StopCut
<1>1. CASE RunTask
  BY <1>1, TaskCut
<1>2. CASE Start
  BY <1>2 DEF Start
<1>7. CASE Stop
  <2>1. runPc # "off" /\ runPc' = runPc /\ ~running' /\ cancelled' = (runPc # "ended")
    BY <1>7 DEF Stop
  <2>2. CASE runPc = "ended"
    BY <2>1, <2>2
  <2>3. CASE runPc # "ended"
    <3>1. cancelled'
      BY <2>1, <2>3, Zenon
    <3> QED BY <2>1, <3>1
  <2> QED BY <2>2, <2>3
<1>8. CASE StopReturns
  BY <1>8 DEF StopReturns, taskVars
<1>3. CASE DrainDiscards
  BY <1>3 DEF DrainDiscards, Goes
<1>4. CASE WorkerWrites \/ StateChanged \/ RunPush \/ EnableOta
  BY <1>4 DEF WorkerWrites, StateChanged, RunPush, EnableOta, taskVars
<1>5. CASE Esp32
  <2>1. UNCHANGED <<taskVars, stopPc>>
    BY <1>5 DEF Esp32, PhoneChanges, EspSends, Unplugged, Plugged, espVars
  <2> QED BY <2>1 DEF taskVars
<1>6. CASE UNCHANGED vars
  BY <1>6 DEF vars, taskVars
<1> QED BY <1>1, <1>2, <1>3, <1>4, <1>5, <1>6, <1>7, <1>8 DEF Next

LEMMA ContractInv == Spec => [](Inv /\ StopCut)
<1>1. Init => Inv /\ StopCut
  BY InitInv, StopCutInit
<1>2. Inv /\ StopCut /\ [Next]_vars => (Inv /\ StopCut)'
  BY NextStep, StopCutStep
<1> QED BY <1>1, <1>2, PTL DEF Spec

(* What the contract sees: nothing of a step that leaves these alone.      *)
Seen == <<stopPc, runPc = "off", Bridging, stateUnsub>>

ContractStep == [Contract!ContractNext]_Contract!contractVars

LEMMA Unseen == ASSUME UNCHANGED Seen PROVE ContractStep
BY DEF Seen, ContractStep, Contract!contractVars

LEMMA InitKeeps == Init => Contract!ContractInit
BY DEF Init, LifecycleInit, Contract!ContractInit, Bridging

(* A step of the task.  A session begins only before stop() is called,     *)
(* because the task of a stopped server is cancelled or closing.           *)
LEMMA TaskKeeps == ASSUME Inv, StopCut, RunTask PROVE ContractStep
<1> USE DEF Goes, Bridging, Seen
<1>1. CASE Opens \/ OpenFails \/ BackoffEnds \/ DrainFails \/ ReadsPacket \/ CallDone
            \/ ReadsJunk \/ Closes
  <2>1. UNCHANGED Seen
    BY <1>1 DEF Opens, OpenFails, BackoffEnds, DrainFails, ReadsPacket, Reads, CallDone,
                ReadsJunk, Closes, lifecycleVars
  <2> QED BY <2>1, Unseen
<1>2. CASE BridgeStarts
  <2>1. Contract!SessionBegins
    BY <1>2 DEF BridgeStarts, StopCut, lifecycleVars, Contract!SessionBegins
  <2> QED BY <2>1 DEF ContractStep, Contract!ContractNext
<1>3. CASE ReadsControl
  <2>1. /\ stopPc = "idle" /\ stopPc' = stopPc /\ Bridging /\ Bridging'
        /\ runPc # "off" /\ runPc' # "off"
    BY <1>3 DEF ReadsControl, Reads, StopCut
  <2>2. CASE stateUnsub' = stateUnsub
    BY <2>1, <2>2, Unseen
  <2>3. CASE stateUnsub' = TRUE
    <3>1. Contract!PhoneComes
      BY <2>1, <2>3 DEF Contract!PhoneComes
    <3> QED BY <3>1 DEF ContractStep, Contract!ContractNext
  <2>4. CASE stateUnsub /\ stateUnsub' = FALSE
    <3>1. Contract!PhoneGoes
      BY <2>1, <2>4 DEF Contract!PhoneGoes
    <3> QED BY <3>1 DEF ContractStep, Contract!ContractNext
  <2>5. stateUnsub' = stateUnsub \/ stateUnsub' = TRUE \/ (stateUnsub /\ stateUnsub' = FALSE)
    BY <1>3 DEF ReadsControl, Reads, OnBleClientConnected, OnBleClientDisconnected,
                SubscribeStateChanges, lifecycleVars, Inv, FlagsTyped, LifecycleTypeOK
  <2> QED BY <2>2, <2>3, <2>4, <2>5
<1>4. ASSUME Bridging, runPc' = "closing", BridgeEnds, stopPc' = stopPc PROVE ContractStep
  <2>1. stateUnsub' = FALSE
    BY <1>4 DEF BridgeEnds, OnBleClientDisconnected, lifecycleVars, Inv, FlagsTyped,
                LifecycleTypeOK, OnlineOnly
  <2>2. Contract!SessionEnds
    BY <1>4, <2>1 DEF Contract!SessionEnds
  <2> QED BY <2>2 DEF ContractStep, Contract!ContractNext
<1>5. CASE ReaderFails
  BY <1>4, <1>5 DEF ReaderFails
<1>6. CASE Cancels
  <2>1. CASE Bridging
    BY <1>4, <1>6, <2>1 DEF Cancels
  <2>2. CASE ~Bridging
    <3>1. UNCHANGED Seen
      BY <1>6, <2>2 DEF Cancels, StopCut, lifecycleVars
    <3> QED BY <3>1, Unseen
  <2> QED BY <2>1, <2>2
<1> QED BY <1>1, <1>2, <1>3, <1>5, <1>6 DEF RunTask

LEMMA NextKeeps == ASSUME Inv, StopCut, [Next]_vars PROVE ContractStep
<1> USE DEF Bridging, Seen
<1>1. CASE RunTask
  BY <1>1, TaskKeeps
<1>2. CASE Start
  <2>1. Contract!Starts
    BY <1>2 DEF Start, StopCut, lifecycleVars, Contract!Starts
  <2> QED BY <2>1 DEF ContractStep, Contract!ContractNext
<1>3. CASE Stop
  <2>1. Contract!StopCalled
    BY <1>3 DEF Stop, Contract!StopCalled
  <2> QED BY <2>1 DEF ContractStep, Contract!ContractNext
<1>4. CASE StopReturns
  <2>1. Contract!StopEnds
    BY <1>4 DEF StopReturns, taskVars, lifecycleVars, Contract!StopEnds
  <2> QED BY <2>1 DEF ContractStep, Contract!ContractNext
<1>5. CASE DrainDiscards \/ WorkerWrites \/ StateChanged \/ RunPush \/ EnableOta \/ Esp32
            \/ UNCHANGED vars
  <2>1. UNCHANGED Seen
    BY <1>5 DEF DrainDiscards, Goes, WorkerWrites, StateChanged, RunPush, EnableOta, Esp32,
                PhoneChanges, EspSends, Unplugged, Plugged, vars, taskVars, lifecycleVars,
                espVars
  <2> QED BY <2>1, Unseen
<1> QED BY <1>1, <1>2, <1>3, <1>4, <1>5 DEF Next

(* The USB bridge is a server that Home Assistant can start, stop and      *)
(* forget: it implements BridgeContract.                                   *)
THEOREM BridgeKeepsContract == Spec => KeepsContract
<1>1. Init => Contract!ContractInit
  BY InitKeeps
<1>2. Inv /\ StopCut /\ [Next]_vars => [Contract!ContractNext]_Contract!contractVars
  BY NextKeeps DEF ContractStep
<1> QED BY <1>1, <1>2, ContractInv, PTL DEF Spec, KeepsContract, Contract!ContractSpec

-----------------------------------------------------------------------------
(* The types.  Two facts about queues that the steps below use.            *)

LEMMA AppendIs ==
    ASSUME NEW S, NEW q \in Seq(S), NEW e \in S
    PROVE  /\ Append(q, e) \in Seq(S)
           /\ Len(Append(q, e)) = Len(q) + 1
           /\ \A i \in 1..Len(q) : Append(q, e)[i] = q[i]
           /\ Append(q, e)[Len(q) + 1] = e
OBVIOUS

LEMMA TailIs ==
    ASSUME NEW S, NEW q \in Seq(S), q # <<>>
    PROVE  /\ Tail(q) \in Seq(S)
           /\ Len(q) \in Nat \ {0}
           /\ Len(Tail(q)) = Len(q) - 1
           /\ \A i \in 1..Len(Tail(q)) : Tail(q)[i] = q[i + 1]
           /\ Head(q) = q[1]
           /\ Head(q) \in S
OBVIOUS

(* One frame put before a queue.                                           *)
LEMMA InFront ==
    ASSUME NEW S, NEW q \in Seq(S), NEW e
    PROVE  /\ Len(<<e>> \o q) = Len(q) + 1
           /\ (<<e>> \o q)[1] = e
           /\ \A i \in 2..Len(<<e>> \o q) : (<<e>> \o q)[i] = q[i - 1]
OBVIOUS

(* What is left of the queue after garbage is a queue of frames.           *)
LEMMA RestIs ==
    ASSUME NEW S, NEW q \in Seq(S), NEW n \in 1..Len(q), NEW j \in S
    PROVE  /\ SubSeq(q, n + 1, Len(q)) \in Seq(S)
           /\ <<j>> \o SubSeq(q, n + 1, Len(q)) \in Seq(S)
<1>1. SubSeq(q, n + 1, Len(q)) \in Seq(S)
  OBVIOUS
<1>2. <<j>> \in Seq(S)
  OBVIOUS
<1> QED BY <1>1, <1>2

Inboxes == Seq(Frames \cup Controls)

(* Sending never makes the queue longer than its capacity.                 *)
LEMMA SendFits ==
    ASSUME queued \in 0..QCap, NEW n \in 1..2, Send(n)
    PROVE  queued' \in 0..QCap /\ hasQueue' = hasQueue
<1> QCap \in Nat
  BY UsbAssumption
<1> QED BY DEF Send, sendVars

LEMMA InitTyped == Init => TypeOK
<1> SUFFICES ASSUME Init PROVE TypeOK
  OBVIOUS
<1>1. LifecycleTypeOK /\ running \in BOOLEAN /\ cancelled \in BOOLEAN /\ hasQueue \in BOOLEAN
  BY DEF Init, LifecycleInit, LifecycleTypeOK
<1>2. queued \in 0..QCap /\ pushes \in 0..MaxPushes
  BY UsbAssumption DEF Init
<1>3. inbox \in Inboxes
  BY DEF Init, Inboxes
<1>4. /\ runPc \in {"off", "opening", "drain", "reading", "calling", "closing", "backoff",
                    "ended"}
      /\ worker \in {"off", "up", "dead", "done"}
      /\ stopPc \in {"idle", "stopping", "stopped"}
  BY DEF Init
<1>5. broken \in BOOLEAN /\ plugged \in BOOLEAN /\ espClient \in BOOLEAN
      /\ missed \in BOOLEAN /\ forgotten \in BOOLEAN
  BY DEF Init
<1> QED BY <1>1, <1>2, <1>3, <1>4, <1>5 DEF TypeOK, Inboxes

(* What each part of the state may become, one part at a time.             *)
LEMMA PlacesTyped ==
    ASSUME TypeOK, [Next]_vars
    PROVE  /\ runPc' \in {"off", "opening", "drain", "reading", "calling", "closing",
                          "backoff", "ended"}
           /\ worker' \in {"off", "up", "dead", "done"}
           /\ stopPc' \in {"idle", "stopping", "stopped"}
<1> USE DEF TypeOK, Goes, taskVars
<1>1. CASE Start \/ DrainDiscards \/ WorkerWrites \/ StateChanged \/ RunPush \/ EnableOta
           \/ Stop \/ StopReturns
  BY <1>1 DEF Start, DrainDiscards, WorkerWrites, StateChanged, RunPush, EnableOta, Stop,
              StopReturns
<1>2. CASE Esp32
  BY <1>2 DEF Esp32, PhoneChanges, EspSends, Unplugged, Plugged
<1>3. CASE Opens \/ OpenFails \/ BackoffEnds \/ DrainFails \/ BridgeStarts \/ CallDone
           \/ ReadsJunk
  BY <1>3 DEF Opens, OpenFails, BackoffEnds, DrainFails, BridgeStarts, CallDone, ReadsJunk
<1>4. CASE ReadsControl \/ ReadsPacket
  BY <1>4 DEF ReadsControl, ReadsPacket, Reads
<1>5. CASE ReaderFails \/ Closes \/ Cancels
  BY <1>5 DEF ReaderFails, Closes, Cancels, BridgeEnds
<1>6. CASE UNCHANGED vars
  BY <1>6 DEF vars
<1> QED BY <1>1, <1>2, <1>3, <1>4, <1>5, <1>6 DEF Next, RunTask

LEMMA FlagsStay ==
    ASSUME TypeOK, [Next]_vars
    PROVE  /\ running' \in BOOLEAN /\ cancelled' \in BOOLEAN
           /\ broken' \in BOOLEAN /\ plugged' \in BOOLEAN
           /\ espClient' \in BOOLEAN
           /\ missed' \in BOOLEAN /\ forgotten' \in BOOLEAN
<1> USE DEF TypeOK, Goes, taskVars, espVars
<1>1. CASE Start \/ DrainDiscards \/ WorkerWrites \/ StateChanged \/ RunPush \/ EnableOta
           \/ Stop \/ StopReturns
  BY <1>1 DEF Start, DrainDiscards, WorkerWrites, StateChanged, RunPush, EnableOta, Stop,
              StopReturns
<1>2. CASE Esp32
  BY <1>2 DEF Esp32, PhoneChanges, EspSends, Unplugged, Plugged
<1>3. CASE Opens \/ OpenFails \/ BackoffEnds \/ DrainFails \/ BridgeStarts \/ CallDone
           \/ ReadsJunk
  BY <1>3 DEF Opens, OpenFails, BackoffEnds, DrainFails, BridgeStarts, CallDone, ReadsJunk
<1>4. CASE ReadsControl \/ ReadsPacket
  BY <1>4 DEF ReadsControl, ReadsPacket, Reads
<1>5. CASE ReaderFails \/ Closes \/ Cancels
  BY <1>5 DEF ReaderFails, Closes, Cancels, BridgeEnds
<1>6. CASE UNCHANGED vars
  BY <1>6 DEF vars
<1> QED BY <1>1, <1>2, <1>3, <1>4, <1>5, <1>6 DEF Next, RunTask

LEMMA QueueTyped ==
    ASSUME TypeOK, [Next]_vars
    PROVE  hasQueue' \in BOOLEAN /\ queued' \in 0..QCap /\ pushes' \in 0..MaxPushes
<1> DEFINE Goal == hasQueue' \in BOOLEAN /\ queued' \in 0..QCap /\ pushes' \in 0..MaxPushes
<1>0. /\ hasQueue \in BOOLEAN /\ queued \in 0..QCap /\ pushes \in 0..MaxPushes
      /\ QCap \in Nat \ {0} /\ MaxPushes \in Nat
  BY UsbAssumption DEF TypeOK
<1>1. ASSUME NEW n \in 1..2, Send(n), pushes' = pushes \/ (pushes > 0 /\ pushes' = pushes - 1)
      PROVE  Goal
  BY <1>0, <1>1, SendFits
<1>2. CASE UNCHANGED <<sendVars, pushes>>
  BY <1>0, <1>2 DEF sendVars
<1>3. CASE Start \/ DrainDiscards \/ Stop \/ StopReturns \/ UNCHANGED vars
  BY <1>2, <1>3 DEF Start, DrainDiscards, Stop, StopReturns, vars
<1>4. CASE WorkerWrites
  BY <1>0, <1>4 DEF WorkerWrites
<1>5. CASE StateChanged
  BY <1>0, <1>5 DEF StateChanged, sendVars
<1>6. CASE RunPush \/ EnableOta \/ CallDone \/ ReadsPacket
  <2>1. \E n \in 1..2 : Send(n)
    BY <1>6 DEF RunPush, EnableOta, CallDone, ReadsPacket
  <2>2. CASE RunPush
    BY <1>1, <2>1, <2>2 DEF RunPush
  <2>3. CASE EnableOta \/ CallDone \/ ReadsPacket
    <3>1. pushes' = pushes
      BY <2>3, Zenon DEF EnableOta, CallDone, ReadsPacket, Reads
    <3> QED BY <1>1, <2>1, <3>1
  <2> QED BY <1>6, <2>2, <2>3
<1>7. CASE Esp32
  BY <1>2, <1>7 DEF Esp32, PhoneChanges, EspSends, Unplugged, Plugged
<1>8. CASE Opens \/ OpenFails \/ BackoffEnds \/ DrainFails
  BY <1>2, <1>8 DEF Opens, OpenFails, BackoffEnds, DrainFails
<1>9. CASE ReadsControl \/ ReadsJunk \/ Closes
  BY <1>2, <1>9 DEF ReadsControl, ReadsJunk, Closes, Reads
<1>10. CASE BridgeStarts
  <2>1. hasQueue' = TRUE /\ queued' = 1 /\ pushes' = pushes
    BY <1>10 DEF BridgeStarts
  <2> QED BY <1>0, <2>1
<1>11. CASE ReaderFails \/ Cancels
  <2>1. pushes' = pushes
    BY <1>11 DEF ReaderFails, Cancels
  <2>2. hasQueue' \in BOOLEAN
    BY <1>0, <1>11 DEF ReaderFails, Cancels, BridgeEnds
  <2>3. queued' = 0 \/ queued' = queued
    BY <1>11 DEF ReaderFails, Cancels, BridgeEnds
  <2> QED BY <1>0, <2>1, <2>2, <2>3
<1> QED BY <1>3, <1>4, <1>5, <1>6, <1>7, <1>8, <1>9, <1>10, <1>11 DEF Next, RunTask

LEMMA InboxTyped == ASSUME TypeOK, [Next]_vars PROVE inbox' \in Inboxes
<1> USE DEF Inboxes
<1>1. inbox \in Inboxes
  BY DEF TypeOK
<1>2. CASE inbox' = inbox
  BY <1>1, <1>2
<1>3. CASE inbox # <<>> /\ inbox' = Tail(inbox)
  BY <1>1, <1>3, TailIs
<1>4. ASSUME NEW f \in Frames \cup Controls, inbox' = Append(inbox, f) PROVE inbox' \in Inboxes
  BY <1>1, <1>4, AppendIs
<1>5. CASE ReadsJunk
  <2>1. PICK n \in 1..Len(inbox) :
             \/ inbox' = SubSeq(inbox, n + 1, Len(inbox))
             \/ inbox' = <<"junk">> \o SubSeq(inbox, n + 1, Len(inbox))
    BY <1>5 DEF ReadsJunk
  <2>2. "junk" \in Frames \cup Controls
    <3>1. inbox # <<>> /\ Head(inbox) = "junk"
      BY <1>5 DEF ReadsJunk
    <3> QED BY <3>1, <1>1, TailIs
  <2> QED BY <1>1, <2>1, <2>2, RestIs
<1>6. CASE Opens \/ DrainDiscards
  <2>1. inbox' = <<>>
    BY <1>6 DEF Opens, DrainDiscards
  <2> QED BY <2>1
<1>7. CASE Esp32
  <2>1. ASSUME NEW c \in Controls, PhoneChanges(c) PROVE inbox' \in Inboxes
    BY <1>2, <1>4, <2>1 DEF PhoneChanges
  <2>2. ASSUME NEW f \in Frames, EspSends(f) PROVE inbox' \in Inboxes
    BY <1>4, <2>2 DEF EspSends
  <2>3. CASE Unplugged \/ Plugged
    BY <1>2, <2>3 DEF Unplugged, Plugged
  <2> QED BY <1>7, <2>1, <2>2, <2>3 DEF Esp32
<1>8. CASE Start \/ WorkerWrites \/ StateChanged \/ RunPush \/ EnableOta \/ Stop
           \/ StopReturns \/ UNCHANGED vars
  BY <1>2, <1>8 DEF Start, WorkerWrites, StateChanged, RunPush, EnableOta, Stop,
                    StopReturns, vars
<1>9. CASE OpenFails \/ BackoffEnds \/ DrainFails \/ BridgeStarts \/ CallDone
           \/ ReaderFails \/ Closes \/ Cancels
  BY <1>2, <1>9 DEF OpenFails, BackoffEnds, DrainFails, BridgeStarts, CallDone, ReaderFails,
                    Closes, Cancels
<1>10. CASE ReadsControl \/ ReadsPacket
  BY <1>3, <1>10 DEF ReadsControl, ReadsPacket, Reads
<1> QED BY <1>5, <1>6, <1>7, <1>8, <1>9, <1>10 DEF Next, RunTask

LEMMA Typed == Spec => []TypeOK
<1>1. Init => TypeOK
  BY InitTyped
<1>2. TypeOK /\ Inv /\ Inv' /\ [Next]_vars => TypeOK'
  <2> SUFFICES ASSUME TypeOK, Inv', [Next]_vars PROVE TypeOK'
    OBVIOUS
  <2>1. LifecycleTypeOK'
    BY DEF Inv, FlagsTyped
  <2>2. (inbox \in Seq(Frames \cup Controls))'
    BY InboxTyped DEF Inboxes
  <2> QED BY <2>1, <2>2, PlacesTyped, FlagsStay, QueueTyped DEF TypeOK
<1> QED BY <1>1, <1>2, Invariant, PTL DEF Spec

(* The types, and the bound on the write queue, whatever the constants.    *)
THEOREM TypeCorrect == Spec => []TypeOK
BY Typed

-----------------------------------------------------------------------------
(* The view of the phone.  What the last control message in the queue says *)
(* is not disturbed by taking a frame from the front, if it is believed    *)
(* then, and is overruled by a control message at the back.                *)
LEMMA ViewOfTail ==
    ASSUME NEW q \in Inboxes, q # <<>>, NEW b \in BOOLEAN, NEW c \in BOOLEAN,
           Head(q) = "up" => c, Head(q) = "down" => ~c,
           Head(q) \notin Controls => (c <=> b)
    PROVE  ViewAfter(c, Tail(q)) <=> ViewAfter(b, q)
<1> DEFINE t == Tail(q)
<1>1. /\ Len(q) \in Nat \ {0} /\ Len(t) = Len(q) - 1 /\ Head(q) = q[1]
      /\ \A i \in 1..Len(t) : t[i] = q[i + 1]
  BY TailIs DEF Inboxes
<1> DEFINE None(s) == \A i \in 1..Len(s) : s[i] \notin Controls
           Last(s, i) == s[i] = "up" /\ \A j \in (i + 1)..Len(s) : s[j] \notin Controls
<1>2. None(q) <=> q[1] \notin Controls /\ None(t)
  <2>1. ASSUME q[1] \notin Controls, None(t) PROVE None(q)
    <3> SUFFICES ASSUME NEW i \in 1..Len(q), i # 1 PROVE q[i] \notin Controls
      BY <2>1
    <3>1. i - 1 \in 1..Len(t) /\ t[i - 1] = q[i]
      BY <1>1
    <3> QED BY <2>1, <3>1
  <2>2. ASSUME None(q) PROVE q[1] \notin Controls /\ None(t)
    <3>1. 1 \in 1..Len(q) /\ \A i \in 1..Len(t) : i + 1 \in 1..Len(q)
      BY <1>1
    <3> QED BY <1>1, <2>2, <3>1
  <2> QED BY <2>1, <2>2
<1>3. Last(q, 1) <=> q[1] = "up" /\ None(t)
  <2>1. ASSUME q[1] = "up", None(t) PROVE Last(q, 1)
    <3> SUFFICES ASSUME NEW j \in 2..Len(q) PROVE q[j] \notin Controls
      BY <2>1
    <3>1. j - 1 \in 1..Len(t) /\ t[j - 1] = q[j]
      BY <1>1
    <3> QED BY <2>1, <3>1
  <2>2. ASSUME Last(q, 1) PROVE q[1] = "up" /\ None(t)
    <3>1. \A i \in 1..Len(t) : i + 1 \in 2..Len(q)
      BY <1>1
    <3> QED BY <1>1, <2>2, <3>1
  <2> QED BY <2>1, <2>2
<1>4. ASSUME NEW i \in 1..Len(t) PROVE Last(t, i) <=> Last(q, i + 1)
  <2>1. t[i] = q[i + 1]
    BY <1>1
  <2>2. ASSUME NEW j \in (i + 1)..Len(t) PROVE j + 1 \in (i + 2)..Len(q) /\ t[j] = q[j + 1]
    BY <1>1
  <2>3. ASSUME NEW j \in (i + 2)..Len(q) PROVE j - 1 \in (i + 1)..Len(t) /\ t[j - 1] = q[j]
    BY <1>1
  <2>4. (i + 1) + 1 = i + 2
    OBVIOUS
  <2>5. ASSUME Last(t, i) PROVE Last(q, i + 1)
    BY <2>1, <2>3, <2>4, <2>5
  <2>6. ASSUME Last(q, i + 1) PROVE Last(t, i)
    BY <2>1, <2>2, <2>4, <2>6
  <2> QED BY <2>5, <2>6
<1>5. (\E i \in 1..Len(q) : Last(q, i)) <=> Last(q, 1) \/ \E i \in 1..Len(t) : Last(t, i)
  <2>1. ASSUME NEW i \in 1..Len(q), Last(q, i), i # 1 PROVE \E k \in 1..Len(t) : Last(t, k)
    <3>1. i - 1 \in 1..Len(t) /\ (i - 1) + 1 = i
      BY <1>1, <2>1
    <3>2. Last(t, i - 1) <=> Last(q, (i - 1) + 1)
      BY <1>4, <3>1
    <3> HIDE DEF Last
    <3>3. Last(t, i - 1)
      BY <2>1, <3>1, <3>2
    <3> QED BY <3>1, <3>3
  <2>2. ASSUME NEW i \in 1..Len(t), Last(t, i) PROVE i + 1 \in 1..Len(q) /\ Last(q, i + 1)
    BY <1>1, <1>4, <2>2
  <2>3. 1 \in 1..Len(q)
    BY <1>1
  <2> HIDE DEF Last
  <2> QED BY <2>1, <2>2, <2>3
<1>6. /\ ViewAfter(b, q) <=> (b /\ None(q)) \/ \E i \in 1..Len(q) : Last(q, i)
      /\ ViewAfter(c, t) <=> (c /\ None(t)) \/ \E i \in 1..Len(t) : Last(t, i)
  BY DEF ViewAfter, HasControl
<1>7. q[1] = "up" => c
  BY <1>1
<1>8. q[1] \notin Controls => (c <=> b)
  BY <1>1
<1>9. q[1] \in Controls /\ c => q[1] = "up"
  BY <1>1 DEF Controls
<1>10. q[1] = "up" => q[1] \in Controls
  BY DEF Controls
<1> HIDE DEF None, Last, t
<1>11. ViewAfter(c, t) <=> ViewAfter(b, q)
  BY <1>2, <1>3, <1>5, <1>6, <1>7, <1>8, <1>9, <1>10
<1> QED BY <1>11 DEF t

LEMMA ViewOfAppend ==
    ASSUME NEW q \in Inboxes, NEW f \in Frames \cup Controls, NEW b \in BOOLEAN
    PROVE  /\ f \in Controls => (ViewAfter(b, Append(q, f)) <=> f = "up")
           /\ f \notin Controls => (ViewAfter(b, Append(q, f)) <=> ViewAfter(b, q))
<1> DEFINE a == Append(q, f)
<1>1. /\ Len(q) \in Nat /\ Len(a) = Len(q) + 1 /\ a[Len(q) + 1] = f
      /\ \A i \in 1..Len(q) : a[i] = q[i]
  BY AppendIs DEF Inboxes
<1>2. ASSUME f \in Controls PROVE ViewAfter(b, a) <=> f = "up"
  <2>1. Len(a) \in 1..Len(a) /\ a[Len(a)] = f /\ ~(\A i \in 1..Len(a) : a[i] \notin Controls)
    BY <1>1, <1>2
  <2>2. ASSUME f = "up" PROVE ViewAfter(b, a)
    <3>1. \A j \in (Len(a) + 1)..Len(a) : a[j] \notin Controls
      BY <1>1
    <3> HIDE DEF a
    <3> QED BY <2>1, <2>2, <3>1 DEF ViewAfter, HasControl
  <2>3. ASSUME NEW i \in 1..Len(a), a[i] = "up",
               \A j \in (i + 1)..Len(a) : a[j] \notin Controls
        PROVE  f = "up"
    <3>1. i = Len(a) \/ Len(a) \in (i + 1)..Len(a)
      BY <1>1
    <3> HIDE DEF a
    <3> QED BY <1>2, <2>1, <2>3, <3>1
  <2> HIDE DEF a
  <2> QED BY <2>1, <2>2, <2>3 DEF ViewAfter, HasControl
<1>3. ASSUME f \notin Controls PROVE ViewAfter(b, a) <=> ViewAfter(b, q)
  <2>1. \A i \in 1..Len(a) : i \in 1..Len(q) \/ a[i] = f
    BY <1>1
  <2>2. 1..Len(q) \subseteq 1..Len(a)
    BY <1>1
  <2>3. (\A i \in 1..Len(a) : a[i] \notin Controls) <=> (\A i \in 1..Len(q) : q[i] \notin Controls)
    BY <1>1, <1>3, <2>1, <2>2
  <2>4. ASSUME NEW i \in 1..Len(q)
        PROVE  (\A j \in (i + 1)..Len(a) : a[j] \notin Controls)
                 <=> (\A j \in (i + 1)..Len(q) : q[j] \notin Controls)
    <3>1. \A j \in (i + 1)..Len(a) : j \in (i + 1)..Len(q) \/ a[j] = f
      BY <1>1
    <3>2. \A j \in (i + 1)..Len(q) : j \in (i + 1)..Len(a) /\ a[j] = q[j]
      BY <1>1
    <3> HIDE DEF a
    <3> QED BY <1>3, <3>1, <3>2
  <2>5. a[Len(q) + 1] # "up"
    BY <1>1, <1>3 DEF Controls
  <2>6. \A i \in 1..Len(a) : a[i] = "up" => i \in 1..Len(q)
    BY <1>1, <2>5
  <2>7. \A i \in 1..Len(q) : i \in 1..Len(a) /\ a[i] = q[i]
    BY <1>1
  <2> HIDE DEF a
  <2> QED BY <2>3, <2>4, <2>6, <2>7 DEF ViewAfter, HasControl
<1> QED BY <1>2, <1>3

(* Garbage takes frames from the front, m of them and perhaps part of the  *)
(* next: what is left says the same of the phone, unless the last control  *)
(* message was among them.                                                 *)
LEMMA ViewOfRest ==
    ASSUME NEW q \in Inboxes, NEW r \in Inboxes, NEW m \in Nat, NEW b \in BOOLEAN,
           Len(r) = Len(q) - m,
           \A i \in 2..Len(r) : r[i] = q[i + m],
           Len(r) > 0 => r[1] = q[1 + m] \/ r[1] \notin Controls,
           HasControl(q) => HasControl(r)
    PROVE  ViewAfter(b, r) <=> ViewAfter(b, q)
<1> DEFINE Last(s, i) == s[i] = "up" /\ \A j \in (i + 1)..Len(s) : s[j] \notin Controls
<1>0. Len(q) \in Nat /\ Len(r) \in Nat
  BY DEF Inboxes
<1>1. ASSUME NEW i \in 1..Len(r), r[i] \in Controls PROVE i + m \in 1..Len(q) /\ r[i] = q[i + m]
  <2>1. i + m \in 1..Len(q)
    BY <1>0
  <2>2. CASE i = 1
    BY <1>0, <1>1, <2>2
  <2>3. CASE i # 1
    BY <1>0, <2>3
  <2> QED BY <2>1, <2>2, <2>3
<1>2. HasControl(r) => HasControl(q)
  BY <1>1 DEF HasControl
<1>3. CASE ~HasControl(q)
  <2>1. ~HasControl(r)
    BY <1>2, <1>3
  <2>2. \A s : ~HasControl(s) => (ViewAfter(b, s) <=> b)
    BY DEF ViewAfter, HasControl, Controls
  <2> QED BY <1>3, <2>1, <2>2
<1>4. CASE HasControl(q)
  <2>1. PICK p \in 1..Len(r) : r[p] \in Controls
    BY <1>4 DEF HasControl
  <2>2. ASSUME NEW i \in 1..Len(r), Last(r, i) PROVE i + m \in 1..Len(q) /\ Last(q, i + m)
    <3>1. i + m \in 1..Len(q) /\ q[i + m] = "up"
      BY <1>1, <2>2 DEF Controls
    <3>2. ASSUME NEW j \in (i + m + 1)..Len(q) PROVE q[j] \notin Controls
      <4>1. j - m \in (i + 1)..Len(r) /\ j - m \in 2..Len(r) /\ (j - m) + m = j
        BY <1>0
      <4>2. r[j - m] = q[j]
        BY <4>1
      <4> QED BY <2>2, <4>1, <4>2
    <3> QED BY <3>1, <3>2
  <2>3. ASSUME NEW k \in 1..Len(q), Last(q, k) PROVE k - m \in 1..Len(r) /\ Last(r, k - m)
    <3>1. p + m \in 1..Len(q) /\ q[p + m] \in Controls
      BY <1>1, <2>1
    <3>2. p + m <= k
      <4>1. p + m \notin (k + 1)..Len(q)
        BY <2>3, <3>1
      <4> QED BY <3>1, <4>1
    <3>3. k - m \in 1..Len(r) /\ k - m >= p
      BY <1>0, <3>2
    <3>4. r[k - m] = "up"
      <4>1. CASE k - m = 1
        <5>1. p = 1 /\ k = 1 + m
          BY <3>3, <4>1
        <5>2. r[1] = q[1 + m]
          BY <1>1, <2>1, <5>1
        <5> QED BY <2>3, <5>1, <5>2
      <4>2. CASE k - m # 1
        <5>1. k - m \in 2..Len(r) /\ (k - m) + m = k
          BY <3>3, <4>2
        <5>2. r[k - m] = q[k]
          BY <5>1
        <5> QED BY <2>3, <5>2
      <4> QED BY <4>1, <4>2
    <3>5. ASSUME NEW j \in ((k - m) + 1)..Len(r) PROVE r[j] \notin Controls
      <4>1. j \in 2..Len(r) /\ j + m \in (k + 1)..Len(q)
        BY <1>0, <3>3
      <4>2. r[j] = q[j + m]
        BY <4>1
      <4> QED BY <2>3, <4>1, <4>2
    <3> QED BY <3>3, <3>4, <3>5
  <2>4. (\E i \in 1..Len(r) : Last(r, i)) <=> (\E k \in 1..Len(q) : Last(q, k))
    <3> HIDE DEF Last
    <3> QED BY <2>2, <2>3
  <2>5. HasControl(r)
    BY <1>4
  <2>6. ViewAfter(b, r) <=> \E i \in 1..Len(r) : Last(r, i)
    BY <2>5 DEF ViewAfter
  <2>7. ViewAfter(b, q) <=> \E k \in 1..Len(q) : Last(q, k)
    BY <1>4 DEF ViewAfter
  <2> HIDE DEF Last
  <2> QED BY <2>4, <2>6, <2>7
<1> QED BY <1>3, <1>4

(* The inductive invariant.  As long as its connection is not lost, the    *)
(* port that was opened is there, so that what the ESP32 sends about its   *)
(* phone arrives.  And when no control message was lost and no phone       *)
(* forgotten, then what the port has still to tell is what the ESP32       *)
(* knows: while the port is read (Known), also when it is lost during the  *)
(* drain (Drained), and while it is closed, where a phone can only be one  *)
(* that the closed port's unread messages speak of (Unheard).              *)
Listens   == runPc = "drain" \/ Bridging
PortThere == Listens /\ ~broken => plugged
Kept      == ~missed /\ ~forgotten
Says      == ViewAfter(bleClientConnected, inbox)
Known     == Listens /\ ~broken /\ Kept => (Says <=> espClient)
Drained   == runPc = "drain" /\ Kept /\ espClient => Says
Unheard   == ~Listens /\ Kept /\ espClient => HasControl(inbox)

ViewInv == PortThere /\ Known /\ Drained /\ Unheard

LEMMA ViewInit == Init => ViewInv
BY DEF Init, ViewInv, Listens, PortThere, Known, Drained, Unheard, Bridging

LEMMA PortStays == ASSUME TypeOK, PortThere, [Next]_vars PROVE PortThere'
<1> USE DEF PortThere, Listens, Bridging, Goes, taskVars, espVars
<1>1. CASE Start \/ DrainDiscards \/ WorkerWrites \/ StateChanged \/ RunPush \/ EnableOta
           \/ Stop \/ StopReturns \/ UNCHANGED vars
  BY <1>1 DEF Start, DrainDiscards, WorkerWrites, StateChanged, RunPush, EnableOta, Stop,
              StopReturns, vars
<1>2. CASE Esp32
  BY <1>2 DEF Esp32, PhoneChanges, EspSends, Unplugged, Plugged
<1>3. CASE Opens \/ OpenFails \/ BackoffEnds \/ DrainFails \/ BridgeStarts \/ CallDone
           \/ ReadsJunk
  BY <1>3 DEF Opens, OpenFails, BackoffEnds, DrainFails, BridgeStarts, CallDone, ReadsJunk
<1>4. CASE ReadsControl \/ ReadsPacket
  BY <1>4 DEF ReadsControl, ReadsPacket, Reads
<1>5. CASE ReaderFails \/ Closes \/ Cancels
  BY <1>5 DEF ReaderFails, Closes, Cancels
<1> QED BY <1>1, <1>2, <1>3, <1>4, <1>5 DEF Next, RunTask

(* A step that neither the ESP32's phone nor what is read of it depends on. *)
LEMMA ViewAlone ==
    ASSUME ViewInv, PortThere',
           UNCHANGED <<broken, lossVars, bleClientConnected, inbox, espClient>>,
           Listens' <=> Listens, runPc' = "drain" => runPc = "drain"
    PROVE  ViewInv'
BY DEF ViewInv, Known, Drained, Unheard, Kept, Says

(* While the port is read, a step that leaves open what the ESP32's phone  *)
(* is, if what is still to be read says the same after it, or a message    *)
(* about it was lost.                                                      *)
LEMMA ViewRead ==
    ASSUME ViewInv, PortThere', Listens, Listens',
           UNCHANGED <<broken, espClient>>,
           runPc' = "drain" => runPc = "drain",
           Kept' => Kept /\ (Says' <=> Says)
    PROVE  ViewInv'
BY DEF ViewInv, Known, Drained, Unheard

(* A frame is read: its control message is believed, anything else leaves  *)
(* the belief alone.                                                       *)
LEMMA SaysRead ==
    ASSUME TypeOK, TypeOK', inbox # <<>>, inbox' = Tail(inbox),
           Head(inbox) = "up" => bleClientConnected',
           Head(inbox) = "down" => ~bleClientConnected',
           Head(inbox) \notin Controls => bleClientConnected' = bleClientConnected
    PROVE  Says' <=> Says
<1>1. inbox \in Inboxes /\ bleClientConnected \in BOOLEAN /\ bleClientConnected' \in BOOLEAN
  BY DEF TypeOK, Inboxes, LifecycleTypeOK
<1>2. Head(inbox) \notin Controls => (bleClientConnected' <=> bleClientConnected)
  BY <1>1
<1>3. ViewAfter(bleClientConnected', Tail(inbox)) <=> ViewAfter(bleClientConnected, inbox)
  BY <1>1, <1>2, ViewOfTail
<1> QED BY <1>3 DEF Says

(* With nothing to be read, the view is what is believed.                  *)
LEMMA SaysNothing ==
    ASSUME NEW b \in BOOLEAN, NEW q, ~HasControl(q) PROVE ViewAfter(b, q) <=> b
BY DEF ViewAfter, HasControl, Controls

LEMMA NothingSaid == ~HasControl(<<>>)
BY DEF HasControl

(* Opening and draining the port: what is thrown away is missed, if it     *)
(* held a control message.                                                 *)
LEMMA DrainView == ASSUME TypeOK, TypeOK', OnlineOnly, ViewInv, PortThere',
                          Opens \/ DrainDiscards
                   PROVE  ViewInv'
<1> USE DEF Goes
<1>1. bleClientConnected \in BOOLEAN /\ bleClientConnected' = bleClientConnected
  BY DEF Opens, DrainDiscards, lifecycleVars, TypeOK, LifecycleTypeOK
<1>2. Kept' => Kept /\ ~HasControl(inbox)
  BY DEF Opens, DrainDiscards, Kept
<1>3. inbox' = <<>> /\ espClient' = espClient /\ runPc' = "drain"
  BY DEF Opens, DrainDiscards
<1>4. Says' <=> bleClientConnected
  BY <1>1, <1>3, SaysNothing, NothingSaid DEF Says
<1>5. CASE DrainDiscards
  <2>1. Kept' => (Says' <=> Says)
    BY <1>1, <1>2, <1>4, SaysNothing DEF Says
  <2>2. /\ Listens /\ Listens' /\ runPc = "drain"
        /\ UNCHANGED <<broken, espClient>>
    BY <1>5 DEF DrainDiscards, Listens
  <2> QED BY <1>2, <2>1, <2>2, ViewRead
<1>6. CASE Opens
  <2>1. ~Listens /\ ~bleClientConnected
    BY <1>6 DEF Opens, Listens, Bridging, OnlineOnly
  <2>2. Kept' => ~espClient
    BY <1>2, <2>1 DEF ViewInv, Unheard
  <2>3. Kept' => (Says' <=> espClient')
    BY <1>3, <1>4, <2>1, <2>2
  <2>4. Listens'
    BY <1>3 DEF Listens
  <2>5. Known' /\ Drained' /\ Unheard'
    BY <2>3, <2>4 DEF Known, Drained, Unheard
  <2> QED BY <2>5 DEF ViewInv
<1> QED BY <1>5, <1>6

(* The end of a session, or of a drain.  The finally clause of _bridge     *)
(* forgets whatever phone the ESP32 has.                                   *)
LEMMA EndView == ASSUME TypeOK, OnlineOnly, ViewInv, PortThere',
                        ReaderFails \/ Cancels \/ DrainFails
                 PROVE  ViewInv'
<1> USE DEF Goes
<1>1. ~Listens' /\ inbox' = inbox /\ espClient' = espClient /\ (Kept' => Kept)
  <2>1. ~Listens' /\ inbox' = inbox /\ espClient' = espClient
    BY DEF ReaderFails, Cancels, DrainFails, Listens, Bridging
  <2>2. missed' = missed
    BY DEF ReaderFails, Cancels, DrainFails
  <2>3. forgotten => forgotten'
    BY DEF ReaderFails, Cancels, DrainFails, BridgeEnds
  <2> QED BY <2>1, <2>2, <2>3 DEF Kept
<1>2. Unheard'
  <2>1. CASE Bridging
    <3>1. Kept' => ~espClient'
      BY <2>1 DEF ReaderFails, Cancels, DrainFails, BridgeEnds, Bridging, Kept
    <3> QED BY <3>1 DEF Unheard
  <2>2. CASE runPc = "drain"
    <3>1. ~bleClientConnected /\ bleClientConnected \in BOOLEAN
      BY <2>2 DEF OnlineOnly, Bridging, TypeOK, LifecycleTypeOK
    <3>2. Says => HasControl(inbox)
      BY <3>1, SaysNothing DEF Says
    <3> QED BY <1>1, <2>2, <3>2 DEF ViewInv, Drained, Unheard
  <2>3. CASE ~Listens
    BY <1>1, <2>3 DEF ViewInv, Unheard
  <2> QED BY <2>1, <2>2, <2>3 DEF Listens
<1>3. Known' /\ Drained'
  BY <1>1 DEF Known, Drained, Listens
<1> QED BY <1>2, <1>3 DEF ViewInv

(* What the reader does in a session.                                      *)
LEMMA ReaderView == ASSUME TypeOK, TypeOK', ViewInv, PortThere',
                           ReadsControl \/ ReadsPacket \/ ReadsJunk
                    PROVE  ViewInv'
<1> USE DEF Goes
<1>1. /\ Listens /\ Listens' /\ UNCHANGED <<broken, espClient>>
      /\ runPc' # "drain" /\ inbox # <<>>
  BY DEF ReadsControl, ReadsPacket, ReadsJunk, Reads, Listens, Bridging
<1>2. CASE ReadsControl
  <2>1. inbox' = Tail(inbox) /\ UNCHANGED lossVars
    BY <1>2 DEF ReadsControl, Reads
  <2>2. Head(inbox) = "up" => bleClientConnected'
    BY <1>2 DEF ReadsControl, Reads, OnBleClientConnected, lifecycleVars
  <2>3. Head(inbox) = "down" => ~bleClientConnected'
    BY <1>2 DEF ReadsControl, Reads, OnBleClientDisconnected, lifecycleVars
  <2>4. Head(inbox) \in Controls
    BY <1>2 DEF ReadsControl, Reads, Controls
  <2>5. Says' <=> Says
    BY <1>1, <2>1, <2>2, <2>3, <2>4, SaysRead
  <2>6. Kept' => Kept
    BY <2>1 DEF Kept
  <2> QED BY <1>1, <2>5, <2>6, ViewRead
<1>3. CASE ReadsPacket
  <2>1. inbox' = Tail(inbox) /\ UNCHANGED <<lossVars, bleClientConnected>>
    BY <1>3 DEF ReadsPacket, Reads, lifecycleVars
  <2>2. Head(inbox) \notin Controls /\ Head(inbox) # "up" /\ Head(inbox) # "down"
    BY <1>3 DEF ReadsPacket, Reads, Controls
  <2>3. Says' <=> Says
    BY <1>1, <2>1, <2>2, SaysRead
  <2>4. Kept' => Kept
    BY <2>1 DEF Kept
  <2> QED BY <1>1, <2>3, <2>4, ViewRead
<1>4. CASE ReadsJunk
  <2>1. inbox \in Inboxes /\ inbox' \in Inboxes /\ bleClientConnected \in BOOLEAN
    BY DEF TypeOK, Inboxes, LifecycleTypeOK
  <2>2. Kept' => Kept /\ (HasControl(inbox) => HasControl(inbox'))
    BY <1>4 DEF ReadsJunk, Kept
  <2>3. PICK n \in 1..Len(inbox) :
             \/ inbox' = SubSeq(inbox, n + 1, Len(inbox))
             \/ inbox' = <<"junk">> \o SubSeq(inbox, n + 1, Len(inbox))
    BY <1>4 DEF ReadsJunk
  <2> DEFINE rest == SubSeq(inbox, n + 1, Len(inbox))
  <2>4. /\ n \in Nat /\ n - 1 \in Nat /\ Len(inbox) \in Nat
        /\ rest \in Inboxes /\ Len(rest) = Len(inbox) - n
        /\ \A i \in 1..Len(rest) : rest[i] = inbox[i + n]
    BY <2>1 DEF Inboxes
  <2> HIDE DEF rest
  <2>5. ASSUME Kept' PROVE ViewAfter(bleClientConnected, inbox')
                             <=> ViewAfter(bleClientConnected, inbox)
    <3>1. HasControl(inbox) => HasControl(inbox')
      BY <2>2, <2>5
    <3>2. CASE inbox' = rest
      <4>1. /\ Len(inbox') = Len(inbox) - n
            /\ \A i \in 2..Len(inbox') : inbox'[i] = inbox[i + n]
            /\ Len(inbox') > 0 => inbox'[1] = inbox[1 + n]
        BY <2>4, <3>2
      <4> QED BY <2>1, <2>4, <3>1, <4>1, ViewOfRest
    <3>3. CASE inbox' = <<"junk">> \o rest
      <4>1. /\ Len(inbox') = Len(inbox) - (n - 1)
            /\ inbox'[1] = "junk"
            /\ \A i \in 2..Len(inbox') : inbox'[i] = inbox[i + (n - 1)]
        <5>1. /\ Len(inbox') = Len(rest) + 1 /\ inbox'[1] = "junk"
              /\ \A i \in 2..Len(inbox') : inbox'[i] = rest[i - 1]
          BY <2>4, <3>3, InFront DEF Inboxes
        <5>2. \A i \in 2..Len(inbox') :
                 i - 1 \in 1..Len(rest) /\ (i - 1) + n = i + (n - 1)
          BY <2>4, <5>1
        <5> QED BY <2>4, <5>1, <5>2
      <4>2. inbox'[1] \notin Controls
        BY <4>1 DEF Controls
      <4> QED BY <2>1, <2>4, <3>1, <4>1, <4>2, ViewOfRest
    <3> QED BY <2>3, <3>2, <3>3 DEF rest
  <2>6. bleClientConnected' = bleClientConnected
    BY <1>4 DEF ReadsJunk, lifecycleVars
  <2>7. Kept' => (Says' <=> Says)
    BY <2>5, <2>6 DEF Says
  <2> QED BY <1>1, <2>2, <2>7, ViewRead
<1> QED BY <1>2, <1>3, <1>4

(* The ESP32's phone comes or goes.  If the port is read, the message is   *)
(* the last one there; if not, it is lost.                                 *)
LEMMA PhoneView == ASSUME TypeOK, ViewInv, PortThere', NEW c \in Controls, PhoneChanges(c)
                   PROVE  ViewInv'
<1>1. /\ UNCHANGED <<broken, bleClientConnected, runPc>>
      /\ espClient' = (c = "up")
      /\ (Listens' <=> Listens)
  BY DEF PhoneChanges, lifecycleVars, taskVars, Listens, Bridging
<1>2. CASE Listens /\ ~broken
  <2>1. Receiving
    BY <1>2 DEF ViewInv, PortThere, Listens, Receiving
  <2>2. inbox' = Append(inbox, c)
    BY <2>1 DEF PhoneChanges
  <2>3. inbox \in Inboxes /\ bleClientConnected \in BOOLEAN
    BY DEF TypeOK, Inboxes, LifecycleTypeOK
  <2>4. ViewAfter(bleClientConnected, Append(inbox, c)) <=> c = "up"
    BY <2>3, ViewOfAppend
  <2>5. Says' <=> espClient'
    BY <1>1, <2>2, <2>4 DEF Says
  <2>6. Known' /\ Drained' /\ Unheard'
    BY <1>1, <1>2, <2>5 DEF Known, Drained, Unheard
  <2> QED BY <2>6 DEF ViewInv
<1>3. CASE ~(Listens /\ ~broken)
  <2>1. ~Receiving
    BY <1>3 DEF Receiving, Listens
  <2>2. ~Kept'
    BY <2>1 DEF PhoneChanges, Kept
  <2> QED BY <2>2 DEF ViewInv, Known, Drained, Unheard
<1> QED BY <1>2, <1>3

LEMMA EspView == ASSUME TypeOK, ViewInv, PortThere', NEW f \in Frames, EspSends(f)
                 PROVE  ViewInv'
<1>1. /\ inbox' = Append(inbox, f)
      /\ UNCHANGED <<runPc, broken, lossVars, bleClientConnected, espClient>>
  BY DEF EspSends, taskVars, espVars, lifecycleVars
<1>2. inbox \in Inboxes /\ bleClientConnected \in BOOLEAN
  BY DEF TypeOK, Inboxes, LifecycleTypeOK
<1>3. f \notin Controls
  BY UsbAssumption DEF Controls
<1>4. ViewAfter(bleClientConnected, Append(inbox, f)) <=> ViewAfter(bleClientConnected, inbox)
  BY <1>2, <1>3, ViewOfAppend
<1>5. Says' <=> Says
  BY <1>1, <1>4 DEF Says
<1>6. Listens /\ Listens' /\ (Kept' => Kept)
  BY <1>1 DEF EspSends, Receiving, Listens, Bridging, Kept
<1> QED BY <1>1, <1>5, <1>6, ViewRead

LEMMA ViewStep ==
    ASSUME TypeOK, TypeOK', OnlineOnly, ViewInv, PortThere', [Next]_vars
    PROVE  ViewInv'
<1> USE DEF Goes
<1>1. CASE WorkerWrites \/ StateChanged \/ RunPush \/ EnableOta \/ Stop \/ Plugged
           \/ StopReturns \/ UNCHANGED vars
  <2>1. UNCHANGED <<runPc, broken, lossVars, bleClientConnected, inbox, espClient>>
    BY <1>1 DEF WorkerWrites, StateChanged, RunPush, EnableOta, Stop, Plugged, StopReturns,
                vars, taskVars, espVars, lifecycleVars
  <2> QED BY <2>1, ViewAlone DEF Listens, Bridging
<1>2. CASE Start \/ OpenFails \/ BackoffEnds \/ Closes \/ CallDone \/ BridgeStarts
  <2>1. UNCHANGED <<broken, lossVars, bleClientConnected, inbox, espClient>>
    BY <1>2 DEF Start, OpenFails, BackoffEnds, Closes, CallDone, BridgeStarts, espVars,
                lifecycleVars
  <2>2. (Listens' <=> Listens) /\ runPc' # "drain"
    BY <1>2 DEF Start, OpenFails, BackoffEnds, Closes, CallDone, BridgeStarts, Listens,
                Bridging
  <2> QED BY <2>1, <2>2, ViewAlone
<1>3. CASE Unplugged
  <2>1. /\ broken' /\ (espClient' => espClient) /\ (Listens' <=> Listens)
        /\ UNCHANGED <<runPc, lossVars, bleClientConnected, inbox>>
    <3>1. UNCHANGED <<runPc, lossVars, bleClientConnected, inbox>>
      BY <1>3 DEF Unplugged, taskVars, lifecycleVars
    <3>2. broken' /\ (espClient' => espClient)
      <4>1. espClient' = espClient \/ espClient' = FALSE
        BY <1>3 DEF Unplugged
      <4>2. broken' = TRUE
        BY <1>3 DEF Unplugged
      <4> QED BY <4>1, <4>2
    <3> QED BY <3>1, <3>2 DEF Listens, Bridging
  <2> QED BY <2>1 DEF ViewInv, Known, Drained, Unheard, Kept, Says
<1> QED BY <1>1, <1>2, <1>3, DrainView, EndView, ReaderView, PhoneView, EspView
        DEF Next, RunTask, Esp32

(* The dispatcher's view of the phone is the ESP32's once it has read what *)
(* the ESP32 sent, unless the last control message was lost, or the end of *)
(* a session forgot the phone: for any length of the stream, any garbage   *)
(* and any number of sessions.                                             *)
THEOREM ViewIsTheirs == Spec => []ViewSettles
<1>1. Init => ViewInv
  BY ViewInit
<1>2. TypeOK /\ TypeOK' /\ Inv /\ ViewInv /\ [Next]_vars => ViewInv'
  BY PortStays, ViewStep DEF ViewInv, Inv
<1>3. ViewInv => ViewSettles
  BY DEF ViewInv, Known, Listens, Kept, Says, ViewSettles
<1> QED BY <1>1, <1>2, <1>3, Typed, Invariant, PTL DEF Spec
=============================================================================
