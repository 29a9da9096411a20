-------------------------- MODULE GattServerProofs --------------------------
(***************************************************************************)
(* What GattServer guarantees for every queue size, answer length and      *)
(* number of outstanding callbacks.                                        *)
(***************************************************************************)
EXTENDS GattServer, SequenceTheorems, TLAPS

USE DEF lifecycleVars, rxVars, linkVars, txVars, detVars, runVars, envVars,
        FinishFrame, ScheduleFrame

-----------------------------------------------------------------------------
(* Types.                                                                  *)

(* The chunks cut from one frame: a sequence, as long as what fitted.      *)
ChunksOf(n, fit, stale) ==
    [i \in 1..fit |-> [idx |-> i, of |-> n, stale |-> stale]]

LEMMA ChunksOfSeq ==
    ASSUME NEW n \in Nat, NEW fit \in Nat, NEW stale \in BOOLEAN
    PROVE  /\ ChunksOf(n, fit, stale) \in Seq(Chunk)
           /\ Len(ChunksOf(n, fit, stale)) = fit
<1> DEFINE c == ChunksOf(n, fit, stale)
<1>1. c \in [1..fit -> Chunk]
  BY DEF ChunksOf, Chunk
<1> HIDE DEF c
<1>2. c \in Seq(Chunk)
  BY <1>1, SeqDef
<1>3. DOMAIN c = 1..Len(c) /\ Len(c) \in Nat
  BY <1>2, LenProperties
<1>4. 1..Len(c) = 1..fit
  BY <1>1, <1>3
<1>5. Len(c) <= fit
  <2>1. Len(c) > 0 => Len(c) \in 1..Len(c)
    BY <1>3
  <2>2. Len(c) > 0 => Len(c) \in 1..fit
    BY <1>4, <2>1
  <2> QED BY <1>3, <2>2
<1>6. fit <= Len(c)
  <2>1. fit > 0 => fit \in 1..fit
    OBVIOUS
  <2>2. fit > 0 => fit \in 1..Len(c)
    BY <1>4, <2>1
  <2> QED BY <1>3, <2>2
<1>7. Len(c) = fit
  <2>1. \A m, n2 \in Nat : m <= n2 /\ n2 <= m => m = n2
    OBVIOUS
  <2>2. Len(c) \in Nat
    BY <1>3
  <2> QED BY <1>5, <1>6, <2>1, <2>2
<1> QED BY <1>2, <1>7 DEF c

(* Enqueue appends the chunks that fit: all of them, unless it overflows.  *)
LEMMA EnqueueType ==
    ASSUME NEW q \in Seq(Chunk), Len(q) <= QCap, NEW n \in Nat,
           NEW stale \in BOOLEAN
    PROVE  /\ Enqueue(q, n, stale) \in Seq(Chunk)
           /\ Len(Enqueue(q, n, stale)) <= QCap
           /\ ~Overflows(q, n) =>
                Enqueue(q, n, stale) = q \o ChunksOf(n, n, stale)
<1> DEFINE room == QCap - Len(q)
           fit  == IF n <= room THEN n ELSE room
           new  == ChunksOf(n, fit, stale)
<1>1. fit \in Nat /\ Len(q) + fit <= QCap /\ (~Overflows(q, n) => fit = n)
  BY GattAssumption DEF Overflows
<1>2. Enqueue(q, n, stale) = q \o new
  BY DEF Enqueue, ChunksOf
<1> HIDE DEF fit
<1>3. new \in Seq(Chunk) /\ Len(new) = fit
  BY <1>1, ChunksOfSeq
<1> HIDE DEF new
<1>4. q \o new \in Seq(Chunk) /\ Len(q \o new) = Len(q) + Len(new)
  BY <1>3, ConcatProperties
<1> QED BY <1>1, <1>2, <1>3, <1>4 DEF new

(* Both ways of sending keep the TX variables well typed.                  *)
TxTypeOK == txQueue \in Seq(Chunk) /\ Len(txQueue) <= QCap /\ txLast \in Chunk

HistOK == lost \in BOOLEAN /\ cut \in BOOLEAN

LEMMA SendFrameType ==
    ASSUME TypeOK, NEW n \in Nat, NEW stale \in BOOLEAN, SendFrame(n, stale)
    PROVE  TxTypeOK' /\ HistOK'
<1>1. TxTypeOK'
  BY EnqueueType DEF SendFrame, SendNothing, TypeOK, DataTypeOK, TxTypeOK
<1>2. HistOK'
  BY DEF SendFrame, SendNothing, TypeOK, FlagsTypeOK, HistOK
<1> QED BY <1>1, <1>2

LEMMA SendAckAndAnswerType ==
    ASSUME TypeOK, NEW n \in Nat, SendAckAndAnswer(n)
    PROVE  TxTypeOK' /\ HistOK'
<1>1. TxTypeOK'
  <2> DEFINE acked == Enqueue(txQueue, 1, FALSE)
  <2>1. acked \in Seq(Chunk) /\ Len(acked) <= QCap
    BY EnqueueType DEF TypeOK, DataTypeOK
  <2>2. txQueue' = Enqueue(acked, n, FALSE) \/ txQueue' = txQueue
    BY DEF SendAckAndAnswer, SendNothing
  <2>3. txLast' = txLast
    BY DEF SendAckAndAnswer, SendNothing
  <2> HIDE DEF acked
  <2> QED BY <2>1, <2>2, <2>3, EnqueueType DEF TypeOK, DataTypeOK, TxTypeOK
<1>2. HistOK'
  BY DEF SendAckAndAnswer, SendNothing, TypeOK, FlagsTypeOK, HistOK
<1> QED BY <1>1, <1>2

(* Draining the queue and scheduling on_disconnect keeps the types.        *)
LEMMA MarkDisconnectedType ==
    ASSUME TypeOK, MarkDisconnected
    PROVE  /\ connected' \in BOOLEAN /\ HistOK'
           /\ TxTypeOK'
           /\ ready' \in Seq(Callback)
<1>1. Lifecycle("disconnect") \in Callback
  BY DEF Lifecycle, Callback, ReadyOps
<1>2. FrameStart \in Chunk /\ <<>> \in Seq(Chunk) /\ Len(<<>>) <= QCap
  BY GattAssumption DEF FrameStart, Chunk
<1>3. TxTypeOK' /\ ready' \in Seq(Callback)
  BY <1>1, <1>2 DEF MarkDisconnected, TypeOK, DataTypeOK, TxTypeOK
<1>4. connected' \in BOOLEAN /\ HistOK'
  BY DEF MarkDisconnected, TypeOK, FlagsTypeOK, HistOK
<1> QED BY <1>3, <1>4

(* One more suspended call is still a count.                               *)
LEMMA OneMore ==
    ASSUME NEW f \in [BOOLEAN -> Nat]
    PROVE  [f EXCEPT ![FALSE] = @ + 1] \in [BOOLEAN -> Nat]
<1>1. f[FALSE] \in Nat
  OBVIOUS
<1>2. \A m \in Nat : m + 1 \in Nat
  OBVIOUS
<1>3. f[FALSE] + 1 \in Nat
  BY <1>1, <1>2, Zenon
<1> DEFINE m == f[FALSE] + 1
<1> HIDE DEF m
<1>4. m \in Nat => [f EXCEPT ![FALSE] = m] \in [BOOLEAN -> Nat]
  BY Zenon
<1> QED BY <1>3, <1>4 DEF m

(* One lemma per group of actions: the flags, then the other variables.    *)
LEMMA SetupType == ASSUME TypeOK, Setup PROVE TypeOK'
<1>1. ASSUME Start PROVE FlagsTypeOK'
  BY <1>1 DEF Start, TypeOK, FlagsTypeOK, LifecycleTypeOK
<1>2. ASSUME CreateServer \/ Advertise \/ SetupFails \/ AdapterConfigured
      PROVE  FlagsTypeOK'
  BY <1>2 DEF CreateServer, Advertise, SetupFails, AdapterConfigured,
              TypeOK, FlagsTypeOK, LifecycleTypeOK
<1>3. ASSUME Start \/ SetupFails PROVE DataTypeOK'
  <2>1. CASE Start
    BY <2>1 DEF Start, TypeOK, DataTypeOK
  <2>2. CASE SetupFails
    BY <2>2 DEF SetupFails, TypeOK, DataTypeOK
  <2> QED BY <1>3, <2>1, <2>2
<1>6. ASSUME CreateServer PROVE DataTypeOK'
  BY <1>6 DEF CreateServer, TypeOK, DataTypeOK
<1>4. ASSUME Advertise PROVE DataTypeOK'
  BY <1>4 DEF Advertise, TypeOK, DataTypeOK
<1>5. ASSUME AdapterConfigured PROVE DataTypeOK'
  BY <1>5 DEF AdapterConfigured, TypeOK, DataTypeOK
<1> QED BY <1>1, <1>2, <1>3, <1>4, <1>5, <1>6 DEF Setup, TypeOK

LEMMA PhoneType == ASSUME TypeOK, Phone PROVE TypeOK'
<1>1. ASSUME ClientLink PROVE TypeOK'
  <2>1. FlagsTypeOK'
    <3>1. HistOK'
      BY <1>1 DEF ClientLink, HistOK, TypeOK, FlagsTypeOK
    <3> QED BY <1>1, <3>1 DEF ClientLink, HistOK, TypeOK, FlagsTypeOK, LifecycleTypeOK
  <2>2. calls' \in [BOOLEAN -> Nat]
    <3>1. calls \in [BOOLEAN -> Nat]
      BY DEF TypeOK, DataTypeOK
    <3>2. calls[TRUE] + calls[FALSE] \in Nat
      <4>1. calls[TRUE] \in Nat /\ calls[FALSE] \in Nat
        BY <3>1
      <4>2. \A m, n \in Nat : m + n \in Nat
        OBVIOUS
      <4> QED BY <4>1, <4>2, Zenon
    <3> DEFINE total == calls[TRUE] + calls[FALSE]
    <3>3. calls' = calls \/ calls' = [s \in BOOLEAN |-> IF s THEN total ELSE 0]
      BY <1>1 DEF ClientLink
    <3> HIDE DEF total
    <3>4. total \in Nat => [s \in BOOLEAN |-> IF s THEN total ELSE 0] \in [BOOLEAN -> Nat]
      OBVIOUS
    <3> QED BY <3>1, <3>2, <3>3, <3>4 DEF total
  <2>3. DataTypeOK'
    <3>1. FrameStart \in Chunk
      BY DEF FrameStart, Chunk
    <3> QED BY <1>1, <2>2, <3>1 DEF ClientLink, TypeOK, DataTypeOK
  <2> QED BY <2>1, <2>3 DEF TypeOK
<1>2. ASSUME ClientSubscribe \/ ClientDrop \/ WriteContinues PROVE TypeOK'
  <2>1. FlagsTypeOK'
    BY <1>2 DEF ClientSubscribe, ClientDrop, WriteContinues,
                TypeOK, FlagsTypeOK, LifecycleTypeOK
  <2>2. ASSUME ClientSubscribe \/ ClientDrop PROVE DataTypeOK'
    BY <2>2 DEF ClientSubscribe, ClientDrop, TypeOK, DataTypeOK
  <2>3. ASSUME WriteContinues PROVE DataTypeOK'
    BY <2>3 DEF WriteContinues, TypeOK, DataTypeOK
  <2> QED BY <1>2, <2>1, <2>2, <2>3 DEF TypeOK
<1>3. ASSUME NEW kind \in Requests, WriteFinal(kind) PROVE TypeOK'
  <2>1. FlagsTypeOK'
    BY <1>3 DEF WriteFinal, TypeOK, FlagsTypeOK, LifecycleTypeOK
  <2>2. /\ Lifecycle("connect") \in Callback
        /\ Frame(kind) \in Callback
        /\ Frame("torn") \in Callback
    BY GattAssumption DEF Lifecycle, Frame, Callback, ReadyOps, RequestKinds
  <2>3. ready' \in Seq(Callback)
    BY <1>3, <2>2 DEF WriteFinal, TypeOK, DataTypeOK
  <2>4. DataTypeOK'
    BY <1>3, <2>3 DEF WriteFinal, TypeOK, DataTypeOK
  <2> QED BY <2>1, <2>4 DEF TypeOK
<1> QED BY <1>1, <1>2, <1>3 DEF Phone, ClientWritesFrame

LEMMA ReadyType == ASSUME TypeOK, RunReady PROVE TypeOK'
<1>0. ready # <<>> /\ Head(ready) \in Callback /\ Tail(ready) \in Seq(Callback)
  <2>1. ready # <<>>
    BY DEF RunReady, RunOnConnect, RunOnDisconnect, RunOnFrame, RunHandle, RunPush
  <2> QED BY <2>1 DEF TypeOK, DataTypeOK
<1>1. ASSUME RunOnConnect \/ RunOnDisconnect PROVE TypeOK'
  <2>1. FlagsTypeOK'
    BY <1>1 DEF RunOnConnect, RunOnDisconnect, OnBleClientConnected,
                SubscribeStateChanges, OnBleClientDisconnected,
                TypeOK, FlagsTypeOK, LifecycleTypeOK
  <2>2. DataTypeOK'
    <3>1. ASSUME RunOnConnect PROVE DataTypeOK'
      BY <1>0, <3>1 DEF RunOnConnect, TypeOK, DataTypeOK
    <3>2. ASSUME RunOnDisconnect PROVE DataTypeOK'
      BY <1>0, <3>2 DEF RunOnDisconnect, TypeOK, DataTypeOK
    <3> QED BY <1>1, <3>1, <3>2
  <2> QED BY <2>1, <2>2 DEF TypeOK
<1>2. ASSUME RunOnFrame PROVE TypeOK'
  <2>1. FlagsTypeOK'
    BY <1>2 DEF RunOnFrame, TypeOK, FlagsTypeOK, LifecycleTypeOK
  <2>2. [Head(ready) EXCEPT !.op = "handle"] \in Callback
    BY <1>0 DEF Callback, ReadyOps
  <2>3. DataTypeOK'
    BY <1>0, <1>2, <2>2 DEF RunOnFrame, TypeOK, DataTypeOK
  <2> QED BY <2>1, <2>3 DEF TypeOK
<1>3. ASSUME RunHandle PROVE TypeOK'
  <2>1. SendNothing \/ SendFrame(1, FALSE) \/ SendAckAndAnswer(AnsChunks)
    BY <1>3 DEF RunHandle
  <2>2. TxTypeOK'
    BY <2>1, SendFrameType, SendAckAndAnswerType, GattAssumption
    DEF SendNothing, TypeOK, DataTypeOK, TxTypeOK
  <2>3. HistOK'
    <3>1. CASE SendNothing
      BY <3>1 DEF SendNothing, TypeOK, FlagsTypeOK, HistOK
    <3> QED BY <2>1, <3>1, SendFrameType, SendAckAndAnswerType, GattAssumption
  <2>4. FlagsTypeOK'
    BY <1>3, <2>3 DEF RunHandle, TypeOK, FlagsTypeOK, LifecycleTypeOK, HistOK
  <2>5. calls' \in [BOOLEAN -> Nat]
    <3>1. calls \in [BOOLEAN -> Nat]
      BY DEF TypeOK, DataTypeOK
    <3>2. calls' = calls \/ calls' = [calls EXCEPT ![FALSE] = @ + 1]
      BY <1>3 DEF RunHandle
    <3>3. [calls EXCEPT ![FALSE] = @ + 1] \in [BOOLEAN -> Nat]
      BY <3>1, OneMore
    <3> QED BY <3>1, <3>2, <3>3
  <2>6. DataTypeOK'
    BY <1>0, <1>3, <2>2, <2>5 DEF RunHandle, TxTypeOK, TypeOK, DataTypeOK
  <2> QED BY <2>4, <2>6 DEF TypeOK
<1>4. ASSUME RunPush PROVE TypeOK'
  <2>1. TxTypeOK' /\ HistOK'
    <3>1. CASE SendNothing
      BY <3>1 DEF SendNothing, TypeOK, FlagsTypeOK, DataTypeOK, TxTypeOK, HistOK
    <3>2. CASE SendFrame(AnsChunks, FALSE)
      BY <3>2, SendFrameType, GattAssumption
    <3> QED BY <1>4, <3>1, <3>2 DEF RunPush
  <2>2. FlagsTypeOK'
    BY <1>4, <2>1 DEF RunPush, TypeOK, FlagsTypeOK, LifecycleTypeOK, HistOK
  <2>3. DataTypeOK'
    BY <1>0, <1>4, <2>1 DEF RunPush, TxTypeOK, TypeOK, DataTypeOK
  <2> QED BY <2>2, <2>3 DEF TypeOK
<1> QED BY <1>1, <1>2, <1>3, <1>4 DEF RunReady

LEMMA HandlerType ==
    ASSUME TypeOK, StateChanged \/ \E stale \in BOOLEAN : CallDone(stale)
    PROVE  TypeOK'
<1>1. ASSUME NEW stale \in BOOLEAN, CallDone(stale) PROVE TypeOK'
  <2>1. TxTypeOK' /\ HistOK'
    BY <1>1, SendFrameType DEF CallDone
  <2>2. FlagsTypeOK'
    BY <1>1, <2>1 DEF CallDone, TypeOK, FlagsTypeOK, LifecycleTypeOK, HistOK
  <2>3. calls' \in [BOOLEAN -> Nat]
    BY <1>1 DEF CallDone, TypeOK, DataTypeOK
  <2>4. DataTypeOK'
    BY <1>1, <2>1, <2>3 DEF CallDone, TxTypeOK, TypeOK, DataTypeOK
  <2> QED BY <2>2, <2>4 DEF TypeOK
<1>2. ASSUME StateChanged PROVE TypeOK'
  <2>1. FlagsTypeOK'
    BY <1>2 DEF StateChanged, TypeOK, FlagsTypeOK, LifecycleTypeOK
  <2>2. Push \in Callback
    BY DEF Push, Callback, ReadyOps
  <2>3. DataTypeOK'
    BY <1>2, <2>2 DEF StateChanged, TypeOK, DataTypeOK
  <2> QED BY <2>1, <2>3 DEF TypeOK
<1> QED BY <1>1, <1>2

LEMMA WorkerType == ASSUME TypeOK, Worker PROVE TypeOK'
<1>0. ASSUME WorkerGets
      PROVE  /\ Head(txQueue) \in Chunk
             /\ Tail(txQueue) \in Seq(Chunk) /\ Len(Tail(txQueue)) <= QCap
  BY <1>0, GattAssumption DEF WorkerGets, TypeOK, DataTypeOK
<1>1. ASSUME WorkerStops \/ WorkerSends \/ WorkerSkips \/ WorkerWakes
      PROVE  FlagsTypeOK'
  BY <1>1 DEF WorkerStops, WorkerSends, WorkerSkips, WorkerWakes,
              TypeOK, FlagsTypeOK, LifecycleTypeOK
<1>2. ASSUME WorkerStops PROVE DataTypeOK'
  BY <1>0, <1>2 DEF WorkerStops, TypeOK, DataTypeOK
<1>3. ASSUME WorkerSends PROVE DataTypeOK'
  <2>1. txLast' \in Chunk
    BY <1>0, <1>3 DEF WorkerSends, WorkerHasChunk, FrameStart, Chunk
  <2> QED BY <1>0, <1>3, <2>1 DEF WorkerSends, WorkerHasChunk, TypeOK, DataTypeOK
<1>4. ASSUME WorkerSkips PROVE DataTypeOK'
  BY <1>0, <1>4 DEF WorkerSkips, WorkerLoop, TypeOK, DataTypeOK
<1>7. ASSUME WorkerWakes PROVE DataTypeOK'
  BY <1>7 DEF WorkerWakes, WorkerLoop, TypeOK, DataTypeOK
<1>5. ASSUME WorkerFindsNoSubscriber PROVE TypeOK'
  <2>1. /\ connected' \in BOOLEAN /\ HistOK' /\ TxTypeOK'
        /\ ready' \in Seq(Callback)
    BY <1>5, MarkDisconnectedType DEF WorkerFindsNoSubscriber
  <2>2. FlagsTypeOK'
    BY <1>5, <2>1 DEF WorkerFindsNoSubscriber, TypeOK, FlagsTypeOK, LifecycleTypeOK, HistOK
  <2>3. DataTypeOK'
    BY <1>5, <2>1 DEF WorkerFindsNoSubscriber, TxTypeOK, TypeOK, DataTypeOK
  <2> QED BY <2>2, <2>3 DEF TypeOK
<1> QED BY <1>1, <1>2, <1>3, <1>4, <1>5, <1>7 DEF Worker, WorkerTakes, TypeOK

LEMMA DetectorType == ASSUME TypeOK, Detector PROVE TypeOK'
<1>1. ASSUME DetectorPolls PROVE TypeOK'
  <2>1. FlagsTypeOK'
    BY <1>1, GattAssumption DEF DetectorPolls, Sample, TypeOK, FlagsTypeOK, LifecycleTypeOK
  <2>2. DataTypeOK'
    BY <1>1 DEF DetectorPolls, TypeOK, DataTypeOK
  <2> QED BY <2>1, <2>2 DEF TypeOK
<1>2. ASSUME DetectorReads PROVE TypeOK'
  <2>1. connected' \in BOOLEAN /\ HistOK'
    <3>1. MarkDisconnected \/ UNCHANGED <<connected, txVars, ready>>
      BY <1>2 DEF DetectorReads
    <3>2. CASE UNCHANGED <<connected, txVars, ready>>
      BY <3>2 DEF TypeOK, FlagsTypeOK, HistOK
    <3> QED BY <3>1, <3>2, MarkDisconnectedType
  <2>2. TxTypeOK' /\ ready' \in Seq(Callback)
    <3>1. MarkDisconnected \/ UNCHANGED <<connected, txVars, ready>>
      BY <1>2 DEF DetectorReads
    <3> QED BY <3>1, MarkDisconnectedType DEF TypeOK, DataTypeOK, TxTypeOK
  <2>3. FlagsTypeOK'
    BY <1>2, <2>1 DEF DetectorReads, TypeOK, FlagsTypeOK, LifecycleTypeOK, HistOK
  <2>4. DataTypeOK'
    BY <1>2, <2>2 DEF DetectorReads, TxTypeOK, TypeOK, DataTypeOK
  <2> QED BY <2>3, <2>4 DEF TypeOK
<1> QED BY <1>1, <1>2 DEF Detector

LEMMA StopType == ASSUME TypeOK, Stop \/ StopSteps PROVE TypeOK'
<1>0. StopMark \in Chunk
  BY DEF StopMark, Chunk
<1>1. FlagsTypeOK'
  <2>1. ASSUME Stop PROVE FlagsTypeOK'
    BY <2>1 DEF Stop, OnBleClientDisconnected, TypeOK, FlagsTypeOK, LifecycleTypeOK
  <2>2. ASSUME StopSteps PROVE FlagsTypeOK'
    BY <2>2 DEF StopSteps, StopPuts, StopCancels, StopUnregisters,
                TypeOK, FlagsTypeOK, LifecycleTypeOK
  <2> QED BY <2>1, <2>2
<1>2. ASSUME Stop PROVE DataTypeOK'
  <2>1. txQueue' \in Seq(Chunk) /\ Len(txQueue') <= QCap
    BY <1>0, <1>2, GattAssumption DEF Stop, TypeOK, DataTypeOK
  <2>2. stopPc' \in {"put", "cancel"}
    BY <1>2 DEF Stop
  <2> QED BY <1>2, <2>1, <2>2 DEF Stop, TypeOK, DataTypeOK
<1>3. ASSUME StopPuts PROVE DataTypeOK'
  BY <1>0, <1>3, GattAssumption DEF StopPuts, TypeOK, DataTypeOK
<1>4. ASSUME StopCancels \/ StopUnregisters PROVE DataTypeOK'
  BY <1>4 DEF StopCancels, StopUnregisters, TypeOK, DataTypeOK
<1> QED BY <1>1, <1>2, <1>3, <1>4 DEF StopSteps, TypeOK

(* Every state of the server is well typed; in particular the TX queue     *)
(* never holds more than QCap entries.                                     *)
THEOREM TypeCorrect == Spec => []TypeOK
<1>1. Init => TypeOK
  <2>1. Init => FlagsTypeOK
    BY DEF Init, LifecycleInit, FlagsTypeOK, LifecycleTypeOK
  <2>2. Init => DataTypeOK
    BY GattAssumption DEF Init, DataTypeOK, FrameStart, Chunk
  <2> QED BY <2>1, <2>2 DEF TypeOK
<1>2. TypeOK /\ [Next]_vars => TypeOK'
  <2> SUFFICES ASSUME TypeOK, [Next]_vars PROVE TypeOK'
    OBVIOUS
  <2>1. CASE UNCHANGED vars
    <3>1. FlagsTypeOK'
      BY <2>1 DEF vars, TypeOK, FlagsTypeOK, LifecycleTypeOK
    <3>2. DataTypeOK'
      BY <2>1 DEF vars, TypeOK, DataTypeOK
    <3> QED BY <3>1, <3>2 DEF TypeOK
  <2> QED BY <2>1, SetupType, PhoneType, ReadyType, HandlerType, WorkerType,
             DetectorType, StopType DEF Next
<1> QED BY <1>1, <1>2, PTL DEF Spec

-----------------------------------------------------------------------------
(* The dispatcher's view.                                                  *)

(* A callback that is not about the lifecycle changes nothing at the end.  *)
LEMMA SettlesAppendOther ==
    ASSUME NEW r \in Seq(Callback), NEW b \in BOOLEAN, NEW c \in BOOLEAN,
           NEW x \in Callback, ~IsLifecycle(x), Settles(r, b, c)
    PROVE  Settles(Append(r, x), b, c)
BY DEF Settles

(* A lifecycle callback scheduled last decides.                            *)
LEMMA SettlesAppendLifecycle ==
    ASSUME NEW r \in Seq(Callback), NEW b \in BOOLEAN,
           NEW x \in Callback, IsLifecycle(x)
    PROVE  Settles(Append(r, x), b, x.op = "connect")
BY DEF Settles

(* Running a callback: which ones are left, and where they were.           *)
LEMMA TailIndices ==
    ASSUME NEW r \in Seq(Callback), r # <<>>
    PROVE  /\ Len(r) \in Nat \ {0}
           /\ Len(Tail(r)) = Len(r) - 1
           /\ \A i \in 1..Len(Tail(r)) : i + 1 \in 1..Len(r) /\ Tail(r)[i] = r[i + 1]
           /\ \A i \in 1..Len(r) : i # 1 => i - 1 \in 1..Len(Tail(r))
                                         /\ Tail(r)[i - 1] = r[i]
           /\ Head(r) = r[1]
<1>1. Len(r) \in Nat \ {0}
  BY EmptySeq
<1> QED BY <1>1

(* Running a callback that is not about the lifecycle.                     *)
LEMMA SettlesTailOther ==
    ASSUME NEW r \in Seq(Callback), r # <<>>, NEW b \in BOOLEAN, NEW c \in BOOLEAN,
           ~IsLifecycle(Head(r)), Settles(r, b, c)
    PROVE  Settles(Tail(r), b, c)
<1> DEFINE t == Tail(r)
<1>1. ASSUME \A i \in 1..Len(t) : ~IsLifecycle(t[i]) PROVE b <=> c
  <2>1. \A i \in 1..Len(r) : ~IsLifecycle(r[i])
    BY <1>1, TailIndices
  <2> QED BY <2>1 DEF Settles
<1>2. ASSUME NEW i \in 1..Len(t), IsLifecycle(t[i]),
             \A j \in 1..Len(t) : IsLifecycle(t[j]) => j <= i
      PROVE  (t[i].op = "connect") <=> c
  <2>1. i + 1 \in 1..Len(r) /\ t[i] = r[i + 1]
    BY TailIndices
  <2>2. ASSUME NEW j \in 1..Len(r), IsLifecycle(r[j]) PROVE j <= i + 1
    <3>1. j # 1 => j - 1 \in 1..Len(t) /\ t[j - 1] = r[j]
      BY TailIndices
    <3>2. j # 1 => j - 1 <= i
      BY <1>2, <2>2, <3>1
    <3> QED BY <3>2
  <2> QED BY <1>2, <2>1, <2>2 DEF Settles
<1> QED BY <1>1, <1>2 DEF Settles

(* Running a lifecycle callback, after which the dispatcher believes it.   *)
LEMMA SettlesTailLifecycle ==
    ASSUME NEW r \in Seq(Callback), r # <<>>, NEW b \in BOOLEAN, NEW c \in BOOLEAN,
           IsLifecycle(Head(r)), Settles(r, b, c)
    PROVE  Settles(Tail(r), Head(r).op = "connect", c)
<1> DEFINE t == Tail(r)
<1>1. ASSUME \A i \in 1..Len(t) : ~IsLifecycle(t[i])
      PROVE  (Head(r).op = "connect") <=> c
  <2>1. \A j \in 1..Len(r) : IsLifecycle(r[j]) => j <= 1
    BY <1>1, TailIndices
  <2>2. 1 \in 1..Len(r) /\ Head(r) = r[1]
    BY TailIndices
  <2> QED BY <2>1, <2>2 DEF Settles
<1>2. ASSUME NEW i \in 1..Len(t), IsLifecycle(t[i]),
             \A j \in 1..Len(t) : IsLifecycle(t[j]) => j <= i
      PROVE  (t[i].op = "connect") <=> c
  <2>1. i + 1 \in 1..Len(r) /\ t[i] = r[i + 1]
    BY TailIndices
  <2>2. ASSUME NEW j \in 1..Len(r), IsLifecycle(r[j]) PROVE j <= i + 1
    <3>1. j # 1 => j - 1 \in 1..Len(t) /\ t[j - 1] = r[j]
      BY TailIndices
    <3>2. j # 1 => j - 1 <= i
      BY <1>2, <2>2, <3>1
    <3> QED BY <3>2
  <2> QED BY <1>2, <2>1, <2>2 DEF Settles
<1> QED BY <1>1, <1>2 DEF Settles

(* What the steps that schedule no callback and run none have in common.   *)
ViewUntouched ==
    /\ UNCHANGED <<bleClientConnected, stateUnsub, connected, ready>>
    /\ stopPc' = "idle" => stopPc = "idle"

LEMMA UntouchedView == ASSUME ViewAgrees, ViewUntouched PROVE ViewAgrees'
BY DEF ViewAgrees, ViewUntouched

LEMMA DisconnectView ==
    ASSUME TypeOK, ViewAgrees, MarkDisconnected,
           UNCHANGED <<bleClientConnected, stateUnsub>>
    PROVE  ViewAgrees'
<1> DEFINE x == Lifecycle("disconnect")
<1>1. x \in Callback /\ IsLifecycle(x) /\ x.op # "connect"
  BY DEF Lifecycle, Callback, ReadyOps, IsLifecycle
<1>2. ready \in Seq(Callback) /\ bleClientConnected \in BOOLEAN
  BY DEF TypeOK, DataTypeOK, FlagsTypeOK, LifecycleTypeOK
<1>3. Settles(Append(ready, x), bleClientConnected, x.op = "connect")
  BY <1>1, <1>2, SettlesAppendLifecycle
<1>4. Settles(Append(ready, x), bleClientConnected, FALSE)
  BY <1>1, <1>3 DEF Settles
<1> QED BY <1>4 DEF MarkDisconnected, ViewAgrees

LEMMA WriteView ==
    ASSUME TypeOK, ViewAgrees, NEW kind \in Requests, WriteFinal(kind)
    PROVE  ViewAgrees'
<1> DEFINE x == Lifecycle("connect")
           f == Frame(IF "foreign" \in rxBuf THEN "torn" ELSE kind)
<1>1. x \in Callback /\ IsLifecycle(x) /\ x.op = "connect"
  BY DEF Lifecycle, Callback, ReadyOps, IsLifecycle
<1>2. f \in Callback /\ ~IsLifecycle(f)
  BY GattAssumption DEF Frame, Callback, ReadyOps, RequestKinds, IsLifecycle
<1>3. ready \in Seq(Callback) /\ bleClientConnected \in BOOLEAN
  BY DEF TypeOK, DataTypeOK, FlagsTypeOK, LifecycleTypeOK
<1>4. ready' = IF connected THEN Append(ready, f) ELSE Append(Append(ready, x), f)
  BY DEF WriteFinal
<1>5. connected' = TRUE /\ UNCHANGED <<bleClientConnected, stateUnsub, stopPc>>
  BY DEF WriteFinal
<1> HIDE DEF x, f
<1>6. CASE connected
  <2>1. stopPc = "idle" => Settles(ready, bleClientConnected, TRUE)
    BY <1>6 DEF ViewAgrees, Settles
  <2>2. stopPc = "idle" => Settles(Append(ready, f), bleClientConnected, TRUE)
    BY <1>2, <1>3, <2>1, SettlesAppendOther
  <2> QED BY <1>4, <1>5, <1>6, <2>2 DEF ViewAgrees
<1>7. CASE ~connected
  <2>1. Settles(Append(ready, x), bleClientConnected, x.op = "connect")
    BY <1>1, <1>3, SettlesAppendLifecycle
  <2>2. Settles(Append(ready, x), bleClientConnected, TRUE)
    BY <1>1, <2>1 DEF Settles
  <2>3. Append(ready, x) \in Seq(Callback)
    BY <1>1, <1>3
  <2>4. Settles(Append(Append(ready, x), f), bleClientConnected, TRUE)
    BY <1>2, <1>3, <2>2, <2>3, SettlesAppendOther
  <2> QED BY <1>4, <1>5, <1>7, <2>4 DEF ViewAgrees
<1> QED BY <1>6, <1>7

LEMMA ReadyView == ASSUME TypeOK, ViewAgrees, RunReady PROVE ViewAgrees'
<1>0. /\ ready # <<>> /\ Head(ready) \in Callback /\ Tail(ready) \in Seq(Callback)
      /\ ready \in Seq(Callback)
      /\ bleClientConnected \in BOOLEAN /\ connected \in BOOLEAN
      /\ stopPc' = stopPc /\ connected' = connected
  <2>1. ready # <<>> /\ stopPc' = stopPc /\ connected' = connected
    BY DEF RunReady, RunOnConnect, RunOnDisconnect, RunOnFrame, RunHandle, RunPush
  <2>2. ready \in Seq(Callback)
    BY DEF TypeOK, DataTypeOK
  <2>3. bleClientConnected \in BOOLEAN /\ connected \in BOOLEAN
    BY DEF TypeOK, FlagsTypeOK, LifecycleTypeOK
  <2> QED BY <2>1, <2>2, <2>3
<1>1. ASSUME RunOnConnect PROVE ViewAgrees'
  <2>1. IsLifecycle(Head(ready)) /\ Head(ready).op = "connect"
    BY <1>1 DEF RunOnConnect, IsLifecycle
  <2>2. bleClientConnected' = TRUE /\ stateUnsub' = TRUE
    BY <1>1 DEF RunOnConnect, OnBleClientConnected, SubscribeStateChanges, ViewAgrees,
                TypeOK, FlagsTypeOK, LifecycleTypeOK
  <2>3. stopPc = "idle" => Settles(Tail(ready), Head(ready).op = "connect", connected)
    BY <1>0, <2>1, SettlesTailLifecycle DEF ViewAgrees
  <2>4. stopPc = "idle" => Settles(Tail(ready), TRUE, connected)
    BY <2>1, <2>3 DEF Settles
  <2> QED BY <1>0, <1>1, <2>2, <2>4 DEF RunOnConnect, ViewAgrees
<1>2. ASSUME RunOnDisconnect PROVE ViewAgrees'
  <2>1. IsLifecycle(Head(ready)) /\ Head(ready).op # "connect"
    BY <1>2 DEF RunOnDisconnect, IsLifecycle
  <2>2. bleClientConnected' = FALSE /\ stateUnsub' = FALSE
    BY <1>2 DEF RunOnDisconnect, OnBleClientDisconnected, ViewAgrees,
                TypeOK, FlagsTypeOK, LifecycleTypeOK
  <2>3. stopPc = "idle" => Settles(Tail(ready), Head(ready).op = "connect", connected)
    BY <1>0, <2>1, SettlesTailLifecycle DEF ViewAgrees
  <2>4. stopPc = "idle" => Settles(Tail(ready), FALSE, connected)
    BY <2>1, <2>3 DEF Settles
  <2> QED BY <1>0, <1>2, <2>2, <2>4 DEF RunOnDisconnect, ViewAgrees
<1>3. ASSUME ~IsLifecycle(Head(ready)), UNCHANGED lifecycleVars,
             ready' = Tail(ready) \/ RunOnFrame
      PROVE  ViewAgrees'
  <2>1. stopPc = "idle" => Settles(Tail(ready), bleClientConnected, connected)
    BY <1>0, <1>3, SettlesTailOther DEF ViewAgrees
  <2>2. CASE ready' = Tail(ready)
    BY <1>0, <1>3, <2>1, <2>2 DEF ViewAgrees
  <2>3. CASE RunOnFrame
    <3> DEFINE h == [Head(ready) EXCEPT !.op = "handle"]
    <3>1. h \in Callback /\ ~IsLifecycle(h)
      BY <1>0 DEF Callback, ReadyOps, IsLifecycle
    <3>2. ready' = Append(Tail(ready), h)
      BY <2>3 DEF RunOnFrame
    <3> HIDE DEF h
    <3>3. stopPc = "idle" => Settles(Append(Tail(ready), h), bleClientConnected, connected)
      BY <1>0, <2>1, <3>1, SettlesAppendOther
    <3> QED BY <1>0, <1>3, <3>2, <3>3 DEF ViewAgrees
  <2> QED BY <1>3, <2>2, <2>3
<1>4. ASSUME RunOnFrame \/ RunHandle \/ RunPush PROVE ViewAgrees'
  BY <1>3, <1>4 DEF RunOnFrame, RunHandle, RunPush, IsLifecycle
<1> QED BY <1>1, <1>2, <1>4 DEF RunReady

(* Whatever interleaving of writes, disconnect reports and callbacks: the  *)
(* dispatcher ends up believing what the GATT server knows, until stop().  *)
THEOREM ViewsAgree == Spec => []ViewAgrees
<1>1. Init => ViewAgrees
  BY DEF Init, LifecycleInit, ViewAgrees, Settles
<1>2. TypeOK /\ ViewAgrees /\ [Next]_vars => ViewAgrees'
  <2> SUFFICES ASSUME TypeOK, ViewAgrees, [Next]_vars PROVE ViewAgrees'
    OBVIOUS
  <2>1. CASE Setup
    BY <2>1, UntouchedView DEF ViewUntouched, Setup, Start, CreateServer,
       Advertise, SetupFails, AdapterConfigured
  <2>2. CASE Phone
    <3>1. CASE ClientLink \/ ClientSubscribe \/ ClientDrop \/ WriteContinues
      BY <3>1, UntouchedView DEF ViewUntouched, ClientLink, ClientSubscribe,
         ClientDrop, WriteContinues
    <3> QED BY <2>2, <3>1, WriteView DEF Phone, ClientWritesFrame
  <2>3. CASE \E stale \in BOOLEAN : CallDone(stale)
    BY <2>3, UntouchedView DEF ViewUntouched, CallDone
  <2>4. CASE StateChanged
    <3>1. Push \in Callback /\ ~IsLifecycle(Push)
      BY DEF Push, Callback, ReadyOps, IsLifecycle
    <3>2. /\ ready \in Seq(Callback)
          /\ bleClientConnected \in BOOLEAN /\ connected \in BOOLEAN
      BY DEF TypeOK, DataTypeOK, FlagsTypeOK, LifecycleTypeOK
    <3>3. stopPc = "idle" => Settles(Append(ready, Push), bleClientConnected, connected)
      BY <3>1, <3>2, SettlesAppendOther DEF ViewAgrees
    <3> QED BY <2>4, <3>3 DEF StateChanged, ViewAgrees
  <2>5. CASE Worker
    <3>1. CASE WorkerFindsNoSubscriber
      BY <3>1, DisconnectView DEF WorkerFindsNoSubscriber
    <3>2. CASE WorkerStops \/ WorkerSends \/ WorkerSkips \/ WorkerWakes
      BY <3>2, UntouchedView DEF ViewUntouched, WorkerStops, WorkerSends,
         WorkerSkips, WorkerWakes
    <3> QED BY <2>5, <3>1, <3>2 DEF Worker, WorkerTakes
  <2>6. CASE Detector
    <3>1. CASE DetectorPolls
      BY <3>1, UntouchedView DEF ViewUntouched, DetectorPolls
    <3>2. CASE DetectorReads /\ MarkDisconnected
      BY <3>2, DisconnectView DEF DetectorReads
    <3>3. CASE DetectorReads /\ UNCHANGED <<connected, ready>>
      BY <3>3, UntouchedView DEF ViewUntouched, DetectorReads
    <3> QED BY <2>6, <3>1, <3>2, <3>3 DEF Detector, DetectorReads
  <2>7. CASE Stop
    BY <2>7 DEF Stop, OnBleClientDisconnected, ViewAgrees
  <2>8. CASE StopSteps
    BY <2>8, UntouchedView DEF ViewUntouched, StopSteps, StopPuts, StopCancels,
       StopUnregisters
  <2>9. CASE UNCHANGED vars
    BY <2>9, UntouchedView DEF ViewUntouched, vars
  <2> QED BY <2>1, <2>2, <2>3, <2>4, <2>5, <2>6, <2>7, <2>8, <2>9, ReadyView DEF Next
<1> QED BY <1>1, <1>2, TypeCorrect, PTL DEF Spec

-----------------------------------------------------------------------------
(* What waits in the TX queue.                                             *)

(* Every entry is the mark that stops the worker.                          *)
OnlyMarks(q) == \A i \in 1..Len(q) : q[i] = StopMark

LEMMA OnlyMarksKept ==
    ASSUME NEW q \in Seq(Chunk), OnlyMarks(q)
    PROVE  /\ OnlyMarks(Append(q, StopMark))
           /\ q # <<>> => OnlyMarks(Tail(q))
BY DEF OnlyMarks, StopMark, Chunk

(* With no client the queue is untouched by every handler that was still   *)
(* running for one, and by whatever runs next.                             *)
THEOREM QuietQueue == Spec => []QuietWhenGone
<1>1. Init => QuietWhenGone
  BY DEF Init, QuietWhenGone
<1>2. TypeOK /\ QuietWhenGone /\ [Next]_vars => QuietWhenGone'
  <2> SUFFICES ASSUME TypeOK, QuietWhenGone, [Next]_vars, ~connected'
               PROVE  OnlyMarks(txQueue')
    BY DEF QuietWhenGone, OnlyMarks
  <2>0. txQueue \in Seq(Chunk) /\ (~connected => OnlyMarks(txQueue))
    BY DEF TypeOK, DataTypeOK, QuietWhenGone, OnlyMarks
  <2>1. ASSUME MarkDisconnected PROVE OnlyMarks(txQueue')
    BY <2>1 DEF MarkDisconnected, OnlyMarks
  <2>2. ASSUME UNCHANGED <<connected, txQueue>> PROVE OnlyMarks(txQueue')
    BY <2>0, <2>2
  <2>3. ASSUME UNCHANGED connected,
               \/ txQueue' = Append(txQueue, StopMark)
               \/ txQueue # <<>> /\ txQueue' = Tail(txQueue)
        PROVE  OnlyMarks(txQueue')
    BY <2>0, <2>3, OnlyMarksKept
  <2>4. ASSUME UNCHANGED connected, NEW n \in Nat, NEW stale \in BOOLEAN,
               SendFrame(n, stale) \/ SendAckAndAnswer(n) \/ SendNothing
        PROVE  OnlyMarks(txQueue')
    <3>1. ~connected
      BY <2>4
    <3>2. txQueue' = txQueue
      BY <2>4, <3>1 DEF SendFrame, SendAckAndAnswer, SendNothing, CanSend
    <3> QED BY <2>0, <3>1, <3>2
  <2>5. CASE Setup \/ UNCHANGED vars
    BY <2>2, <2>5 DEF Setup, Start, CreateServer, Advertise, SetupFails,
                      AdapterConfigured, vars
  <2>6. CASE Phone
    BY <2>2, <2>6 DEF Phone, ClientLink, ClientSubscribe, ClientDrop,
                      WriteContinues, ClientWritesFrame, WriteFinal
  <2>7. CASE RunReady
    <3>1. CASE RunHandle
      <4>1. UNCHANGED connected
        BY <3>1 DEF RunHandle
      <4>2. SendNothing \/ SendFrame(1, FALSE) \/ SendAckAndAnswer(AnsChunks)
        BY <3>1 DEF RunHandle
      <4> QED BY <2>4, <4>1, <4>2, GattAssumption
    <3>2. CASE RunPush
      BY <2>4, <3>2, GattAssumption DEF RunPush
    <3>3. CASE RunOnConnect \/ RunOnDisconnect \/ RunOnFrame
      BY <2>2, <3>3 DEF RunOnConnect, RunOnDisconnect, RunOnFrame
    <3> QED BY <2>7, <3>1, <3>2, <3>3 DEF RunReady
  <2>8. ASSUME NEW stale \in BOOLEAN, CallDone(stale) PROVE OnlyMarks(txQueue')
    BY <2>4, <2>8 DEF CallDone
  <2>9. CASE StateChanged \/ DetectorPolls \/ StopCancels \/ StopUnregisters \/ WorkerWakes
    BY <2>2, <2>9 DEF StateChanged, DetectorPolls, StopCancels, StopUnregisters, WorkerWakes
  <2>10. CASE WorkerTakes
    BY <2>1, <2>3, <2>10 DEF WorkerTakes, WorkerStops, WorkerSends,
       WorkerFindsNoSubscriber, WorkerSkips, WorkerHasChunk, WorkerGets
  <2>11. CASE DetectorReads
    BY <2>1, <2>2, <2>11 DEF DetectorReads
  <2>12. CASE Stop \/ StopPuts
    BY <2>2, <2>3, <2>12 DEF Stop, StopPuts
  <2> QED BY <2>5, <2>6, <2>7, <2>8, <2>9, <2>10, <2>11, <2>12
          DEF Next, Worker, Detector, StopSteps
<1> QED BY <1>1, <1>2, TypeCorrect, PTL DEF Spec

-----------------------------------------------------------------------------
(* Framing.                                                                *)

LEMMA FramedEmpty == Framed(<<>>, FrameStart)
BY DEF Framed, FrameStart

(* A whole frame queued behind whole frames.                               *)
LEMMA FramedConcat ==
    ASSUME NEW q \in Seq(Chunk), NEW l \in Chunk, Framed(q, l),
           NEW n \in Nat \ {0}, NEW stale \in BOOLEAN
    PROVE  Framed(q \o ChunksOf(n, n, stale), l)
<1> DEFINE c == ChunksOf(n, n, stale)
           r == q \o c
<1>1. c \in Seq(Chunk) /\ Len(c) = n
  BY ChunksOfSeq
<1>2. \A i \in 1..n : c[i].idx = i /\ c[i].of = n
  BY DEF ChunksOf
<1> HIDE DEF c
<1>3. /\ Len(r) = Len(q) + n /\ r # <<>> /\ Len(q) \in Nat
      /\ \A i \in 1..Len(q) : r[i] = q[i]
      /\ \A i \in (Len(q) + 1)..(Len(q) + n) : r[i] = c[i - Len(q)]
  BY <1>1
<1>4. r[Len(r)].idx = r[Len(r)].of
  BY <1>2, <1>3
<1>5. ASSUME NEW i \in 1..Len(r)
      PROVE  Follows(IF i = 1 THEN l ELSE r[i - 1], r[i])
  <2>1. CASE i <= Len(q)
    <3>1. r[i] = q[i] /\ (i # 1 => r[i - 1] = q[i - 1])
      BY <1>3, <2>1
    <3> QED BY <1>3, <2>1, <3>1 DEF Framed
  <2>2. CASE i = Len(q) + 1
    <3>1. r[i].idx = 1 /\ r[i].of = n
      BY <1>2, <1>3, <2>2
    <3>2. CASE q = <<>>
      BY <1>3, <2>2, <3>1, <3>2 DEF Framed, Follows
    <3>3. CASE q # <<>>
      <4>1. Len(q) \in 1..Len(q) /\ i # 1 /\ i - 1 = Len(q)
        BY <1>3, <2>2, <3>3
      <4>2. r[i - 1] = q[Len(q)]
        BY <1>3, <4>1
      <4> QED BY <3>1, <3>3, <4>1, <4>2 DEF Framed, Follows
    <3> QED BY <3>2, <3>3
  <2>3. CASE i > Len(q) + 1
    <3>1. /\ r[i].idx = i - Len(q) /\ r[i].of = n
          /\ r[i - 1].idx = i - 1 - Len(q) /\ r[i - 1].of = n
      BY <1>2, <1>3, <2>3
    <3>2. i # 1 /\ i - 1 - Len(q) # n
      BY <1>3, <2>3
    <3> QED BY <1>3, <3>1, <3>2 DEF Follows
  <2> QED BY <1>3, <2>1, <2>2, <2>3
<1>6. r # <<>>
  BY <1>3
<1> HIDE DEF r
<1>7. Framed(r, l)
  BY <1>4, <1>5, <1>6 DEF Framed
<1> QED BY <1>7 DEF r, c

(* The worker takes the first chunk.                                       *)
LEMMA FramedTail ==
    ASSUME NEW q \in Seq(Chunk), NEW l \in Chunk, Framed(q, l), q # <<>>
    PROVE  Framed(Tail(q), IF Head(q).idx = Head(q).of THEN FrameStart
                           ELSE [Head(q) EXCEPT !.stale = FALSE])
<1> DEFINE t == Tail(q)
           h == IF Head(q).idx = Head(q).of THEN FrameStart
                ELSE [Head(q) EXCEPT !.stale = FALSE]
<1>1. /\ Len(q) \in Nat \ {0} /\ Head(q) = q[1] /\ Len(t) = Len(q) - 1
      /\ \A i \in 1..Len(t) : i + 1 \in 1..Len(q) /\ t[i] = q[i + 1]
  <2>1. Len(q) \in Nat \ {0}
    BY EmptySeq
  <2> QED BY <2>1
<1>2. q[1] \in Chunk
  BY <1>1
<1>3. \A c : Follows(q[1], c) <=> Follows(h, c)
  BY <1>1, <1>2 DEF Follows, FrameStart, Chunk
<1>4. (h.idx = h.of) <=> (q[1].idx = q[1].of)
  BY <1>1, <1>2 DEF FrameStart, Chunk
<1> HIDE DEF h
<1>5. ASSUME NEW i \in 1..Len(t)
      PROVE  Follows(IF i = 1 THEN h ELSE t[i - 1], t[i])
  <2>1. Follows(q[i], q[i + 1]) /\ t[i] = q[i + 1]
    BY <1>1 DEF Framed
  <2>2. i # 1 => t[i - 1] = q[i]
    BY <1>1
  <2> QED BY <1>3, <2>1, <2>2
<1>6. t = <<>> => h.idx = h.of
  <2>1. q[Len(q)].idx = q[Len(q)].of
    BY DEF Framed
  <2>2. t = <<>> => Len(q) = 1
    <3>1. Len(<<>>) = 0
      OBVIOUS
    <3>2. t = <<>> => Len(t) = 0
      BY <3>1, Zenon
    <3> QED BY <1>1, <3>2
  <2> QED BY <1>4, <2>1, <2>2
<1>7. t # <<>> => t[Len(t)].idx = t[Len(t)].of
  <2>1. t \in Seq(Chunk)
    BY <1>1
  <2>2. t # <<>> => Len(t) \in 1..Len(t) /\ t[Len(t)] = q[Len(q)]
    BY <1>1, <2>1, EmptySeq
  <2> QED BY <2>2 DEF Framed
<1>8. Framed(t, h)
  BY <1>5, <1>6, <1>7 DEF Framed
<1> QED BY <1>8 DEF h

(* Until stop() is called, a client can only count as connected while the  *)
(* server is registered.                                                   *)
ServerInv ==
    /\ runPc \in {"off", "setup"} => server = "none"
    /\ connected /\ stopPc # "stopped" => server = "serving"

LEMMA ServerStep ==
    ASSUME TypeOK, ServerInv, [Next]_vars PROVE ServerInv'
<1> USE DEF ServerInv
<1>1. CASE Setup
  BY <1>1 DEF Setup, Start, CreateServer, Advertise, SetupFails, AdapterConfigured,
              TypeOK, DataTypeOK
<1>3. ASSUME UNCHANGED <<runPc, server, stopPc>>, UNCHANGED connected \/ MarkDisconnected
      PROVE  ServerInv'
  BY <1>3 DEF MarkDisconnected
<1>2. CASE Phone
  <2>1. CASE ClientLink \/ ClientSubscribe \/ ClientDrop \/ WriteContinues
    BY <1>3, <2>1 DEF ClientLink, ClientSubscribe, ClientDrop, WriteContinues
  <2>2. ASSUME NEW kind \in Requests, WriteFinal(kind) PROVE ServerInv'
    BY <2>2 DEF WriteFinal, CanWrite
  <2> QED BY <1>2, <2>1, <2>2 DEF Phone, ClientWritesFrame
<1>4. CASE RunReady
  BY <1>3, <1>4 DEF RunReady, RunOnConnect, RunOnDisconnect, RunOnFrame, RunHandle, RunPush
<1>5. CASE StateChanged \/ UNCHANGED vars \/ \E stale \in BOOLEAN : CallDone(stale)
  BY <1>3, <1>5 DEF StateChanged, CallDone, vars
<1>6. CASE Worker
  BY <1>3, <1>6 DEF Worker, WorkerTakes, WorkerStops, WorkerSends,
                    WorkerFindsNoSubscriber, WorkerSkips, WorkerWakes
<1>7. CASE Detector
  BY <1>3, <1>7 DEF Detector, DetectorPolls, DetectorReads
<1>8. CASE Stop \/ StopSteps
  BY <1>8 DEF Stop, StopSteps, StopPuts, StopCancels, StopUnregisters
<1> QED BY <1>1, <1>2, <1>4, <1>5, <1>6, <1>7, <1>8 DEF Next

(* Nothing has torn the stream of the present link.                        *)
Whole == ~lost /\ ~cut

(* Until stop() puts it there, no stop mark is queued.                     *)
NoMark ==
    stopPc \in {"idle", "put"} =>
        \A i \in 1..Len(txQueue) : txQueue[i].idx # 0

(* Queueing a frame, whole or in part, queues no stop mark.                *)
LEMMA EnqueueNoMark ==
    ASSUME NEW q \in Seq(Chunk), Len(q) <= QCap, NEW n \in Nat,
           NEW stale \in BOOLEAN, \A i \in 1..Len(q) : q[i].idx # 0
    PROVE  LET r == Enqueue(q, n, stale)
           IN  \A i \in 1..Len(r) : r[i].idx # 0
<1> DEFINE room == QCap - Len(q)
           fit  == IF n <= room THEN n ELSE room
           c    == ChunksOf(n, fit, stale)
<1>1. fit \in Nat /\ Len(q) \in Nat
  BY GattAssumption
<1>2. Enqueue(q, n, stale) = q \o c
  BY DEF Enqueue, ChunksOf
<1> HIDE DEF fit
<1>3. c \in Seq(Chunk) /\ Len(c) = fit
  BY <1>1, ChunksOfSeq
<1>4. \A i \in 1..fit : c[i].idx # 0
  BY <1>1 DEF ChunksOf
<1> HIDE DEF c
<1>5. \A i \in 1..Len(q \o c) : (q \o c)[i].idx # 0
  <2> SUFFICES ASSUME NEW i \in 1..Len(q \o c) PROVE (q \o c)[i].idx # 0
    OBVIOUS
  <2>1. CASE i <= Len(q)
    BY <1>1, <1>3, <2>1
  <2>2. CASE i > Len(q)
    <3>1. i - Len(q) \in 1..fit /\ (q \o c)[i] = c[i - Len(q)]
      BY <1>1, <1>3, <2>2
    <3> QED BY <1>4, <3>1
  <2> QED BY <1>1, <2>1, <2>2
<1> QED BY <1>2, <1>5

(* Only the steps of stop() put the mark, and they move on when they do.   *)
LEMMA MarkStep == ASSUME TypeOK, NoMark, [Next]_vars PROVE NoMark'
<1> DEFINE Unmarked(q) == \A i \in 1..Len(q) : q[i].idx # 0
<1> SUFFICES ASSUME stopPc' \in {"idle", "put"} PROVE Unmarked(txQueue')
  BY DEF NoMark
<1>0. txQueue \in Seq(Chunk) /\ Len(txQueue) <= QCap
  BY DEF TypeOK, DataTypeOK
<1>1. stopPc \in {"idle", "put"}
  <2>1. UNCHANGED stopPc \/ Stop \/ StopSteps
    BY DEF Next, vars, Setup, Start, CreateServer, Advertise, SetupFails,
           AdapterConfigured, Phone, ClientLink, ClientSubscribe, ClientDrop,
           WriteContinues, ClientWritesFrame, WriteFinal, RunReady, RunOnConnect,
           RunOnDisconnect, RunOnFrame, RunHandle, RunPush, CallDone, StateChanged,
           Worker, WorkerTakes, WorkerStops, WorkerSends, WorkerFindsNoSubscriber,
           WorkerSkips, WorkerWakes, Detector, DetectorPolls, DetectorReads
  <2> QED BY <2>1 DEF Stop, StopSteps, StopPuts, StopCancels, StopUnregisters
<1>2. Unmarked(txQueue)
  BY <1>1 DEF NoMark
<1>3. ASSUME UNCHANGED txQueue PROVE Unmarked(txQueue')
  BY <1>2, <1>3
<1>4. ASSUME txQueue # <<>>, txQueue' = Tail(txQueue) PROVE Unmarked(txQueue')
  BY <1>0, <1>2, <1>4
<1>5. ASSUME MarkDisconnected PROVE Unmarked(txQueue')
  BY <1>5 DEF MarkDisconnected
<1>6. ASSUME NEW stale \in BOOLEAN, NEW n \in Nat,
             SendNothing \/ SendFrame(n, stale) \/ SendAckAndAnswer(n)
      PROVE  Unmarked(txQueue')
  <2> DEFINE acked == Enqueue(txQueue, 1, FALSE)
  <2>1. acked \in Seq(Chunk) /\ Len(acked) <= QCap /\ Unmarked(acked)
    BY <1>0, <1>2, EnqueueType, EnqueueNoMark
  <2>2. \/ txQueue' = txQueue
        \/ txQueue' = Enqueue(txQueue, n, stale)
        \/ txQueue' = Enqueue(acked, n, FALSE)
    BY <1>6 DEF SendNothing, SendFrame, SendAckAndAnswer
  <2> HIDE DEF acked
  <2>3. Unmarked(Enqueue(txQueue, n, stale)) /\ Unmarked(Enqueue(acked, n, FALSE))
    BY <1>0, <1>2, <2>1, EnqueueNoMark
  <2> QED BY <1>2, <2>2, <2>3
<1> HIDE DEF Unmarked
<1>7. CASE Setup \/ Phone \/ StateChanged \/ UNCHANGED vars
  BY <1>3, <1>7 DEF vars, Setup, Start, CreateServer, Advertise, SetupFails,
     AdapterConfigured, Phone, ClientLink, ClientSubscribe, ClientDrop,
     WriteContinues, ClientWritesFrame, WriteFinal, StateChanged
<1>8. CASE RunReady
  <2>1. CASE RunHandle
    <3>1. SendNothing \/ SendFrame(1, FALSE) \/ SendAckAndAnswer(AnsChunks)
      BY <2>1 DEF RunHandle
    <3> QED BY <1>6, <3>1, GattAssumption
  <2>2. CASE RunPush
    BY <1>6, <2>2, GattAssumption DEF RunPush
  <2>3. CASE RunOnConnect \/ RunOnDisconnect \/ RunOnFrame
    BY <1>3, <2>3 DEF RunOnConnect, RunOnDisconnect, RunOnFrame
  <2> QED BY <1>8, <2>1, <2>2, <2>3 DEF RunReady
<1>9. ASSUME NEW stale \in BOOLEAN, CallDone(stale) PROVE Unmarked(txQueue')
  BY <1>6, <1>9 DEF CallDone
<1>10. CASE Worker
  BY <1>3, <1>4, <1>5, <1>10 DEF Worker, WorkerTakes, WorkerStops, WorkerSends,
     WorkerFindsNoSubscriber, WorkerSkips, WorkerWakes, WorkerHasChunk, WorkerGets
<1>11. CASE Detector
  BY <1>3, <1>5, <1>11 DEF Detector, DetectorPolls, DetectorReads
<1>12. CASE Stop \/ StopSteps
  BY <1>3, <1>12 DEF Stop, StopSteps, StopPuts, StopCancels, StopUnregisters
<1> QED BY <1>7, <1>8, <1>9, <1>10, <1>11, <1>12 DEF Next

(* One queued frame, and the two an answered query queues.                 *)
LEMMA SendFramed ==
    ASSUME TypeOK, NEW stale \in BOOLEAN, Whole => Framed(txQueue, txLast),
           NEW n \in Nat \ {0},
           \/ SendNothing
           \/ SendFrame(n, stale)
           \/ SendAckAndAnswer(AnsChunks)
    PROVE  Whole' => Framed(txQueue', txLast')
<1>0. txQueue \in Seq(Chunk) /\ Len(txQueue) <= QCap /\ txLast \in Chunk
  BY DEF TypeOK, DataTypeOK
<1>1. CASE UNCHANGED txVars
  BY <1>1 DEF Whole
<1>2. CASE SendFrame(n, stale) /\ CanSend
  <2> SUFFICES ASSUME Whole' PROVE Framed(txQueue', txLast')
    OBVIOUS
  <2>1. Whole /\ ~Overflows(txQueue, n)
    BY <1>2 DEF SendFrame, Whole
  <2>2. txQueue' = txQueue \o ChunksOf(n, n, stale) /\ txLast' = txLast
    BY <1>0, <1>2, <2>1, EnqueueType DEF SendFrame
  <2> QED BY <1>0, <2>1, <2>2, FramedConcat
<1>3. CASE SendAckAndAnswer(AnsChunks) /\ CanSend
  <2> SUFFICES ASSUME Whole' PROVE Framed(txQueue', txLast')
    OBVIOUS
  <2> DEFINE acked == Enqueue(txQueue, 1, FALSE)
  <2>1. Whole /\ ~Overflows(txQueue, 1) /\ ~Overflows(acked, AnsChunks)
    BY <1>3 DEF SendAckAndAnswer, Whole
  <2>2. txQueue' = Enqueue(acked, AnsChunks, FALSE) /\ txLast' = txLast
    BY <1>3 DEF SendAckAndAnswer
  <2>3. /\ acked \in Seq(Chunk) /\ Len(acked) <= QCap
        /\ acked = txQueue \o ChunksOf(1, 1, FALSE)
    BY <1>0, <2>1, EnqueueType
  <2> HIDE DEF acked
  <2>4. Framed(acked, txLast)
    <3>1. Framed(txQueue, txLast) /\ 1 \in Nat \ {0} /\ FALSE \in BOOLEAN
      BY <2>1
    <3>2. Framed(txQueue \o ChunksOf(1, 1, FALSE), txLast)
      BY <1>0, <3>1, FramedConcat
    <3> QED BY <2>3, <3>2
  <2>5. txQueue' = acked \o ChunksOf(AnsChunks, AnsChunks, FALSE)
    BY <2>1, <2>2, <2>3, EnqueueType, GattAssumption
  <2> QED BY <1>0, <2>2, <2>3, <2>4, <2>5, FramedConcat, GattAssumption
<1> QED BY <1>1, <1>2, <1>3 DEF SendNothing, SendFrame, SendAckAndAnswer

(* However requests, service calls, pushes and disconnects interleave, a   *)
(* phone is given whole frames in order over its link, until a chunk of it *)
(* is dropped, or the link is given up or begun with a frame half sent.    *)
THEOREM WholeFrames == Spec => []TxFramed
<1> DEFINE IInv == TxFramed /\ ServerInv /\ NoMark
<1>1. Init => IInv
  BY FramedEmpty DEF Init, TxFramed, ServerInv, NoMark
<1>2. TypeOK /\ QuietWhenGone /\ IInv /\ [Next]_vars => IInv'
  <2> SUFFICES ASSUME TypeOK, QuietWhenGone, TxFramed, ServerInv, NoMark, [Next]_vars
               PROVE  TxFramed'
    BY ServerStep, MarkStep
  <2>0. /\ txQueue \in Seq(Chunk) /\ txLast \in Chunk
        /\ lost \in BOOLEAN /\ cut \in BOOLEAN
    BY DEF TypeOK, DataTypeOK, FlagsTypeOK
  <2>1. ASSUME UNCHANGED txVars, stopPc' \in {"idle", "put"} => stopPc \in {"idle", "put"}
        PROVE  TxFramed'
    BY <2>1 DEF TxFramed
  <2>2. ASSUME MarkDisconnected PROVE TxFramed'
    <3>1. ~cut' => txLast = FrameStart
      BY <2>2 DEF MarkDisconnected, WithinFrame
    <3>2. txQueue' = <<>> /\ txLast' = txLast
      BY <2>2 DEF MarkDisconnected
    <3> QED BY <3>1, <3>2, FramedEmpty DEF TxFramed
  <2>3. ASSUME UNCHANGED stopPc, NEW stale \in BOOLEAN, NEW n \in Nat \ {0},
               SendNothing \/ SendFrame(n, stale) \/ SendAckAndAnswer(AnsChunks)
        PROVE  TxFramed'
    <3>1. CASE stopPc \in {"idle", "put"}
      <4>1. Whole => Framed(txQueue, txLast)
        BY <3>1 DEF TxFramed, Whole
      <4>2. Whole' => Framed(txQueue', txLast')
        BY <2>3, <4>1, SendFramed
      <4> QED BY <4>2 DEF TxFramed, Whole
    <3>2. CASE stopPc \notin {"idle", "put"}
      BY <2>3, <3>2 DEF TxFramed
    <3> QED BY <3>1, <3>2
  <2>4. CASE Setup \/ UNCHANGED vars
    BY <2>1, <2>4 DEF Setup, Start, CreateServer, Advertise, SetupFails,
                      AdapterConfigured, vars
  <2>5. CASE Phone
    <3>1. CASE ClientSubscribe \/ ClientDrop \/ WriteContinues \/ ClientWritesFrame
      BY <2>1, <3>1 DEF ClientSubscribe, ClientDrop, WriteContinues,
                        ClientWritesFrame, WriteFinal
    <3>2. CASE ClientLink
      <4> SUFFICES ASSUME stopPc \in {"idle", "put"}, ~lost', ~cut'
                   PROVE  Framed(txQueue', txLast')
        BY <3>2 DEF ClientLink, TxFramed
      <4>1. txQueue' = txQueue /\ txLast' = FrameStart
        BY <3>2 DEF ClientLink
      <4>2. CASE connected
        <5>1. ~lost /\ ~cut /\ txLast = FrameStart
          BY <3>2, <4>2 DEF ClientLink, WithinFrame
        <5> QED BY <4>1, <5>1 DEF TxFramed
      <4>3. CASE ~connected
        <5>1. \A i \in 1..Len(txQueue) : txQueue[i] = StopMark /\ txQueue[i].idx # 0
          BY <4>3 DEF QuietWhenGone, NoMark
        <5>2. \A i \in 1..Len(txQueue) : FALSE
          BY <5>1 DEF StopMark
        <5>3. txQueue = <<>>
          BY <2>0, <5>2, EmptySeq
        <5> QED BY <4>1, <5>3, FramedEmpty
      <4> QED BY <4>2, <4>3
    <3> QED BY <2>5, <3>1, <3>2 DEF Phone
  <2>6. CASE RunReady
    <3>1. CASE RunHandle
      <4>1. UNCHANGED stopPc
        BY <3>1 DEF RunHandle
      <4>2. SendNothing \/ SendFrame(1, FALSE) \/ SendAckAndAnswer(AnsChunks)
        BY <3>1 DEF RunHandle
      <4>3. 1 \in Nat \ {0}
        OBVIOUS
      <4> QED BY <2>3, <4>1, <4>2, <4>3
    <3>2. CASE RunPush
      BY <2>3, <3>2, GattAssumption DEF RunPush
    <3>3. CASE RunOnConnect \/ RunOnDisconnect \/ RunOnFrame
      BY <2>1, <3>3 DEF RunOnConnect, RunOnDisconnect, RunOnFrame
    <3> QED BY <2>6, <3>1, <3>2, <3>3 DEF RunReady
  <2>7. ASSUME NEW stale \in BOOLEAN, CallDone(stale) PROVE TxFramed'
    BY <2>3, <2>7 DEF CallDone
  <2>8. CASE StateChanged \/ DetectorPolls \/ StopCancels \/ StopUnregisters \/ WorkerWakes
    BY <2>1, <2>8 DEF StateChanged, DetectorPolls, StopCancels, StopUnregisters, WorkerWakes
  <2>9. CASE WorkerTakes
    <3> SUFFICES ASSUME WorkerGets, stopPc \in {"idle", "put"}, ~lost, ~lost', ~cut,
                        WorkerStops \/ WorkerSends \/ (WorkerSkips /\ ~Serves)
                 PROVE  Framed(txQueue', txLast')
      BY <2>2, <2>9 DEF WorkerTakes, WorkerStops, WorkerSends, WorkerSkips,
                        WorkerFindsNoSubscriber, WorkerHasChunk, TxFramed
    <3>1. Framed(txQueue, txLast) /\ txQueue # <<>>
      BY DEF TxFramed, WorkerGets
    <3>2. Head(txQueue) # StopMark
      <4>1. 1 \in 1..Len(txQueue) /\ Head(txQueue) = txQueue[1]
        BY <2>0, <3>1, EmptySeq
      <4>2. Follows(txLast, Head(txQueue))
        BY <3>1, <4>1 DEF Framed
      <4>3. txLast.idx \in Nat
        BY <2>0 DEF Chunk
      <4>4. Head(txQueue).idx # 0
        BY <4>2, <4>3 DEF Follows
      <4> QED BY <4>4 DEF StopMark
    <3>3. connected
      <4>1. 1 \in 1..Len(txQueue) /\ Head(txQueue) = txQueue[1]
        BY <2>0, <3>1, EmptySeq
      <4> QED BY <3>2, <4>1 DEF QuietWhenGone
    <3>4. WorkerSends
      BY <3>2, <3>3 DEF WorkerStops, Serves, ServerInv
    <3> QED BY <2>0, <3>1, <3>4, FramedTail DEF WorkerSends
  <2>10. CASE DetectorReads
    BY <2>1, <2>2, <2>10 DEF DetectorReads
  <2>11. CASE Stop \/ StopPuts
    <3>1. CASE Stop /\ stopPc' = "put"
      BY <2>1, <3>1 DEF Stop
    <3>2. CASE stopPc' = "cancel"
      BY <3>2 DEF TxFramed
    <3> QED BY <2>11, <3>1, <3>2 DEF Stop, StopPuts
  <2> QED BY <2>4, <2>5, <2>6, <2>7, <2>8, <2>9, <2>10, <2>11
          DEF Next, Worker, Detector, StopSteps
<1> QED BY <1>1, <1>2, TypeCorrect, QuietQueue, PTL DEF Spec

-----------------------------------------------------------------------------
(* Reassembly.                                                             *)

UntouchedRx == UNCHANGED <<link, synced, rxBuf>>

(* A new link keeps what the last one left in _rx_buf, but the FINAL chunk *)
(* of the first frame written on it clears that, however many chunks the   *)
(* frame has and whatever disconnects and pushes come in between.          *)
THEOREM RxHeals == Spec => []RxRecovers
<1>1. Init => RxRecovers
  BY DEF Init, RxRecovers
<1>2. RxRecovers /\ [Next]_vars => RxRecovers'
  <2> SUFFICES ASSUME RxRecovers, [Next]_vars PROVE RxRecovers'
    OBVIOUS
  <2>1. ASSUME UntouchedRx PROVE RxRecovers'
    BY <2>1 DEF UntouchedRx, RxRecovers
  <2>2. CASE Setup \/ UNCHANGED vars
    BY <2>1, <2>2 DEF UntouchedRx, Setup, Start, CreateServer, Advertise,
                      SetupFails, AdapterConfigured, vars
  <2>3. CASE ClientLink \/ ClientDrop
    <3>1. ~synced'
      BY <2>3 DEF ClientLink, ClientDrop
    <3> QED BY <3>1 DEF RxRecovers
  <2>4. CASE ClientSubscribe
    <3>1. link # "none" /\ UNCHANGED <<synced, rxBuf>>
      BY <2>4 DEF ClientSubscribe
    <3> QED BY <3>1 DEF RxRecovers
  <2>5. CASE WriteContinues
    <3>1. UNCHANGED <<link, synced>> /\ rxBuf' = rxBuf \cup {"mine"}
      BY <2>5 DEF WriteContinues
    <3> QED BY <3>1 DEF RxRecovers
  <2>6. CASE ClientWritesFrame
    <3>1. rxBuf' = {}
      BY <2>6 DEF ClientWritesFrame, WriteFinal
    <3> QED BY <3>1 DEF RxRecovers
  <2>7. CASE RunReady
    BY <2>1, <2>7 DEF UntouchedRx, RunReady, RunOnConnect, RunOnDisconnect,
                      RunOnFrame, RunHandle, RunPush
  <2>8. CASE (\E stale \in BOOLEAN : CallDone(stale)) \/ StateChanged
    BY <2>1, <2>8 DEF UntouchedRx, CallDone, StateChanged
  <2>9. CASE Worker
    BY <2>1, <2>9 DEF UntouchedRx, Worker, WorkerTakes, WorkerStops, WorkerSends,
                      WorkerFindsNoSubscriber, WorkerSkips, WorkerWakes
  <2>10. CASE Detector
    BY <2>1, <2>10 DEF UntouchedRx, Detector, DetectorPolls, DetectorReads
  <2>11. CASE Stop \/ StopSteps
    BY <2>1, <2>11 DEF UntouchedRx, Stop, StopSteps, StopPuts, StopCancels,
                       StopUnregisters
  <2> QED BY <2>2, <2>3, <2>4, <2>5, <2>6, <2>7, <2>8, <2>9, <2>10, <2>11
          DEF Next, Phone
<1> QED BY <1>1, <1>2, PTL DEF Spec
=============================================================================
