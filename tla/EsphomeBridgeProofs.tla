------------------------ MODULE EsphomeBridgeProofs ------------------------
(***************************************************************************)
(* The ESPHome bridge, proved for any traffic, any number of frames at the *)
(* write lock and any number of nonces.  First: when it has a client, and  *)
(* that it implements BridgeContract.  Then: what the lock and the nonces  *)
(* guarantee, which is that the device can read what it gets, and that a   *)
(* server that is stopped leaves nothing behind.                           *)
(***************************************************************************)
EXTENDS EsphomeBridge, TLAPS

InSession == runPc \in Talking \cup Greeting \cup Closing

(* The inductive invariant: there is an open connection exactly while the  *)
(* task is in a session, and a client can only be noticed there.           *)
Upheld ==
    /\ InSession => writer /\ link # "none"
    /\ ~InSession => link = "none"
    /\ bleClientConnected \in BOOLEAN /\ stateUnsub = bleClientConnected
    /\ bleClientConnected => runPc \in Talking \cup {"closing"}

(* Once stop() has been called the task is cancelled, or is past the point *)
(* where it can go on with a session or begin one.                         *)
StopCut ==
    /\ runPc = "off" => ~cancelled /\ stopPc = "idle"
    /\ cancelled => stopPc # "idle"
    /\ stopPc # "idle" => /\ ~running /\ ~bleClientConnected
                          /\ cancelled \/ runPc \in Closing \cup {"ended"}
    /\ stopPc = "stopped" => runPc = "ended"

Inv == Upheld /\ StopCut

(* What the contract sees: nothing of a step that leaves these alone.      *)
Seen == <<stopPc, runPc = "off", writer /\ link # "none", stateUnsub>>

ContractStep == [Contract!ContractNext]_Contract!contractVars

(* What a step has to do: keep the invariant and the contract.             *)
Good == Inv' /\ ContractStep

LEMMA InitGood == Init => Inv /\ Contract!ContractInit
BY DEF Init, LifecycleInit, Inv, Upheld, StopCut, InSession, Talking, Greeting, Closing,
       Contract!ContractInit

(* A step within the session, or outside of any.                           *)
LEMMA Stays ==
    ASSUME Inv, UNCHANGED <<lifecycleVars, running, cancelled, stopPc, writer>>,
           runPc' = runPc, (link = "none") = (link = "none")'
    PROVE  Good
<1>1. Inv'
  BY DEF Inv, Upheld, StopCut, InSession, lifecycleVars
<1>2. UNCHANGED Seen
  BY DEF Seen, lifecycleVars
<1> QED BY <1>1, <1>2 DEF Good, ContractStep, Seen, Contract!contractVars

(* The task goes on within a session without a word to the dispatcher.     *)
LEMMA GoesOn ==
    ASSUME Inv, NEW from, NEW to, Goes(from, to),
           from \in Talking \cup Greeting,
           to \in Talking \cup Greeting \cup {"closing"},
           bleClientConnected => to \in Talking \cup {"closing"},
           UNCHANGED <<lifecycleVars, writer, link>>
    PROVE  Good
<1>1. Inv'
  BY DEF Inv, Upheld, StopCut, InSession, lifecycleVars, Goes, Talking, Greeting, Closing
<1>2. UNCHANGED Seen
  BY DEF Seen, lifecycleVars, Goes, Talking, Greeting
<1> QED BY <1>1, <1>2 DEF Good, ContractStep, Seen, Contract!contractVars

(* A session, if there is one, is over.                                    *)
LEMMA SessionOver ==
    ASSUME Inv, runPc # "off",
           link' = "none", runPc' \in {"backoff", "ended"},
           running => runPc' = "backoff" \/ stopPc # "idle",
           ~running => runPc' = "ended",
           bleClientConnected' = FALSE, stateUnsub' = FALSE,
           UNCHANGED <<running, stopPc>>, ~cancelled'
    PROVE  Good
<1>1. Inv'
  BY DEF Inv, Upheld, StopCut, InSession, Talking, Greeting, Closing
<1>2. CASE writer /\ link # "none"
  <2>1. Contract!SessionEnds
    BY <1>2 DEF Contract!SessionEnds
  <2> QED BY <1>1, <2>1 DEF Good, ContractStep, Contract!ContractNext
<1>3. CASE ~(writer /\ link # "none")
  <2>1. stateUnsub = FALSE
    <3>1. ~bleClientConnected
      BY <1>3 DEF Inv, Upheld, InSession, Closing
    <3> QED BY <3>1 DEF Inv, Upheld
  <2>2. UNCHANGED Seen
    BY <1>3, <2>1 DEF Seen
  <2> QED BY <1>1, <2>2 DEF Good, ContractStep, Seen, Contract!contractVars
<1> QED BY <1>2, <1>3

-----------------------------------------------------------------------------
(* Closing the writer leaves no connection, whoever waits for the lock.    *)
LEMMA WriterClosed == ASSUME NEW q, ClosesWriter(q) PROVE link' = "none"
BY DEF ClosesWriter

LEMMA Forgotten ==
    ASSUME Inv, ForgetsSession PROVE bleClientConnected' = FALSE /\ stateUnsub' = FALSE
BY DEF Inv, Upheld, ForgetsSession, OnBleClientDisconnected, lifecycleVars

(* The session ends where the task finds out itself.                       *)
LEMMA RunsInto ==
    ASSUME Inv, NEW q, runPc # "off", runPc' = AfterSession,
           ClosesWriter(q), ForgetsSession, UNCHANGED <<running, stopPc>>,
           ~cancelled'
    PROVE  Good
<1>1. link' = "none" /\ bleClientConnected' = FALSE /\ stateUnsub' = FALSE
  BY WriterClosed, Forgotten
<1>2. runPc' \in {"backoff", "ended"} /\ (running => runPc' = "backoff")
      /\ (~running => runPc' = "ended")
  BY DEF AfterSession
<1> QED BY <1>1, <1>2, SessionOver

-----------------------------------------------------------------------------
(* The steps of the task.                                                  *)
LEMMA OpensGood == ASSUME Inv, Opens PROVE Good
<1>1. /\ runPc = "opening" /\ runPc' \in {"securing", "hello"} /\ ~cancelled
      /\ writer' = TRUE /\ link' = "up"
      /\ UNCHANGED <<lifecycleVars, running, cancelled, stopPc>>
  BY DEF Opens, Goes
<1>2. Inv'
  BY <1>1 DEF Inv, Upheld, StopCut, InSession, lifecycleVars, Talking, Greeting, Closing
<1>3. Contract!SessionBegins
  BY <1>1 DEF Inv, Upheld, StopCut, InSession, lifecycleVars, Talking, Greeting, Closing,
              Contract!SessionBegins
<1> QED BY <1>2, <1>3 DEF Good, ContractStep, Contract!ContractNext

(* Before and between two sessions.                                        *)
LEMMA Idles ==
    ASSUME Inv, NEW from, NEW to, Goes(from, to), from \in {"opening", "backoff"},
           to \in {"opening", "backoff", "ended"},
           UNCHANGED <<lifecycleVars, writer, link>>
    PROVE  Good
<1>1. Inv'
  BY DEF Inv, Upheld, StopCut, InSession, lifecycleVars, Goes, Talking, Greeting, Closing
<1>2. UNCHANGED Seen
  BY DEF Seen, lifecycleVars, Goes
<1> QED BY <1>1, <1>2 DEF Good, ContractStep, Seen, Contract!contractVars

LEMMA IdleGood == ASSUME Inv, OpenFails \/ BackoffEnds PROVE Good
<1>1. CASE OpenFails
  BY <1>1, Idles DEF OpenFails, linkVars
<1>2. CASE BackoffEnds
  <2>1. CASE running
    BY <1>2, <2>1, Idles DEF BackoffEnds, linkVars
  <2>2. CASE ~running
    BY <1>2, <2>2, Idles DEF BackoffEnds, linkVars
  <2> QED BY <2>1, <2>2
<1> QED BY <1>1, <1>2

LEMMA GreetsGood == ASSUME Inv, Secured \/ Greeted PROVE Good
<1>1. \E from, to \in Greeting :
        Goes(from, to) /\ UNCHANGED <<lifecycleVars, writer, link>>
  BY DEF Secured, Greeted, linkVars, Greeting
<1>2. PICK from, to \in Greeting :
        Goes(from, to) /\ UNCHANGED <<lifecycleVars, writer, link>>
  BY <1>1
<1>3. ~bleClientConnected
  BY <1>2 DEF Goes, Inv, Upheld, Talking, Greeting
<1> QED BY <1>2, <1>3, GoesOn

LEMMA ReadsGood == ASSUME Inv, ReadsMessage \/ CallDone \/ ReaderFails PROVE Good
<1>1. \E from \in Talking : \E to \in Talking \cup {"closing"} :
        Goes(from, to) /\ UNCHANGED <<lifecycleVars, writer, link>>
  BY DEF ReadsMessage, Reads, CallDone, ReaderFails, linkVars, Talking
<1>2. PICK from \in Talking : \E to \in Talking \cup {"closing"} :
        Goes(from, to) /\ UNCHANGED <<lifecycleVars, writer, link>>
  BY <1>1
<1>3. PICK to \in Talking \cup {"closing"} :
        Goes(from, to) /\ UNCHANGED <<lifecycleVars, writer, link>>
  BY <1>2
<1> QED BY <1>3, GoesOn

LEMMA EndsGood == ASSUME Inv, GreetingFails \/ Closes PROVE Good
<1>1. CASE GreetingFails
  <2>1. /\ runPc \in {"securing", "greeting"} /\ runPc' = AfterSession
        /\ ClosesWriter(lockQ) /\ ForgetsSession
        /\ UNCHANGED <<running, stopPc>> /\ ~cancelled'
    BY <1>1 DEF GreetingFails, Goes
  <2> QED BY <2>1, RunsInto
<1>2. CASE Closes
  <2>1. /\ runPc = "closing" /\ runPc' = AfterSession /\ ~cancelled'
        /\ ClosesWriter(Without("ping", lockQ)) /\ ForgetsSession
        /\ UNCHANGED <<running, stopPc>>
    BY <1>2 DEF Closes
  <2> QED BY <2>1, RunsInto
<1> QED BY <1>1, <1>2

(* The cancellation finds no client: stop() has dropped it already.        *)
LEMMA CancelsGood == ASSUME Inv, Cancels \/ Aborts PROVE Good
<1>1. CASE Cancels
  <2>0. /\ ~cancelled' /\ stopPc # "idle" /\ ~running /\ runPc # "off"
        /\ bleClientConnected = FALSE /\ stateUnsub = FALSE
        /\ UNCHANGED <<lifecycleVars, running, stopPc, writer>>
    BY <1>1 DEF Cancels, Inv, Upheld, StopCut
  <2>1. CASE Bridging
    <3>1. runPc' = "aborting" /\ link' = link
      BY <1>1, <2>1 DEF Cancels, linkVars
    <3>2. Inv'
      BY <2>0, <2>1, <3>1 DEF Inv, Upheld, StopCut, InSession, lifecycleVars, Bridging,
                              Talking, Greeting, Closing
    <3>3. UNCHANGED Seen
      BY <2>0, <2>1, <3>1 DEF Seen, lifecycleVars
    <3> QED BY <3>2, <3>3 DEF Good, ContractStep, Seen, Contract!contractVars
  <2>2. CASE ~Bridging
    <3>1. runPc' = "ended" /\ link' = "none"
      BY <1>1, <2>2, WriterClosed DEF Cancels
    <3> QED BY <2>0, <3>1, SessionOver DEF lifecycleVars
  <2> QED BY <2>1, <2>2
<1>2. CASE Aborts
  <2>1. /\ runPc = "aborting" /\ runPc' = "ended" /\ link' = "none"
        /\ UNCHANGED <<lifecycleVars, running, cancelled, stopPc, writer>>
    BY <1>2, WriterClosed DEF Aborts
  <2>2. bleClientConnected = FALSE /\ stateUnsub = FALSE
    BY <2>1 DEF Inv, Upheld, Talking
  <2>3. Inv'
    BY <2>1, <2>2 DEF Inv, Upheld, StopCut, InSession, lifecycleVars, Talking, Greeting,
                      Closing
  <2>4. Contract!SessionEnds
    BY <2>1, <2>2 DEF Inv, Upheld, InSession, Closing, lifecycleVars, Contract!SessionEnds
  <2> QED BY <2>3, <2>4 DEF Good, ContractStep, Contract!ContractNext
<1> QED BY <1>1, <1>2

LEMMA TaskGood == ASSUME Inv, RunTask PROVE Good
BY OpensGood, IdleGood, GreetsGood, ReadsGood, EndsGood, CancelsGood DEF RunTask

-----------------------------------------------------------------------------
(* The write lock.  Only the frame of the subscription, once it is         *)
(* through, makes the phone a client.                                      *)
LEMMA SubscribedGood ==
    ASSUME Inv, Goes("subscribe", "reading"), OnBleClientConnected,
           UNCHANGED <<writer, link>>
    PROVE  Good
<1>1. /\ ~bleClientConnected /\ stopPc = "idle" /\ writer /\ link # "none"
      /\ runPc = "subscribe" /\ runPc' = "reading"
      /\ UNCHANGED <<running, cancelled, stopPc, writer, link>>
  BY DEF Inv, Upheld, StopCut, InSession, Goes, Talking, Greeting, Closing
<1>2. bleClientConnected' = TRUE /\ stateUnsub' = TRUE
  BY <1>1 DEF OnBleClientConnected, SubscribeStateChanges
<1>3. Inv'
  BY <1>1, <1>2 DEF Inv, Upheld, StopCut, InSession, Talking
<1>4. Contract!PhoneComes
  BY <1>1, <1>2 DEF Contract!PhoneComes
<1> QED BY <1>3, <1>4 DEF Good, ContractStep, Contract!ContractNext

LEMMA RunResumesGood ==
    ASSUME Inv, NEW q, RunResumes(q), UNCHANGED <<writer, link>>
    PROVE  Good
<1>1. CASE Goes("subscribe", "reading") /\ OnBleClientConnected
  BY <1>1, SubscribedGood
<1>2. CASE Goes("hello", "greeting") /\ UNCHANGED lifecycleVars
  <2>1. ~bleClientConnected
    BY <1>2 DEF Goes, Inv, Upheld, Talking
  <2> QED BY <1>2, <2>1, GoesOn DEF Greeting
<1>3. ASSUME NEW from \in Talking, NEW to \in Talking \cup {"closing"}, Goes(from, to),
             UNCHANGED lifecycleVars
      PROVE  Good
  BY <1>3, GoesOn
<1>4. \/ Goes("subscribe", "reading") /\ OnBleClientConnected
      \/ Goes("hello", "greeting") /\ UNCHANGED lifecycleVars
      \/ \E from \in Talking : \E to \in Talking \cup {"closing"} :
           Goes(from, to) /\ UNCHANGED lifecycleVars
  BY DEF RunResumes, Talking
<1> QED BY <1>1, <1>2, <1>3, <1>4

LEMMA HolderGood == ASSUME Inv, HolderResumes, UNCHANGED <<writer, link>> PROVE Good
<1>1. CASE UNCHANGED <<lifecycleVars, taskVars>>
  BY <1>1, Stays DEF taskVars
<1>2. CASE RunResumes(Tail(lockQ))
  BY <1>2, RunResumesGood
<1> QED BY <1>1, <1>2 DEF HolderResumes

LEMMA LockGood == ASSUME Inv, Lock PROVE Good
<1>1. CASE Writes
  <2>1. CASE HolderResumes
    BY <1>1, <2>1, HolderGood DEF Writes
  <2>2. CASE UNCHANGED <<lifecycleVars, taskVars>>
    BY <1>1, <2>2, Stays DEF Writes, taskVars
  <2> QED BY <1>1, <2>1, <2>2 DEF Writes
<1>2. CASE Drained
  BY <1>2, HolderGood DEF Drained, linkVars
<1>3. CASE WriteFails
  <2>1. CASE UNCHANGED <<lifecycleVars, taskVars, writer, linkVars>>
    BY <2>1, Stays DEF taskVars, linkVars
  <2>2. CASE Bridging /\ Goes(runPc, "closing") /\ UNCHANGED <<lifecycleVars, writer, linkVars>>
    BY <2>2, GoesOn DEF Bridging, linkVars
  <2>3. CASE Goes(runPc, AfterSession) /\ ClosesWriter(Tail(lockQ)) /\ ForgetsSession
    <3>1. runPc # "off"
      BY <1>3 DEF WriteFails, Inv, Upheld, InSession, Talking, Greeting, Closing
    <3>2. runPc' = AfterSession /\ ~cancelled' /\ UNCHANGED <<running, stopPc>>
      BY <2>3 DEF Goes
    <3> QED BY <2>3, <3>1, <3>2, RunsInto
  <2> QED BY <1>3, <2>1, <2>2, <2>3 DEF WriteFails
<1>4. CASE Releases
  BY <1>4, Stays DEF Releases, taskVars, linkVars
<1> QED BY <1>1, <1>2, <1>3, <1>4 DEF Lock

-----------------------------------------------------------------------------
(* Starting and stopping.                                                  *)
LEMMA StartGood == ASSUME Inv, Start PROVE Good
<1>1. /\ runPc = "off" /\ runPc' = "opening"
      /\ UNCHANGED <<lifecycleVars, cancelled, stopPc, writer, link>>
  BY DEF Start, linkVars
<1>2. Inv'
  BY <1>1 DEF Inv, Upheld, StopCut, InSession, lifecycleVars, Talking, Greeting, Closing
<1>3. Contract!Starts
  BY <1>1 DEF Inv, Upheld, StopCut, InSession, lifecycleVars, Talking, Greeting, Closing,
              Contract!Starts
<1> QED BY <1>2, <1>3 DEF Good, ContractStep, Contract!ContractNext

LEMMA StopGood == ASSUME Inv, Stop PROVE Good
<1>1. /\ stopPc = "idle" /\ stopPc' = "stopping" /\ runPc # "off" /\ runPc' = runPc
      /\ ~running' /\ UNCHANGED <<writer, link>>
      /\ bleClientConnected' = FALSE /\ stateUnsub' = FALSE
  BY DEF Stop, StopBegins, OnBleClientDisconnected, Inv, Upheld, lifecycleVars, linkVars
<1>2. cancelled' = (runPc # "ended")
  BY DEF Stop
<1>3. Upheld'
  BY <1>1 DEF Inv, Upheld, InSession
<1>4. StopCut'
  <2>1. cancelled' \/ runPc = "ended"
    BY <1>2
  <2> QED BY <1>1, <2>1 DEF StopCut
<1>5. Contract!StopCalled
  BY <1>1 DEF Contract!StopCalled
<1> QED BY <1>3, <1>4, <1>5 DEF Good, Inv, ContractStep, Contract!ContractNext

LEMMA ReturnGood == ASSUME Inv, StopReturns PROVE Good
<1>1. /\ stopPc = "stopping" /\ stopPc' = "stopped" /\ runPc = "ended"
      /\ writer' = FALSE
      /\ UNCHANGED <<lifecycleVars, running, runPc, cancelled, link>>
  BY DEF StopReturns, WriterDropped, linkVars
<1>2. link = "none"
  BY <1>1 DEF Inv, Upheld, InSession, Talking, Greeting, Closing
<1>3. Inv'
  BY <1>1, <1>2 DEF Inv, Upheld, StopCut, InSession, lifecycleVars, Talking, Greeting,
                    Closing
<1>4. Contract!StopEnds
  BY <1>1, <1>2 DEF Contract!StopEnds, lifecycleVars
<1> QED BY <1>3, <1>4 DEF Good, ContractStep, Contract!ContractNext

(* Everything else leaves the task and the connection alone, as far as     *)
(* they matter here.                                                       *)
LEMMA RestGood ==
    ASSUME Inv,
           Pings \/ StateChanged \/ RunPush \/ Device \/ TcpGivesUp \/ UNCHANGED vars
    PROVE  Good
<1>1. CASE Pings \/ StateChanged \/ RunPush \/ UNCHANGED vars
  BY <1>1, Stays DEF Pings, StateChanged, RunPush, taskVars, linkVars, vars
<1>2. ASSUME NEW from, NEW to, LinkChanges(from, to), from # "none", to # "none"
      PROVE  Good
  <2>1. /\ UNCHANGED <<lifecycleVars, running, cancelled, stopPc, writer, runPc>>
        /\ (link = "none") = (link = "none")'
    BY <1>2 DEF LinkChanges, taskVars
  <2> QED BY <2>1, Stays
<1>3. CASE Device \/ TcpGivesUp
  <2>1. ASSUME DeviceSends PROVE Good
    BY <2>1, Stays DEF DeviceSends, taskVars, linkVars
  <2> QED BY <1>2, <1>3, <2>1 DEF Device, Vanishes, Returns, Resets, TcpGivesUp
<1> QED BY <1>1, <1>2, <1>3

LEMMA NextGood == ASSUME Inv, [Next]_vars PROVE Good
BY TaskGood, LockGood, StartGood, StopGood, ReturnGood, RestGood DEF Next

LEMMA Invariant == Spec => []Inv
<1>1. Init => Inv
  BY InitGood
<1>2. Inv /\ [Next]_vars => Inv'
  BY NextGood DEF Good
<1> QED BY <1>1, <1>2, PTL DEF Spec

(* A client is connected, and listened for, only over a connection that is *)
(* not closed.                                                             *)
OnlineOnly ==
    /\ stateUnsub <=> bleClientConnected
    /\ bleClientConnected => writer /\ link # "none"

(* OnlineOnly holds from the first step of the session to the last.        *)
THEOREM ClientOnline == Spec => []OnlineOnly
<1>1. Inv => OnlineOnly
  BY DEF Inv, Upheld, InSession, Closing, OnlineOnly
<1> QED BY <1>1, Invariant, PTL

(* The ESPHome bridge implements BridgeContract.                           *)
THEOREM BridgeKeepsContract == Spec => KeepsContract
<1>1. Init => Contract!ContractInit
  BY InitGood
<1>2. Inv /\ [Next]_vars => [Contract!ContractNext]_Contract!contractVars
  BY NextGood DEF Good, ContractStep
<1> QED BY <1>1, <1>2, Invariant, PTL DEF Spec, KeepsContract, Contract!ContractSpec

-----------------------------------------------------------------------------
(* The write lock and the nonces.                                          *)

(* A session that is not being closed.                                     *)
Live == runPc \in Talking \cup Greeting

(* who has no frame in q.                                                  *)
None(q, who) == \A i \in 1..Len(q) : q[i].by # who

(* Only pushes have more than one.                                         *)
Single(q) == \A i, j \in 1..Len(q) : i # j /\ q[i].by = q[j].by => q[i].by = "push"

(* The inductive invariant.  The task and its pings have a frame at the    *)
(* lock only while they wait for it.                                       *)
Senders ==
    /\ runPc \notin Sending => None(lockQ, "run")
    /\ ping # "send" => None(lockQ, "ping")
    /\ ping # "off" => runPc \in Talking \cup Closing
    /\ draining => lockQ # <<>>

(* All of q is left of an earlier session.                                 *)
AllOld(q) == \A i \in 1..Len(q) : q[i].old

(* Between two sessions there is no writer, and all that waits at the lock *)
(* is left of an earlier one.  The cancellation comes only once.           *)
Between ==
    /\ runPc \in {"off", "opening", "backoff"} => ~writer /\ nonce = 0
    /\ link = "none" => AllOld(lockQ)
    /\ stopPc = "stopped" => ~writer
    /\ runPc = "aborting" => ~cancelled /\ stopPc # "idle"

(* A session begins with the hello: it takes nonce 0, and nothing else is  *)
(* sent until it is through.                                               *)
HelloFirst ==
    /\ runPc \in {"off", "opening"} \cup Greeting => pushes = 0
    /\ runPc \in Greeting => ~overlong
    /\ runPc = "securing" => nonce = 0 /\ AllOld(lockQ)
    /\ runPc = "hello" =>
         /\ nonce # 0
         /\ \A i \in 1..Len(lockQ) : ~lockQ[i].old => lockQ[i].by = "run"
    /\ runPc \in Talking \cup {"greeting", "subscribe"} => expects # 0

(* The nonce of the frame behind the first i of q, the next to be encoded  *)
(* being given n.                                                          *)
NonceBehind(q, n, i) == IF i = Len(q) THEN n ELSE q[i + 1].nonce

(* What is left of an earlier session is ahead of the session's frames.    *)
OldAhead(q) == \A i, j \in 1..Len(q) : i < j /\ q[j].old => q[i].old

(* The session's frames queue in the order of their nonces, none missing.  *)
Chained(q, n) ==
    \A i \in 1..Len(q) : ~q[i].old => NonceBehind(q, n, i) = After(q[i].nonce)

(* The first i frames of q are those left of an earlier session.           *)
Split(q, i) == (i = 0 \/ q[i].old) /\ (i = Len(q) \/ ~q[i + 1].old)

(* e is the nonce of the session's first frame that is not written yet.    *)
Awaits(q, n, d, e) ==
    \A i \in 0..Len(q) :
      Split(q, i) => e = NonceBehind(q, n, IF i = 0 /\ d THEN 1 ELSE i)

InOrder ==
    Live /\ ~overlong =>
       /\ OldAhead(lockQ)
       /\ Chained(lockQ, nonce)
       /\ link # "lost" => Awaits(lockQ, nonce, draining, expects)
       /\ inStep

LockInv == TypeOK /\ Senders /\ Between /\ HelloFirst /\ InOrder

-----------------------------------------------------------------------------
(* Queues of frames.                                                       *)

LEMMA AppendIs ==
    ASSUME NEW q \in Seq(Entry), NEW e \in Entry
    PROVE  /\ Append(q, e) \in Seq(Entry)
           /\ Len(q) \in Nat
           /\ Len(Append(q, e)) = Len(q) + 1
           /\ \A i \in 1..Len(q) : Append(q, e)[i] = q[i]
           /\ Append(q, e)[Len(q) + 1] = e
OBVIOUS

LEMMA TailIs ==
    ASSUME NEW q \in Seq(Entry), q # <<>>
    PROVE  /\ Tail(q) \in Seq(Entry)
           /\ Len(q) \in Nat \ {0}
           /\ Len(Tail(q)) = Len(q) - 1
           /\ \A i \in 1..Len(Tail(q)) : Tail(q)[i] = q[i + 1]
           /\ Head(q) = q[1]
           /\ Head(q) \in Entry
OBVIOUS

(* What is left of q when its frame at i goes.                             *)
LEMMA CutIs ==
    ASSUME NEW q \in Seq(Entry), NEW i \in 1..Len(q)
    PROVE  LET c == SubSeq(q, 1, i - 1) \o SubSeq(q, i + 1, Len(q))
           IN  /\ c \in Seq(Entry)
               /\ Len(q) \in Nat /\ Len(c) = Len(q) - 1
               /\ \A j \in 1..Len(c) : c[j] = IF j < i THEN q[j] ELSE q[j + 1]
<1> DEFINE a == SubSeq(q, 1, i - 1)
           b == SubSeq(q, i + 1, Len(q))
<1>1. /\ Len(q) \in Nat
      /\ a \in Seq(Entry) /\ Len(a) = i - 1 /\ \A j \in 1..(i - 1) : a[j] = q[j]
  OBVIOUS
<1>2. b \in Seq(Entry) /\ Len(b) = Len(q) - i
  OBVIOUS
<1>3. \A j \in 1..(Len(q) - i) : b[j] = q[j + i]
  OBVIOUS
<1> HIDE DEF a, b
<1>4. /\ a \o b \in Seq(Entry) /\ Len(a \o b) = Len(q) - 1
      /\ \A j \in 1..Len(a \o b) : (a \o b)[j] = IF j < i THEN q[j] ELSE q[j + 1]
  <2>1. a \o b \in Seq(Entry) /\ Len(a \o b) = Len(a) + Len(b)
    BY <1>1, <1>2
  <2>2. \A j \in 1..Len(a \o b) :
          (a \o b)[j] = IF j <= Len(a) THEN a[j] ELSE b[j - Len(a)]
    BY <1>1, <1>2
  <2>3. ASSUME NEW j \in 1..Len(a \o b), j >= i PROVE (a \o b)[j] = q[j + 1]
    <3>1. j - Len(a) \in 1..(Len(q) - i) /\ (j - Len(a)) + i = j + 1
      BY <1>1, <1>2, <2>1, <2>3
    <3>2. b[j - Len(a)] = q[j + 1]
      BY <1>3, <3>1
    <3> QED BY <1>1, <2>2, <2>3, <3>2
  <2>4. ASSUME NEW j \in 1..Len(a \o b), j < i PROVE (a \o b)[j] = q[j]
    BY <1>1, <1>2, <2>2, <2>4
  <2> QED BY <1>1, <1>2, <2>1, <2>3, <2>4
<1> QED BY <1>1, <1>4 DEF a, b

(* A frame joins at the back.                                              *)
LEMMA JoinQ ==
    ASSUME NEW q \in Seq(Entry), NEW e \in Entry
    PROVE  /\ Single(q) /\ (e.by = "push" \/ None(q, e.by)) => Single(Append(q, e))
           /\ \A w : None(q, w) /\ e.by # w => None(Append(q, e), w)
           /\ Append(q, e) # <<>>
BY AppendIs DEF Single, None

(* The frame at the front goes.                                            *)
LEMMA TailQ ==
    ASSUME NEW q \in Seq(Entry), q # <<>>
    PROVE  /\ Single(q) => Single(Tail(q))
           /\ Single(q) /\ Head(q).by # "push" => None(Tail(q), Head(q).by)
           /\ \A w : None(q, w) => None(Tail(q), w)
<1>1. /\ Tail(q) \in Seq(Entry) /\ Len(q) \in Nat \ {0} /\ Len(Tail(q)) = Len(q) - 1
      /\ \A i \in 1..Len(Tail(q)) : Tail(q)[i] = q[i + 1]
      /\ Head(q) = q[1]
  BY TailIs
<1>2. Single(q) => Single(Tail(q))
  <2> SUFFICES ASSUME Single(q), NEW i \in 1..Len(Tail(q)), NEW j \in 1..Len(Tail(q)), i # j,
                      Tail(q)[i].by = Tail(q)[j].by
               PROVE  Tail(q)[i].by = "push"
    BY DEF Single
  <2>1. i + 1 \in 1..Len(q) /\ j + 1 \in 1..Len(q) /\ i + 1 # j + 1
    BY <1>1
  <2> QED BY <1>1, <2>1 DEF Single
<1>3. ASSUME Single(q), Head(q).by # "push" PROVE None(Tail(q), Head(q).by)
  <2> SUFFICES ASSUME NEW i \in 1..Len(Tail(q)) PROVE Tail(q)[i].by # Head(q).by
    BY DEF None
  <2>1. i + 1 \in 1..Len(q) /\ 1 \in 1..Len(q) /\ i + 1 # 1
    BY <1>1
  <2> QED BY <1>1, <1>3, <2>1 DEF Single
<1>4. ASSUME NEW w, None(q, w) PROVE None(Tail(q), w)
  <2> SUFFICES ASSUME NEW i \in 1..Len(Tail(q)) PROVE Tail(q)[i].by # w
    BY DEF None
  <2>1. i + 1 \in 1..Len(q)
    BY <1>1
  <2> QED BY <1>1, <1>4, <2>1 DEF None
<1> QED BY <1>2, <1>3, <1>4

(* The only frame of who goes.                                             *)
LEMMA WithoutQ ==
    ASSUME NEW q \in Seq(Entry), NEW who
    PROVE  /\ Without(who, q) \in Seq(Entry)
           /\ Single(q) => Single(Without(who, q))
           /\ Single(q) /\ who # "push" => None(Without(who, q), who)
           /\ \A w : None(q, w) => None(Without(who, q), w)
           /\ q # <<>> /\ Head(q).by # who => Without(who, q) # <<>>
<1> DEFINE mine == {k \in 1..Len(q) : q[k].by = who}
<1>1. CASE mine = {}
  <2>1. Without(who, q) = q
    BY <1>1 DEF Without
  <2>2. None(q, who)
    BY <1>1 DEF None
  <2> QED BY <2>1, <2>2
<1>2. CASE mine # {}
  <2>1. PICK i \in mine :
          Without(who, q) = SubSeq(q, 1, i - 1) \o SubSeq(q, i + 1, Len(q))
    <3>1. (CHOOSE k \in mine : TRUE) \in mine
      BY <1>2
    <3> QED BY <1>2, <3>1 DEF Without
  <2> DEFINE c == Without(who, q)
  <2>2. /\ c \in Seq(Entry) /\ Len(q) \in Nat /\ Len(c) = Len(q) - 1
        /\ \A j \in 1..Len(c) : c[j] = IF j < i THEN q[j] ELSE q[j + 1]
    BY <2>1, CutIs
  <2>3. i \in 1..Len(q) /\ q[i].by = who
    OBVIOUS
  <2> HIDE DEF c, mine
  <2> DEFINE at(j) == IF j < i THEN j ELSE j + 1
  <2>4. \A j \in 1..Len(c) : at(j) \in 1..Len(q) /\ at(j) # i /\ c[j] = q[at(j)]
    BY <2>2, <2>3
  <2>5. \A j, k \in 1..Len(c) : j # k => at(j) # at(k)
    BY <2>2, <2>3
  <2> HIDE DEF at
  <2>6. Single(q) => Single(c)
    BY <2>4, <2>5 DEF Single
  <2>7. Single(q) /\ who # "push" => None(c, who)
    BY <2>3, <2>4 DEF Single, None
  <2>8. \A w : None(q, w) => None(c, w)
    BY <2>4 DEF None
  <2>9. q # <<>> /\ Head(q).by # who => c # <<>>
    <3> SUFFICES ASSUME q # <<>>, Head(q).by # who PROVE Len(c) # 0
      BY <2>2
    <3>1. Head(q) = q[1]
      BY TailIs
    <3>2. i # 1
      BY <2>3, <3>1
    <3> QED BY <2>2, <2>3, <3>2
  <2> QED BY <2>2, <2>6, <2>7, <2>8, <2>9 DEF c
<1> QED BY <1>1, <1>2

(* The connection of all frames is closed.                                 *)
Aged(q) == [i \in DOMAIN q |-> [q[i] EXCEPT !.old = TRUE]]

LEMMA AgedQ ==
    ASSUME NEW q \in Seq(Entry)
    PROVE  /\ Aged(q) \in Seq(Entry)
           /\ \A i \in 1..Len(Aged(q)) : Aged(q)[i].old
           /\ Single(q) => Single(Aged(q))
           /\ \A w : None(q, w) => None(Aged(q), w)
           /\ q # <<>> => Aged(q) # <<>>
<1>1. Len(q) \in Nat /\ DOMAIN q = 1..Len(q) /\ \A i \in 1..Len(q) : q[i] \in Entry
  OBVIOUS
<1>2. \A i \in 1..Len(q) : /\ [q[i] EXCEPT !.old = TRUE] \in Entry
                           /\ [q[i] EXCEPT !.old = TRUE].old = TRUE
                           /\ [q[i] EXCEPT !.old = TRUE].by = q[i].by
  BY <1>1 DEF Entry
<1>3. Aged(q) \in Seq(Entry)
  BY <1>1, <1>2 DEF Aged
<1>4. Len(Aged(q)) = Len(q)
  BY <1>1 DEF Aged
<1>5. \A i \in 1..Len(q) : Aged(q)[i].old = TRUE /\ Aged(q)[i].by = q[i].by
  BY <1>1, <1>2 DEF Aged
<1> QED BY <1>3, <1>4, <1>5 DEF Single, None

(* The nonces, and their order at the lock.                                *)
LEMMA AfterIs == ASSUME NEW n \in 0..Nonces PROVE After(n) \in 0..Nonces /\ After(n) # 0
<1> Nonces \in Nat /\ Nonces > 0
  BY EsphomeAssumption
<1> QED BY DEF After

(* A frame that is encoded joins the order.                                *)
LEMMA JoinOrder ==
    ASSUME NEW q \in Seq(Entry), NEW n \in 0..Nonces, NEW e \in Entry, e.nonce = n, ~e.old
    PROVE  /\ OldAhead(q) => OldAhead(Append(q, e))
           /\ Chained(q, n) => Chained(Append(q, e), After(n))
           /\ \A d, x : (d => q # <<>>) /\ Awaits(q, n, d, x)
                           => Awaits(Append(q, e), After(n), d, x)
<1> DEFINE a == Append(q, e)
           m == Len(q)
<1>1. /\ m \in Nat /\ Len(a) = m + 1 /\ a[m + 1] = e
      /\ \A i \in 1..m : a[i] = q[i]
  BY AppendIs
<1>2. q # <<>> => m # 0
  OBVIOUS
<1> HIDE DEF a, m
<1>3. \A i \in 0..m : NonceBehind(a, After(n), i) = NonceBehind(q, n, i)
  <2> SUFFICES ASSUME NEW i \in 0..m
               PROVE  NonceBehind(a, After(n), i) = NonceBehind(q, n, i)
    OBVIOUS
  <2>1. CASE i = m
    BY <1>1, <2>1 DEF NonceBehind, m
  <2>2. CASE i # m
    BY <1>1, <2>2 DEF NonceBehind, m
  <2> QED BY <2>1, <2>2
<1>4. NonceBehind(a, After(n), m + 1) = After(n)
  BY <1>1 DEF NonceBehind
<1>5. OldAhead(q) => OldAhead(a)
  <2> SUFFICES ASSUME OldAhead(q), NEW i \in 1..(m + 1), NEW j \in 1..(m + 1), i < j, a[j].old
               PROVE  a[i].old
    BY <1>1 DEF OldAhead
  <2>1. j # m + 1
    BY <1>1
  <2> QED BY <1>1, <2>1 DEF OldAhead, m
<1>6. Chained(q, n) => Chained(a, After(n))
  <2> SUFFICES ASSUME Chained(q, n), NEW i \in 1..(m + 1), ~a[i].old
               PROVE  NonceBehind(a, After(n), i) = After(a[i].nonce)
    BY <1>1 DEF Chained
  <2>1. CASE i = m + 1
    BY <1>1, <1>4, <2>1
  <2>2. CASE i # m + 1
    <3>1. i \in 1..m /\ a[i] = q[i] /\ i \in 0..m
      BY <1>1, <2>2
    <3> QED BY <1>3, <3>1 DEF Chained, m
  <2> QED BY <2>1, <2>2
<1>7. ASSUME NEW d, NEW x, d => q # <<>>, Awaits(q, n, d, x) PROVE Awaits(a, After(n), d, x)
  <2> SUFFICES ASSUME NEW i \in 0..(m + 1), Split(a, i)
               PROVE  x = NonceBehind(a, After(n), IF i = 0 /\ d THEN 1 ELSE i)
    BY <1>1 DEF Awaits
  <2>1. i # m + 1
    BY <1>1 DEF Split
  <2>2. i \in 0..m
    BY <1>1, <2>1
  <2>3. Split(q, i)
    BY <1>1, <2>2 DEF Split, m
  <2>4. (IF i = 0 /\ d THEN 1 ELSE i) \in 0..m
    BY <1>1, <1>2, <1>7, <2>2
  <2>5. x = NonceBehind(q, n, IF i = 0 /\ d THEN 1 ELSE i)
    BY <1>7, <2>2, <2>3 DEF Awaits, m
  <2> QED BY <1>3, <2>4, <2>5
<1> QED BY <1>5, <1>6, <1>7 DEF a

(* The holder lets go of the lock.                                         *)
LEMMA TailOrder ==
    ASSUME NEW q \in Seq(Entry), q # <<>>, NEW n
    PROVE  /\ OldAhead(q) => OldAhead(Tail(q))
           /\ Chained(q, n) => Chained(Tail(q), n)
           /\ \A x : OldAhead(q) /\ Awaits(q, n, TRUE, x) => Awaits(Tail(q), n, FALSE, x)
<1> DEFINE t == Tail(q)
           m == Len(q)
<1>1. /\ m \in Nat \ {0} /\ Len(t) = m - 1
      /\ \A i \in 1..Len(t) : t[i] = q[i + 1]
  BY TailIs
<1> HIDE DEF t, m
<1>2. \A i \in 0..(m - 1) : NonceBehind(t, n, i) = NonceBehind(q, n, i + 1)
  <2> SUFFICES ASSUME NEW i \in 0..(m - 1)
               PROVE  NonceBehind(t, n, i) = NonceBehind(q, n, i + 1)
    OBVIOUS
  <2>1. CASE i = m - 1
    BY <1>1, <2>1 DEF NonceBehind, m
  <2>2. CASE i # m - 1
    <3>1. i + 1 \in 1..Len(t) /\ t[i + 1] = q[(i + 1) + 1] /\ i # Len(t) /\ i + 1 # m
      BY <1>1, <2>2
    <3> QED BY <3>1 DEF NonceBehind, m
  <2> QED BY <2>1, <2>2
<1>3. OldAhead(q) => OldAhead(t)
  <2> SUFFICES ASSUME OldAhead(q), NEW i \in 1..Len(t), NEW j \in 1..Len(t), i < j, t[j].old
               PROVE  t[i].old
    BY DEF OldAhead
  <2>1. i + 1 \in 1..m /\ j + 1 \in 1..m /\ i + 1 < j + 1
    BY <1>1
  <2> QED BY <1>1, <2>1 DEF OldAhead, m
<1>4. Chained(q, n) => Chained(t, n)
  <2> SUFFICES ASSUME Chained(q, n), NEW i \in 1..Len(t), ~t[i].old
               PROVE  NonceBehind(t, n, i) = After(t[i].nonce)
    BY DEF Chained
  <2>1. i + 1 \in 1..m /\ i \in 0..(m - 1) /\ t[i] = q[i + 1]
    BY <1>1
  <2> QED BY <1>2, <2>1 DEF Chained, m
<1>5. ASSUME NEW x, OldAhead(q), Awaits(q, n, TRUE, x) PROVE Awaits(t, n, FALSE, x)
  <2> SUFFICES ASSUME NEW i \in 0..(m - 1), Split(t, i)
               PROVE  x = NonceBehind(q, n, i + 1)
    BY <1>1, <1>2 DEF Awaits
  <2>1. i + 1 \in 0..m /\ i + 1 # 0
    BY <1>1
  <2>2. CASE Split(q, i + 1)
    BY <1>5, <2>1, <2>2 DEF Awaits, m
  <2>3. CASE ~Split(q, i + 1)
    <3>1. i + 1 = m \/ ~q[(i + 1) + 1].old
      BY <1>1 DEF Split
    <3>2. ~q[i + 1].old
      BY <2>1, <2>3, <3>1 DEF Split, m
    <3>3. i = 0
      <4>1. i # 0 => i \in 1..Len(t) /\ t[i] = q[i + 1]
        BY <1>1
      <4> QED BY <3>2, <4>1 DEF Split
    <3>4. Split(q, 0) /\ 0 \in 0..m
      BY <1>1, <3>2, <3>3 DEF Split
    <3> QED BY <1>5, <3>3, <3>4 DEF Awaits, m
  <2> QED BY <2>2, <2>3
<1> QED BY <1>3, <1>4, <1>5 DEF t

(* The frame at the front is written, if it is the session's own; one that *)
(* is left of an earlier session does not count.                           *)
LEMMA WriteOrder ==
    ASSUME NEW q \in Seq(Entry), q # <<>>, NEW n, NEW x, OldAhead(q), Chained(q, n)
    PROVE  /\ ~Head(q).old /\ Awaits(q, n, FALSE, x)
                => x = Head(q).nonce /\ Awaits(q, n, TRUE, After(x))
           /\ \A d : Head(q).old /\ Awaits(q, n, d, x) => Awaits(q, n, TRUE, x)
<1>1. Len(q) \in Nat \ {0} /\ Head(q) = q[1]
  BY TailIs
<1>2. ASSUME ~q[1].old, Awaits(q, n, FALSE, x)
      PROVE  x = q[1].nonce /\ Awaits(q, n, TRUE, After(x))
  <2>1. Split(q, 0) /\ 0 \in 0..Len(q)
    BY <1>1, <1>2 DEF Split
  <2>2. x = NonceBehind(q, n, 0)
    BY <1>2, <2>1 DEF Awaits
  <2>3. x = q[1].nonce
    BY <1>1, <2>2 DEF NonceBehind
  <2>4. NonceBehind(q, n, 1) = After(x)
    BY <1>1, <1>2, <2>3 DEF Chained
  <2>5. ASSUME NEW i \in 0..Len(q), Split(q, i) PROVE i = 0
    BY <1>1, <1>2, <2>5 DEF Split, OldAhead
  <2> QED BY <2>3, <2>4, <2>5 DEF Awaits
<1>3. ASSUME NEW d, q[1].old, Awaits(q, n, d, x) PROVE Awaits(q, n, TRUE, x)
  <2>1. ASSUME NEW i \in 0..Len(q), Split(q, i) PROVE i # 0
    BY <1>1, <1>3, <2>1 DEF Split
  <2> QED BY <1>3, <2>1 DEF Awaits
<1> QED BY <1>1, <1>2, <1>3

-----------------------------------------------------------------------------
(* The types.                                                              *)

LEMMA InitLock == Init => LockInv
<1> SUFFICES ASSUME Init PROVE LockInv
  OBVIOUS
<1>1. lockQ = <<>> /\ Len(lockQ) = 0 /\ lockQ \in Seq(Entry)
  BY DEF Init
<1>2. LifecycleTypeOK
  BY DEF Init, LifecycleInit, LifecycleTypeOK
<1>3. /\ noise \in BOOLEAN /\ running \in BOOLEAN /\ cancelled \in BOOLEAN
      /\ writer \in BOOLEAN /\ unacked \in BOOLEAN /\ draining \in BOOLEAN
      /\ inStep \in BOOLEAN /\ overlong \in BOOLEAN
  BY DEF Init
<1>4. /\ nonce \in 0..Nonces /\ expects \in 0..Nonces
      /\ pushes \in 0..MaxPushes /\ inbox \in 0..MaxInbox
  BY EsphomeAssumption DEF Init
<1>5. /\ runPc \in {"off", "opening", "backoff", "ended"}
                   \cup Talking \cup Greeting \cup Closing
      /\ link \in {"none", "up", "gone", "lost"}
      /\ ping \in {"off", "sleep", "send", "dead"}
      /\ stopPc \in {"idle", "stopping", "stopped"}
  BY DEF Init
<1>6. TypeOK
  BY <1>1, <1>2, <1>3, <1>4, <1>5 DEF TypeOK
<1>7. Senders
  BY <1>1 DEF Init, Senders, None
<1>8. Between
  BY <1>1 DEF Init, Between, AllOld
<1>9. HelloFirst /\ InOrder
  BY DEF Init, HelloFirst, InOrder, Live, Greeting, Talking
<1> QED BY <1>6, <1>7, <1>8, <1>9 DEF LockInv

Places == {"off", "opening", "backoff", "ended"} \cup Talking \cup Greeting \cup Closing

(* The task goes from place to place, and nowhere else.                    *)
LEMMA PlacesTyped ==
    ASSUME TypeOK, [Next]_vars
    PROVE  runPc' \in Places /\ stopPc' \in {"idle", "stopping", "stopped"}
<1> USE DEF Goes, AfterSession, taskVars
<1>0. runPc \in Places /\ stopPc \in {"idle", "stopping", "stopped"}
  BY DEF TypeOK, Places
<1>1. CASE UNCHANGED <<runPc, stopPc>>
  BY <1>0, <1>1
<1>2. CASE RunTask
  <2>1. CASE Opens \/ OpenFails \/ BackoffEnds \/ Secured \/ Greeted \/ GreetingFails
    BY <1>0, <2>1 DEF Opens, OpenFails, BackoffEnds, Secured, Greeted, GreetingFails, Places,
                      Greeting
  <2>2. CASE ReadsMessage \/ CallDone \/ ReaderFails
    BY <1>0, <2>2 DEF ReadsMessage, Reads, CallDone, ReaderFails, Places, Talking, Closing
  <2>3. CASE Closes \/ Cancels \/ Aborts
    BY <1>0, <2>3 DEF Closes, Cancels, Aborts, Places, Closing
  <2> QED BY <1>2, <2>1, <2>2, <2>3 DEF RunTask
<1>3. CASE Lock
  <2>1. ASSUME HolderResumes PROVE runPc' \in Places /\ stopPc' = stopPc
    BY <1>0, <2>1 DEF HolderResumes, RunResumes, Places, Talking, Greeting, Closing
  <2>2. CASE Writes \/ Drained
    BY <1>0, <1>1, <2>1, <2>2 DEF Writes, Drained
  <2>3. CASE WriteFails
    BY <1>0, <2>3 DEF WriteFails, Places, Closing
  <2>4. CASE Releases
    BY <1>1, <2>4 DEF Releases
  <2> QED BY <1>3, <2>2, <2>3, <2>4 DEF Lock
<1>4. CASE Start \/ Stop \/ StopReturns
  BY <1>0, <1>4 DEF Start, Stop, StopReturns, Places
<1>5. CASE Pings \/ StateChanged \/ RunPush \/ UNCHANGED vars
  BY <1>1, <1>5 DEF Pings, StateChanged, RunPush, vars
<1>6. CASE Device \/ TcpGivesUp
  BY <1>1, <1>6 DEF Device, DeviceSends, Vanishes, Returns, Resets, TcpGivesUp, LinkChanges
<1> QED BY <1>2, <1>3, <1>4, <1>5, <1>6 DEF Next

(* A closed session leaves the connection and the stream reader empty.     *)
LEMMA ClosedTyped ==
    ASSUME NEW q, ClosesWriter(q)
    PROVE  link' = "none" /\ unacked' = FALSE /\ inbox' = 0 /\ lockQ' = Aged(q)
BY DEF ClosesWriter, Aged

LEMMA LinkTyped ==
    ASSUME TypeOK, [Next]_vars
    PROVE  /\ link' \in {"none", "up", "gone", "lost"} /\ unacked' \in BOOLEAN
           /\ inbox' \in 0..MaxInbox
<1>0. /\ link \in {"none", "up", "gone", "lost"} /\ unacked \in BOOLEAN
      /\ inbox \in 0..MaxInbox /\ MaxInbox \in Nat
  BY EsphomeAssumption DEF TypeOK
<1>1. CASE UNCHANGED <<link, unacked, inbox>>
  BY <1>0, <1>1
<1>2. ASSUME NEW q, ClosesWriter(q)
      PROVE  /\ link' \in {"none", "up", "gone", "lost"} /\ unacked' \in BOOLEAN
             /\ inbox' \in 0..MaxInbox
  <2>1. link' = "none" /\ unacked' = FALSE /\ inbox' = 0
    BY <1>2, ClosedTyped
  <2>2. unacked' \in BOOLEAN
    BY <2>1
  <2> QED BY <1>0, <2>1, <2>2
<1>3. CASE RunTask
  <2>1. CASE Opens
    BY <1>0, <2>1 DEF Opens
  <2>2. CASE OpenFails \/ BackoffEnds \/ Secured \/ CallDone \/ ReaderFails
    BY <1>1, <2>2 DEF OpenFails, BackoffEnds, Secured, CallDone, ReaderFails, linkVars
  <2>3. CASE Greeted \/ ReadsMessage
    <3>1. inbox > 0 /\ inbox' = inbox - 1 /\ link' = link /\ unacked' = unacked
      BY <2>3 DEF Greeted, ReadsMessage, Reads, linkVars
    <3> QED BY <1>0, <3>1
  <2>4. CASE GreetingFails \/ Closes \/ Aborts
    BY <1>2, <2>4 DEF GreetingFails, Closes, Aborts
  <2>5. CASE Cancels
    BY <1>1, <1>2, <2>5 DEF Cancels, linkVars
  <2> QED BY <1>3, <2>1, <2>2, <2>3, <2>4, <2>5 DEF RunTask
<1>4. CASE Lock
  <2>1. CASE Writes
    <3>1. link' = link /\ inbox' = inbox /\ unacked' = (unacked \/ link = "gone")
      BY <2>1 DEF Writes
    <3>2. unacked' \in BOOLEAN
      BY <1>0, <3>1, Zenon
    <3> QED BY <1>0, <3>1, <3>2
  <2>2. CASE Drained \/ Releases
    BY <1>1, <2>2 DEF Drained, Releases, linkVars
  <2>3. CASE WriteFails
    BY <1>1, <1>2, <2>3 DEF WriteFails, linkVars
  <2> QED BY <1>4, <2>1, <2>2, <2>3 DEF Lock
<1>5. CASE Start \/ Stop \/ StopReturns \/ Pings \/ StateChanged \/ RunPush \/ UNCHANGED vars
  BY <1>1, <1>5 DEF Start, Stop, StopReturns, Pings, StateChanged, RunPush, vars, linkVars
<1>6. CASE DeviceSends
  BY <1>0, <1>6 DEF DeviceSends, linkVars
<1>7. ASSUME NEW from, NEW to \in {"up", "gone", "lost"}, LinkChanges(from, to)
      PROVE  /\ link' \in {"none", "up", "gone", "lost"} /\ unacked' \in BOOLEAN
             /\ inbox' \in 0..MaxInbox
  <2>1. link' = to /\ inbox' = inbox /\ unacked' = (to = "gone" /\ draining)
    BY <1>7 DEF LinkChanges
  <2>2. unacked' \in BOOLEAN
    BY <2>1, Zenon
  <2> QED BY <1>0, <2>1, <2>2
<1>8. CASE Vanishes \/ Returns \/ Resets \/ TcpGivesUp
  BY <1>7, <1>8 DEF Vanishes, Returns, Resets, TcpGivesUp
<1> QED BY <1>3, <1>4, <1>5, <1>6, <1>8 DEF Next, Device

LEMMA FlagsTyped ==
    ASSUME TypeOK, [Next]_vars
    PROVE  /\ noise' \in BOOLEAN /\ running' \in BOOLEAN /\ cancelled' \in BOOLEAN
           /\ writer' \in BOOLEAN
<1> USE DEF Goes, taskVars
<1>0. /\ noise \in BOOLEAN /\ running \in BOOLEAN /\ cancelled \in BOOLEAN
      /\ writer \in BOOLEAN
  BY DEF TypeOK
<1>1. noise' = noise
  <2>1. CASE RunTask
    BY <2>1 DEF RunTask, Opens, OpenFails, BackoffEnds, Secured, Greeted, GreetingFails,
                ReadsMessage, Reads, CallDone, ReaderFails, Closes, Cancels, Aborts
  <2>2. CASE Lock
    BY <2>2 DEF Lock, Writes, Drained, WriteFails, Releases, HolderResumes, RunResumes
  <2> QED BY <2>1, <2>2 DEF Next, Start, Stop, StopReturns, Pings, StateChanged, RunPush,
                Device, DeviceSends, Vanishes, Returns, Resets, TcpGivesUp, LinkChanges, vars
<1>2. running' \in BOOLEAN
  <2>1. CASE RunTask
    BY <1>0, <2>1 DEF RunTask, Opens, OpenFails, BackoffEnds, Secured, Greeted, GreetingFails,
                ReadsMessage, Reads, CallDone, ReaderFails, Closes, Cancels, Aborts
  <2>2. CASE Lock
    BY <1>0, <2>2 DEF Lock, Writes, Drained, WriteFails, Releases, HolderResumes, RunResumes
  <2> QED BY <1>0, <2>1, <2>2 DEF Next, Start, Stop, StopBegins, StopReturns, Pings,
                StateChanged, RunPush, Device, DeviceSends, Vanishes, Returns, Resets,
                TcpGivesUp, LinkChanges, vars
<1>3. cancelled' \in BOOLEAN
  <2>1. CASE RunTask
    BY <1>0, <2>1 DEF RunTask, Opens, OpenFails, BackoffEnds, Secured, Greeted, GreetingFails,
                ReadsMessage, Reads, CallDone, ReaderFails, Closes, Cancels, Aborts
  <2>2. CASE Lock
    BY <1>0, <2>2 DEF Lock, Writes, Drained, WriteFails, Releases, HolderResumes, RunResumes
  <2> QED BY <1>0, <2>1, <2>2 DEF Next, Start, Stop, StopReturns, Pings,
                StateChanged, RunPush, Device, DeviceSends, Vanishes, Returns, Resets,
                TcpGivesUp, LinkChanges, vars
<1>4. writer' \in BOOLEAN
  <2>1. CASE RunTask
    BY <1>0, <2>1 DEF RunTask, Opens, OpenFails, BackoffEnds, Secured, Greeted, GreetingFails,
                ReadsMessage, Reads, CallDone, ReaderFails, Closes, Cancels, Aborts,
                ForgetsSession
  <2>2. CASE Lock
    BY <1>0, <2>2 DEF Lock, Writes, Drained, WriteFails, Releases, HolderResumes, RunResumes,
                ForgetsSession
  <2> QED BY <1>0, <2>1, <2>2 DEF Next, Start, Stop, StopReturns, WriterDropped, Pings,
                StateChanged, RunPush, Device, DeviceSends, Vanishes, Returns, Resets,
                TcpGivesUp, LinkChanges, vars
<1> QED BY <1>0, <1>1, <1>2, <1>3, <1>4

(* What a step may do to the lock.  Somebody's frame joins; the holder's   *)
(* goes, and the task may have the next one ready; a cancelled sender's    *)
(* goes; or the connection of all of them is closed.                       *)
Waiters == {"run", "ping", "push"}

LockMoves ==
    \/ lockQ' = lockQ /\ nonce' \in {nonce, 0, After(nonce)}
    \/ \E who \in Waiters : Encodes(who, lockQ)
    \/ lockQ # <<>> /\ lockQ' = Tail(lockQ) /\ nonce' = nonce
    \/ lockQ # <<>> /\ Encodes("run", Tail(lockQ))
    \/ \E who \in Waiters : lockQ' = Without(who, lockQ) /\ nonce' = nonce
    \/ lockQ' = Aged(lockQ) /\ nonce' \in {nonce, 0}
    \/ lockQ # <<>> /\ lockQ' = Aged(Tail(lockQ)) /\ nonce' \in {nonce, 0}
    \/ \E who \in Waiters : lockQ' = Aged(Without(who, lockQ)) /\ nonce' \in {nonce, 0}

LEMMA HolderMoves == ASSUME lockQ # <<>>, HolderResumes PROVE LockMoves
<1>1. CASE lockQ' = Tail(lockQ) /\ nonce' = nonce
  BY <1>1 DEF LockMoves
<1>2. CASE RunResumes(Tail(lockQ))
  <2>1. CASE Encodes("run", Tail(lockQ))
    BY <2>1 DEF LockMoves
  <2>2. CASE ~Encodes("run", Tail(lockQ))
    <3>1. lockQ' = Tail(lockQ) /\ runPc' # "answer"
      BY <1>2, <2>2 DEF RunResumes
    <3>2. nonce' = nonce
      BY <1>2, <3>1 DEF RunResumes, Goes
    <3> QED BY <1>1, <3>1, <3>2
  <2> QED BY <2>1, <2>2
<1> QED BY <1>1, <1>2 DEF HolderResumes

LEMMA StepMoves == ASSUME [Next]_vars PROVE LockMoves
<1> USE DEF Waiters
<1>1. CASE UNCHANGED <<lockQ, nonce>>
  BY <1>1 DEF LockMoves
<1>2. ASSUME NEW who \in Waiters, Encodes(who, lockQ) PROVE LockMoves
  BY <1>2 DEF LockMoves
<1>3. ASSUME NEW q, ClosesWriter(q) PROVE lockQ' = Aged(q)
  BY <1>3 DEF ClosesWriter, Aged
<1>4. CASE RunTask
  <2>1. CASE Opens
    BY <1>1, <1>2, <2>1 DEF Opens
  <2>2. CASE OpenFails \/ BackoffEnds \/ ReaderFails
    BY <1>1, <2>2 DEF OpenFails, BackoffEnds, ReaderFails, lockVars
  <2>3. CASE Secured \/ Greeted \/ CallDone
    BY <1>2, <2>3 DEF Secured, Greeted, CallDone
  <2>4. CASE ReadsMessage
    BY <1>1, <1>2, <2>4 DEF ReadsMessage
  <2>5. CASE GreetingFails
    <3>1. lockQ' = Aged(lockQ) /\ nonce' = 0
      BY <1>3, <2>5 DEF GreetingFails, ForgetsSession
    <3> QED BY <3>1 DEF LockMoves
  <2>6. CASE Closes
    <3>1. lockQ' = Aged(Without("ping", lockQ)) /\ nonce' = 0
      BY <1>3, <2>6 DEF Closes, ForgetsSession
    <3> QED BY <3>1 DEF LockMoves
  <2>7. CASE Aborts
    <3>1. lockQ' = Aged(Without("ping", lockQ)) /\ nonce' = nonce
      BY <1>3, <2>7 DEF Aborts
    <3> QED BY <3>1 DEF LockMoves
  <2>8. CASE Cancels
    <3>1. nonce' = nonce
      BY <2>8 DEF Cancels
    <3>2. lockQ' = Without("run", lockQ) \/ lockQ' = Aged(Without("run", lockQ))
      BY <1>3, <2>8 DEF Cancels
    <3> QED BY <3>1, <3>2 DEF LockMoves
  <2> QED BY <1>4, <2>1, <2>2, <2>3, <2>4, <2>5, <2>6, <2>7, <2>8 DEF RunTask
<1>5. CASE Lock
  <2>1. CASE Writes
    BY <1>1, <2>1, HolderMoves DEF Writes, Connected
  <2>2. CASE Drained
    BY <2>2, HolderMoves DEF Drained, Connected
  <2>3. CASE Releases
    BY <2>3 DEF Releases, LockMoves
  <2>4. CASE WriteFails
    <3>1. lockQ # <<>>
      BY <2>4 DEF WriteFails
    <3>2. CASE lockQ' = Tail(lockQ) /\ nonce' = nonce
      BY <3>1, <3>2 DEF LockMoves
    <3>3. CASE ClosesWriter(Tail(lockQ)) /\ ForgetsSession
      <4>1. lockQ' = Aged(Tail(lockQ)) /\ nonce' = 0
        BY <1>3, <3>3 DEF ForgetsSession
      <4> QED BY <3>1, <4>1 DEF LockMoves
    <3> QED BY <2>4, <3>2, <3>3 DEF WriteFails
  <2> QED BY <1>5, <2>1, <2>2, <2>3, <2>4 DEF Lock
<1>6. CASE Start \/ Stop \/ StopReturns \/ StateChanged \/ UNCHANGED vars
  BY <1>1, <1>6 DEF Start, Stop, StopReturns, StateChanged, vars, lockVars
<1>7. CASE Pings
  BY <1>2, <1>7 DEF Pings
<1>8. CASE RunPush
  <2>1. CASE Encodes("push", lockQ)
    BY <1>2, <2>1
  <2>2. CASE lockQ' = lockQ /\ nonce' \in {nonce, After(nonce)}
    BY <2>2 DEF LockMoves
  <2> QED BY <1>8, <2>1, <2>2 DEF RunPush
<1>9. CASE Device \/ TcpGivesUp
  BY <1>1, <1>9 DEF Device, DeviceSends, Vanishes, Returns, Resets, TcpGivesUp, LinkChanges,
                    lockVars
<1> QED BY <1>4, <1>5, <1>6, <1>7, <1>8, <1>9 DEF Next

(* The frame that is encoded.                                              *)
Frame(who) == [by |-> who, nonce |-> nonce, old |-> runPc = "ended"]

LEMMA FrameTyped ==
    ASSUME nonce \in 0..Nonces, NEW who \in Waiters
    PROVE  /\ Frame(who) \in Entry /\ Frame(who).by = who /\ Frame(who).nonce = nonce
           /\ (Frame(who).old <=> runPc = "ended")
<1>1. (runPc = "ended") \in BOOLEAN
  OBVIOUS
<1> QED BY <1>1 DEF Frame, Entry, Waiters

LEMMA EncodesIs ==
    ASSUME NEW who, NEW q, Encodes(who, q)
    PROVE  lockQ' = Append(q, Frame(who)) /\ nonce' = After(nonce)
BY DEF Encodes, Frame

LEMMA LockTyped == ASSUME TypeOK, [Next]_vars PROVE lockQ' \in Seq(Entry) /\ nonce' \in 0..Nonces
<1>0. lockQ \in Seq(Entry) /\ nonce \in 0..Nonces /\ 0 \in 0..Nonces /\ After(nonce) \in 0..Nonces
  BY EsphomeAssumption, AfterIs DEF TypeOK
<1>1. ASSUME NEW q \in Seq(Entry), NEW who \in Waiters, Encodes(who, q)
      PROVE  lockQ' \in Seq(Entry) /\ nonce' \in 0..Nonces
  <2>1. lockQ' = Append(q, Frame(who)) /\ nonce' = After(nonce)
    BY <1>1, EncodesIs
  <2>2. Frame(who) \in Entry
    BY <1>0, FrameTyped
  <2>3. Append(q, Frame(who)) \in Seq(Entry)
    BY <2>2, AppendIs
  <2> QED BY <1>0, <2>1, <2>3
<1>2. nonce' \in {nonce, 0, After(nonce)}
  BY StepMoves DEF LockMoves, Encodes
<1>3. nonce' \in 0..Nonces
  BY <1>0, <1>2
<1>4. lockQ # <<>> => Tail(lockQ) \in Seq(Entry)
  BY <1>0, TailIs
<1>5. \A who : Without(who, lockQ) \in Seq(Entry)
  BY <1>0, WithoutQ
<1>6. lockQ' \in Seq(Entry)
  <2>1. CASE \E who \in Waiters : Encodes(who, lockQ)
    BY <1>0, <1>1, <2>1
  <2>2. CASE lockQ # <<>> /\ Encodes("run", Tail(lockQ))
    BY <1>1, <1>4, <2>2 DEF Waiters
  <2>3. ASSUME NEW q \in Seq(Entry), lockQ' = q \/ lockQ' = Aged(q) PROVE lockQ' \in Seq(Entry)
    BY <2>3, AgedQ
  <2> QED BY <1>0, <1>4, <1>5, <2>1, <2>2, <2>3, StepMoves DEF LockMoves
<1> QED BY <1>3, <1>6

(* The device's side, the pushes and the drain.                            *)
LEMMA PeerTyped ==
    ASSUME TypeOK, [Next]_vars
    PROVE  /\ expects' \in 0..Nonces /\ inStep' \in BOOLEAN /\ overlong' \in BOOLEAN
           /\ pushes' \in 0..MaxPushes
<1>0. /\ expects \in 0..Nonces /\ 0 \in 0..Nonces /\ After(expects) \in 0..Nonces
      /\ inStep \in BOOLEAN /\ overlong \in BOOLEAN
      /\ pushes \in 0..MaxPushes /\ MaxPushes \in Nat
  BY EsphomeAssumption, AfterIs DEF TypeOK
<1>1. CASE UNCHANGED <<peerVars, pushes>>
  BY <1>0, <1>1 DEF peerVars
<1>2. CASE Opens
  <2>1. expects' = 0 /\ inStep' = TRUE /\ overlong' = FALSE /\ pushes' = pushes
    BY <1>2 DEF Opens
  <2> QED BY <1>0, <2>1
<1>3. CASE Writes
  <2>1. expects' = After(expects) /\ overlong' = overlong /\ pushes' = pushes
    BY <1>3 DEF Writes
  <2>2. inStep' \in BOOLEAN
    BY <1>3, Zenon DEF Writes
  <2> QED BY <1>0, <2>1, <2>2
<1>4. CASE RunPush
  <2>1. /\ pushes > 0 /\ pushes' = pushes - 1
        /\ UNCHANGED <<expects, inStep>>
    BY <1>4 DEF RunPush
  <2>2. overlong' = overlong \/ overlong' = TRUE
    BY <1>4 DEF RunPush
  <2>3. pushes' \in 0..MaxPushes
    BY <1>0, <2>1
  <2>4. overlong' \in BOOLEAN
    BY <1>0, <2>2
  <2> QED BY <1>0, <2>1, <2>3, <2>4
<1>5. CASE StateChanged
  <2>1. pushes < MaxPushes /\ pushes' = pushes + 1 /\ UNCHANGED peerVars
    BY <1>5 DEF StateChanged
  <2>2. pushes' \in 0..MaxPushes
    BY <1>0, <2>1
  <2> QED BY <1>0, <2>1, <2>2 DEF peerVars
<1>6. CASE RunTask /\ ~Opens
  BY <1>1, <1>6 DEF RunTask, OpenFails, BackoffEnds, Secured, Greeted, GreetingFails,
                    ReadsMessage, Reads, CallDone, ReaderFails, Closes, Cancels, Aborts
<1>7. CASE Lock /\ ~Writes
  BY <1>1, <1>7 DEF Lock, Drained, WriteFails, Releases
<1>8. CASE Start \/ Stop \/ StopReturns \/ Pings \/ UNCHANGED vars
  BY <1>1, <1>8 DEF Start, Stop, StopReturns, Pings, vars
<1>9. CASE Device \/ TcpGivesUp
  BY <1>1, <1>9 DEF Device, DeviceSends, Vanishes, Returns, Resets, TcpGivesUp, LinkChanges
<1> QED BY <1>2, <1>3, <1>4, <1>5, <1>6, <1>7, <1>8, <1>9 DEF Next

LEMMA DrainTyped == ASSUME TypeOK, [Next]_vars PROVE draining' \in BOOLEAN
<1>0. draining \in BOOLEAN
  BY DEF TypeOK
<1>1. ASSUME NEW who, draining' = StillDraining(who) PROVE draining' \in BOOLEAN
  BY <1>1, Zenon DEF StillDraining
<1>2. CASE Cancels \/ Closes \/ Aborts
  BY <1>1, <1>2 DEF Cancels, Closes, Aborts
<1>3. CASE RunTask /\ ~(Cancels \/ Closes \/ Aborts)
  BY <1>0, <1>3 DEF RunTask, Opens, OpenFails, BackoffEnds, Secured, Greeted, GreetingFails,
                    ReadsMessage, Reads, CallDone, ReaderFails, lockVars
<1>4. CASE Lock
  BY <1>4 DEF Lock, Writes, Drained, WriteFails, Releases, HolderResumes
<1>5. CASE Start \/ Stop \/ StopReturns \/ Pings \/ StateChanged \/ RunPush \/ UNCHANGED vars
  BY <1>0, <1>5 DEF Start, Stop, StopReturns, Pings, StateChanged, RunPush, vars, lockVars
<1>6. CASE Device \/ TcpGivesUp
  BY <1>0, <1>6 DEF Device, DeviceSends, Vanishes, Returns, Resets, TcpGivesUp, LinkChanges,
                    lockVars
<1> QED BY <1>2, <1>3, <1>4, <1>5, <1>6 DEF Next

PingPlaces == {"off", "sleep", "send", "dead"}

LEMMA PingTyped == ASSUME TypeOK, [Next]_vars PROVE ping' \in PingPlaces
<1> USE DEF PingPlaces
<1>0. ping \in PingPlaces
  BY DEF TypeOK
<1>1. CASE RunTask
  BY <1>0, <1>1 DEF RunTask, Opens, OpenFails, BackoffEnds, Secured, Greeted, GreetingFails,
                    ReadsMessage, Reads, CallDone, ReaderFails, Closes, Cancels, Aborts
<1>2. ASSUME HolderResumes PROVE ping' \in PingPlaces
  BY <1>0, <1>2 DEF HolderResumes, PingResumes, RunResumes
<1>3. CASE Lock
  BY <1>0, <1>2, <1>3 DEF Lock, Writes, Drained, WriteFails, Releases
<1>4. CASE Start \/ Stop \/ StopReturns \/ Pings \/ StateChanged \/ RunPush \/ UNCHANGED vars
  BY <1>0, <1>4 DEF Start, Stop, StopReturns, Pings, StateChanged, RunPush, vars
<1>5. CASE Device \/ TcpGivesUp
  BY <1>0, <1>5 DEF Device, DeviceSends, Vanishes, Returns, Resets, TcpGivesUp, LinkChanges
<1> QED BY <1>1, <1>3, <1>4, <1>5 DEF Next

-----------------------------------------------------------------------------
(* Who waits at the lock.                                                  *)
Waiting == Single(lockQ) /\ Senders

LEMMA WaitingNow == ASSUME TypeOK, Senders PROVE Waiting
<1>1. DOMAIN lockQ = 1..Len(lockQ)
  BY DEF TypeOK
<1> QED BY <1>1 DEF TypeOK, Waiting, Single

(* The queue is left alone.                                                *)
LEMMA WaitSame ==
    ASSUME Waiting, UNCHANGED <<lockQ, draining, ping>>,
           runPc \in Sending => runPc' \in Sending,
           ping # "off" => runPc' \in Talking \cup Closing
    PROVE  Waiting'
BY DEF Waiting, Senders, None

(* Somebody joins.                                                         *)
LEMMA WaitJoin ==
    ASSUME TypeOK, Waiting, NEW who \in Waiters, Encodes(who, lockQ), draining' = draining,
           who # "push" => None(lockQ, who),
           runPc \in Sending \/ who = "run" => runPc' \in Sending,
           ping' = ping \/ (who = "ping" /\ ping = "sleep" /\ ping' = "send"),
           who = "ping" => ping' = "send",
           ping' # "off" => runPc' \in Talking \cup Closing
    PROVE  Waiting'
<1>0. lockQ \in Seq(Entry) /\ nonce \in 0..Nonces
  BY DEF TypeOK
<1>1. Frame(who) \in Entry /\ Frame(who).by = who
  BY <1>0, FrameTyped
<1>2. lockQ' = Append(lockQ, Frame(who))
  BY EncodesIs
<1>3. /\ Single(lockQ')
      /\ \A w : None(lockQ, w) /\ who # w => None(lockQ', w)
      /\ lockQ' # <<>>
  BY <1>0, <1>1, <1>2, JoinQ DEF Waiting
<1>4. runPc' \notin Sending => None(lockQ', "run")
  BY <1>3 DEF Waiting, Senders
<1>5. ping' # "send" => None(lockQ', "ping")
  BY <1>3 DEF Waiting, Senders
<1> QED BY <1>3, <1>4, <1>5 DEF Waiting, Senders

(* The holder's frame is through; it has no other.                         *)
LEMMA WaitTail ==
    ASSUME TypeOK, Waiting, lockQ # <<>>, lockQ' = Tail(lockQ), ~draining',
           runPc' \in Sending \/ runPc \notin Sending \/ Holder.by = "run",
           ping' = "send" \/ ping # "send" \/ Holder.by = "ping",
           ping' # "off" => runPc' \in Talking \cup Closing
    PROVE  Waiting'
<1>0. lockQ \in Seq(Entry)
  BY DEF TypeOK
<1>1. /\ Single(lockQ')
      /\ Holder.by # "push" => None(lockQ', Holder.by)
      /\ \A w : None(lockQ, w) => None(lockQ', w)
  BY <1>0, TailQ DEF Waiting, Holder
<1>2. runPc' \notin Sending => None(lockQ', "run")
  BY <1>1 DEF Waiting, Senders
<1>3. ping' # "send" => None(lockQ', "ping")
  BY <1>1 DEF Waiting, Senders
<1> QED BY <1>1, <1>2, <1>3 DEF Waiting, Senders

(* The session is over, or its task has left the queue: q is what is left. *)
LEMMA WaitLeft ==
    ASSUME NEW q \in Seq(Entry), Single(q), lockQ' = q \/ lockQ' = Aged(q),
           runPc' \notin Sending => None(q, "run"),
           ping' # "send" => None(q, "ping"),
           draining' => q # <<>>,
           ping' # "off" => runPc' \in Talking \cup Closing
    PROVE  Waiting'
<1>1. /\ Single(lockQ')
      /\ \A w : None(q, w) => None(lockQ', w)
      /\ q # <<>> => lockQ' # <<>>
  BY AgedQ
<1> QED BY <1>1 DEF Waiting, Senders

LEMMA TaskWaits == ASSUME TypeOK, Waiting, Between, RunTask PROVE Waiting'
<1> USE DEF Goes
<1>0. lockQ \in Seq(Entry) /\ Single(lockQ) /\ (draining => lockQ # <<>>)
  BY DEF TypeOK, Waiting, Senders
<1>1. /\ ping # "off" => runPc \in Talking \cup Closing
      /\ runPc \notin Sending => None(lockQ, "run")
      /\ ping # "send" => None(lockQ, "ping")
  BY DEF Waiting, Senders
<1>2. "run" \in Waiters
  BY DEF Waiters
<1>3. CASE Opens
  <2>1. runPc = "opening" /\ ping = "off" /\ ping' = ping /\ draining' = draining
    BY <1>1, <1>3 DEF Opens, Talking, Closing
  <2>2. runPc \notin Sending
    BY <2>1 DEF Sending
  <2>3. CASE noise
    <3>1. lockQ' = lockQ
      BY <1>3, <2>3 DEF Opens
    <3> QED BY <2>1, <2>2, <3>1, WaitSame
  <2>4. CASE ~noise
    <3>1. Encodes("run", lockQ) /\ runPc' \in Sending
      BY <1>3, <2>4 DEF Opens, Sending
    <3> QED BY <1>1, <1>2, <2>1, <2>2, <3>1, WaitJoin
  <2> QED BY <2>3, <2>4
<1>4. CASE OpenFails \/ BackoffEnds \/ ReaderFails
  <2>1. /\ UNCHANGED <<lockQ, draining, ping>>
        /\ runPc \in {"opening", "backoff"} \/ (runPc = "reading" /\ runPc' = "closing")
    BY <1>4 DEF OpenFails, BackoffEnds, ReaderFails, lockVars
  <2>2. runPc \notin Sending /\ (ping # "off" => runPc' \in Talking \cup Closing)
    BY <1>1, <2>1 DEF Sending, Talking, Closing
  <2> QED BY <2>1, <2>2, WaitSame
<1>5. CASE Secured \/ Greeted \/ CallDone
  <2>1. /\ Encodes("run", lockQ) /\ ping' = ping /\ draining' = draining
        /\ \/ runPc \in {"securing", "greeting"} /\ runPc' \in {"hello", "subscribe"}
           \/ runPc = "calling" /\ runPc' = "answer"
    BY <1>5 DEF Secured, Greeted, CallDone
  <2>2. runPc \notin Sending /\ runPc' \in Sending
        /\ (ping # "off" => runPc' \in Talking \cup Closing)
    BY <1>1, <2>1 DEF Sending, Talking, Closing
  <2> QED BY <1>1, <1>2, <2>1, <2>2, WaitJoin
<1>6. CASE ReadsMessage
  <2>1. ping' = ping /\ draining' = draining /\ runPc = "reading"
        /\ runPc' \in Talking \cup Closing
    BY <1>6 DEF ReadsMessage, Reads, Talking, Closing
  <2>2. runPc \notin Sending
    BY <2>1 DEF Sending
  <2>3. CASE lockQ' = lockQ
    BY <2>1, <2>2, <2>3, WaitSame
  <2>4. CASE Encodes("run", lockQ) /\ runPc' \in Sending
    BY <1>1, <1>2, <2>1, <2>2, <2>4, WaitJoin
  <2> QED BY <1>6, <2>3, <2>4 DEF ReadsMessage, Reads, Sending
<1>7. CASE GreetingFails
  <2>1. runPc \in {"securing", "greeting"} /\ UNCHANGED <<ping, draining>>
        /\ lockQ' = Aged(lockQ)
    BY <1>7, ClosedTyped DEF GreetingFails
  <2>2. runPc \notin Sending /\ ping = "off"
    BY <1>1, <2>1 DEF Sending, Talking, Closing
  <2> QED BY <1>0, <1>1, <2>1, <2>2, WaitLeft
<1>8. CASE Closes \/ Aborts
  <2>1. /\ runPc \in Closing /\ ping' = "off" /\ draining' = StillDraining("ping")
        /\ lockQ' = Aged(Without("ping", lockQ))
    BY <1>8, ClosedTyped DEF Closes, Aborts, Closing
  <2>2. runPc \notin Sending
    BY <2>1 DEF Sending, Closing
  <2> DEFINE q == Without("ping", lockQ)
  <2>3. q \in Seq(Entry) /\ Single(q) /\ None(q, "ping") /\ None(q, "run")
    BY <1>0, <1>1, <2>2, WithoutQ
  <2>4. draining' => q # <<>>
    BY <1>0, <2>1, WithoutQ DEF StillDraining
  <2> HIDE DEF q
  <2> QED BY <2>1, <2>3, <2>4, WaitLeft DEF q
<1>9. CASE Cancels
  <2> DEFINE q == Without("run", lockQ)
  <2>1. /\ ping' = ping /\ draining' = StillDraining("run")
        /\ lockQ' = q \/ lockQ' = Aged(q)
    BY <1>9, ClosedTyped DEF Cancels
  <2>2. /\ runPc # "closing" /\ ~Bridging => runPc' = "ended"
        /\ Bridging => runPc' = "aborting"
    BY <1>9 DEF Cancels
  <2>3. q \in Seq(Entry) /\ Single(q) /\ None(q, "run")
    BY <1>0, WithoutQ
  <2>4. draining' => q # <<>>
    BY <1>0, <2>1, WithoutQ DEF StillDraining
  <2>5. ping' # "send" => None(q, "ping")
    BY <1>0, <1>1, <2>1, WithoutQ
  <2> HIDE DEF q
  <2>6. CASE ping = "off" \/ Bridging
    <3>1. ping' # "off" => runPc' \in Talking \cup Closing
      BY <2>1, <2>2, <2>6 DEF Closing
    <3> QED BY <2>1, <2>3, <2>4, <2>5, <3>1, WaitLeft
  <2>7. CASE ping # "off" /\ ~Bridging
    BY <1>1, <1>9, <2>7 DEF Cancels, Bridging, Closing, Between
  <2> QED BY <2>6, <2>7
<1> QED BY <1>3, <1>4, <1>5, <1>6, <1>7, <1>8, <1>9 DEF RunTask

(* The holder is done, and the task goes on if it is the holder.           *)
LEMMA HolderWaits == ASSUME TypeOK, Waiting, lockQ # <<>>, HolderResumes PROVE Waiting'
<1>0. /\ ping # "off" => runPc \in Talking \cup Closing
      /\ lockQ \in Seq(Entry) /\ nonce \in 0..Nonces /\ ~draining'
  BY DEF TypeOK, Waiting, Senders, HolderResumes
<1>1. CASE Holder.by = "push" /\ lockQ' = Tail(lockQ) /\ UNCHANGED <<runPc, ping>>
  BY <1>0, <1>1, WaitTail
<1>2. CASE Holder.by = "ping" /\ lockQ' = Tail(lockQ) /\ PingResumes /\ UNCHANGED runPc
  <2>1. ping = "send" /\ ping' = "sleep"
    <3>1. Holder = lockQ[1] /\ 1 \in 1..Len(lockQ)
      BY <1>0, TailIs DEF Holder
    <3>2. ~None(lockQ, "ping")
      BY <1>2, <3>1 DEF None
    <3> QED BY <1>2, <3>2 DEF Waiting, Senders, PingResumes
  <2> QED BY <1>0, <1>2, <2>1, WaitTail
<1>3. CASE Holder.by = "run" /\ RunResumes(Tail(lockQ))
  <2>1. /\ runPc' \in Talking \cup Closing \cup {"greeting"}
        /\ \/ ping' = ping /\ runPc # "hello" /\ runPc' \in Talking \cup Closing
           \/ ping' = ping /\ runPc = "hello"
           \/ ping' = "sleep" /\ runPc = "subscribe" /\ runPc' = "reading"
    BY <1>3 DEF RunResumes, Goes, Talking, Closing
  <2>2. ping' # "off" => runPc' \in Talking \cup Closing
    BY <1>0, <2>1 DEF Talking, Closing
  <2>3. ping' = "send" \/ ping # "send"
    BY <1>0, <2>1 DEF Talking, Closing
  <2>4. CASE lockQ' = Tail(lockQ)
    BY <1>0, <1>3, <2>2, <2>3, <2>4, WaitTail
  <2>5. CASE lockQ' # Tail(lockQ)
    <3>1. Encodes("run", Tail(lockQ)) /\ runPc = "ackQuery" /\ runPc' = "answer" /\ ping' = ping
      BY <1>3, <2>5 DEF RunResumes, Goes
    <3>2. /\ Tail(lockQ) \in Seq(Entry) /\ Single(Tail(lockQ))
          /\ None(Tail(lockQ), "run")
          /\ ping # "send" => None(Tail(lockQ), "ping")
      BY <1>0, <1>3, TailIs, TailQ DEF Waiting, Senders, Holder
    <3>3. Frame("run") \in Entry /\ Frame("run").by = "run"
      BY <1>0, FrameTyped DEF Waiters
    <3>4. lockQ' = Append(Tail(lockQ), Frame("run"))
      BY <3>1, EncodesIs
    <3>5. Single(lockQ') /\ (ping # "send" => None(lockQ', "ping"))
      BY <3>2, <3>3, <3>4, JoinQ
    <3>6. runPc' \in Sending
      BY <3>1 DEF Sending
    <3> QED BY <1>0, <2>2, <3>1, <3>5, <3>6 DEF Waiting, Senders
  <2> QED BY <2>4, <2>5
<1> QED BY <1>1, <1>2, <1>3 DEF HolderResumes, taskVars

LEMMA LockWaits == ASSUME TypeOK, Waiting, Lock PROVE Waiting'
<1>0. /\ ping # "off" => runPc \in Talking \cup Closing
      /\ lockQ \in Seq(Entry) /\ Single(lockQ) /\ draining \in BOOLEAN
      /\ runPc \notin Sending => None(lockQ, "run")
      /\ ping # "send" => None(lockQ, "ping")
  BY DEF TypeOK, Waiting, Senders
<1>1. CASE Writes
  <2>1. CASE HolderResumes
    BY <1>1, <2>1, HolderWaits DEF Writes, Connected
  <2>2. CASE ~HolderResumes
    <3>1. lockQ # <<>> /\ UNCHANGED <<lockQ, runPc, ping>>
      BY <1>1, <2>2 DEF Writes, Connected, taskVars
    <3> QED BY <3>1 DEF Waiting, Senders, None
  <2> QED BY <2>1, <2>2
<1>2. CASE Drained
  BY <1>2, HolderWaits DEF Drained, Connected
<1>3. CASE Releases
  <2>1. lockQ # <<>> /\ lockQ' = Tail(lockQ) /\ ~draining' /\ UNCHANGED <<runPc, ping>>
    BY <1>3 DEF Releases, taskVars
  <2> QED BY <1>0, <2>1, WaitTail
<1>4. CASE WriteFails
  <2>0. lockQ # <<>> /\ ~draining' /\ Holder = lockQ[1] /\ 1 \in 1..Len(lockQ)
    BY <1>0, <1>4, TailIs DEF WriteFails, Holder
  <2>1. CASE Holder.by # "run" /\ lockQ' = Tail(lockQ) /\ UNCHANGED runPc
             /\ ping' = IF Holder.by = "ping" THEN "dead" ELSE ping
    <3>1. Holder.by = "ping" => ping = "send"
      BY <2>0, <1>0 DEF None
    <3>2. ping' # "off" => runPc' \in Talking \cup Closing
      BY <1>0, <2>1, <3>1
    <3> QED BY <2>0, <2>1, <3>2, WaitTail
  <2>2. CASE Holder.by = "run" /\ Bridging /\ runPc' = "closing" /\ lockQ' = Tail(lockQ)
             /\ ping' = ping
    BY <2>0, <2>2, WaitTail DEF Closing
  <2>3. CASE Holder.by = "run" /\ ~Bridging /\ ClosesWriter(Tail(lockQ)) /\ ping' = ping
    <3>1. runPc \in Sending
      BY <2>0, <2>3, <1>0 DEF None
    <3>2. ping = "off"
      BY <1>0, <2>3, <3>1 DEF Sending, Bridging, Closing
    <3>3. /\ Tail(lockQ) \in Seq(Entry) /\ Single(Tail(lockQ))
          /\ None(Tail(lockQ), "run") /\ None(Tail(lockQ), "ping")
      BY <1>0, <2>0, <2>3, <3>2, TailIs, TailQ DEF Holder
    <3>4. lockQ' = Aged(Tail(lockQ))
      BY <2>3, ClosedTyped
    <3> QED BY <2>0, <2>3, <3>2, <3>3, <3>4, WaitLeft
  <2> QED BY <1>4, <2>1, <2>2, <2>3 DEF WriteFails, Goes, taskVars
<1> QED BY <1>1, <1>2, <1>3, <1>4 DEF Lock

LEMMA StepWaits == ASSUME TypeOK, Waiting, Between, [Next]_vars PROVE Waiting'
<1>0. /\ ping # "off" => runPc \in Talking \cup Closing
      /\ ping # "send" => None(lockQ, "ping")
  BY DEF Waiting, Senders
<1>1. CASE RunTask
  BY <1>1, TaskWaits
<1>2. CASE Lock
  BY <1>2, LockWaits
<1>3. CASE UNCHANGED <<lockQ, draining, ping, runPc>>
  BY <1>0, <1>3, WaitSame
<1>4. CASE Start
  <2>1. UNCHANGED <<lockQ, draining, ping>> /\ runPc = "off"
    BY <1>4 DEF Start, lockVars
  <2>2. ping = "off" /\ runPc \notin Sending
    BY <1>0, <2>1 DEF Talking, Closing, Sending
  <2> QED BY <2>1, <2>2, WaitSame
<1>5. CASE Pings
  <2>1. /\ ping = "sleep" /\ ping' = "send" /\ Encodes("ping", lockQ)
        /\ UNCHANGED <<runPc, draining>>
    BY <1>5 DEF Pings, taskVars
  <2> QED BY <1>0, <2>1, WaitJoin DEF Waiters
<1>6. CASE RunPush
  <2>1. UNCHANGED <<runPc, draining, ping>>
    BY <1>6 DEF RunPush, taskVars
  <2>2. CASE Encodes("push", lockQ)
    BY <1>0, <2>1, <2>2, WaitJoin DEF Waiters
  <2>3. CASE lockQ' = lockQ
    BY <1>3, <2>1, <2>3
  <2> QED BY <1>6, <2>2, <2>3 DEF RunPush
<1>7. CASE Stop \/ StopReturns \/ StateChanged \/ UNCHANGED vars
  BY <1>3, <1>7 DEF Stop, StopReturns, StateChanged, taskVars, lockVars, vars
<1>8. CASE Device \/ TcpGivesUp
  BY <1>3, <1>8 DEF Device, DeviceSends, Vanishes, Returns, Resets, TcpGivesUp, LinkChanges,
                    taskVars, lockVars
<1> QED BY <1>1, <1>2, <1>4, <1>5, <1>6, <1>7, <1>8 DEF Next

(* So the types are kept, and only pushes have more than one frame there.  *)
LEMMA StepTyped == ASSUME TypeOK, Senders, Between, Inv', [Next]_vars PROVE TypeOK' /\ Senders'
<1>1. Waiting'
  BY WaitingNow, StepWaits
<1>2. lockQ' \in Seq(Entry) /\ nonce' \in 0..Nonces
  BY LockTyped
<1>3. DOMAIN lockQ' = 1..Len(lockQ')
  BY <1>2
<1>4. \A i, j \in DOMAIN lockQ' :
        i # j /\ lockQ'[i].by = lockQ'[j].by => lockQ'[i].by = "push"
  BY <1>1, <1>3 DEF Waiting, Single
<1>5. LifecycleTypeOK'
  <2>1. bleClientConnected' \in BOOLEAN /\ stateUnsub' = bleClientConnected'
    BY DEF Inv, Upheld
  <2> QED BY <2>1 DEF LifecycleTypeOK
<1>6. TypeOK'
  BY <1>2, <1>4, <1>5, PlacesTyped, LinkTyped, FlagsTyped, PeerTyped, DrainTyped, PingTyped
     DEF TypeOK, Places, PingPlaces
<1> QED BY <1>1, <1>6 DEF Waiting

-----------------------------------------------------------------------------
(* Between two sessions.                                                   *)

LEMMA OldTail == ASSUME NEW q \in Seq(Entry), q # <<>>, AllOld(q) PROVE AllOld(Tail(q))
<1> SUFFICES ASSUME NEW i \in 1..Len(Tail(q)) PROVE Tail(q)[i].old
  BY DEF AllOld
<1>1. i + 1 \in 1..Len(q) /\ Tail(q)[i] = q[i + 1]
  BY TailIs
<1> QED BY <1>1 DEF AllOld

LEMMA OldJoin ==
    ASSUME NEW q \in Seq(Entry), NEW e \in Entry, e.old, AllOld(q) PROVE AllOld(Append(q, e))
BY AppendIs DEF AllOld

(* Where the session is over its frames are told so.                       *)
LEMMA OldClosed ==
    ASSUME NEW q \in Seq(Entry), ClosesWriter(q) PROVE AllOld(lockQ')
BY ClosedTyped, AgedQ DEF AllOld

LEMMA OldStays ==
    ASSUME TypeOK, Between, Inv, Senders, Inv', [Next]_vars, link' = "none"
    PROVE  AllOld(lockQ')
<1>0. /\ lockQ \in Seq(Entry) /\ nonce \in 0..Nonces
      /\ runPc \in Places
      /\ lockQ # <<>> => Tail(lockQ) \in Seq(Entry)
      /\ \A who : Without(who, lockQ) \in Seq(Entry)
  BY TailIs, WithoutQ DEF TypeOK, Places
<1>1. ASSUME link = "none" PROVE AllOld(lockQ) /\ runPc \in {"off", "opening", "backoff", "ended"}
  BY <1>0, <1>1 DEF Between, Inv, Upheld, InSession, Places
<1>2. CASE link = "none" /\ lockQ' = lockQ
  BY <1>1, <1>2
<1>3. CASE RunTask
  <2>1. CASE GreetingFails \/ Closes \/ Aborts
    BY <1>0, <2>1, OldClosed DEF GreetingFails, Closes, Aborts
  <2>2. CASE Cancels
    <3>1. CASE Bridging
      <4>1. link = "none"
        BY <2>2, <3>1 DEF Cancels, linkVars
      <4> QED BY <1>1, <3>1, <4>1 DEF Bridging, Talking
    <3>2. CASE ~Bridging
      BY <1>0, <2>2, <3>2, OldClosed DEF Cancels
    <3> QED BY <3>1, <3>2
  <2>3. CASE OpenFails \/ BackoffEnds \/ ReaderFails
    BY <1>2, <2>3 DEF OpenFails, BackoffEnds, ReaderFails, linkVars, lockVars
  <2>4. CASE Opens
    BY <2>4 DEF Opens
  <2>5. CASE Secured \/ Greeted \/ ReadsMessage \/ CallDone
    <3>1. link' = link /\ runPc \in {"securing", "greeting", "reading", "calling"}
      BY <2>5 DEF Secured, Greeted, ReadsMessage, Reads, CallDone, Goes, linkVars
    <3> QED BY <1>1, <3>1
  <2> QED BY <1>3, <2>1, <2>2, <2>3, <2>4, <2>5 DEF RunTask
<1>4. CASE Lock
  <2>1. ASSUME lockQ # <<>>, HolderResumes, link = "none" PROVE AllOld(lockQ')
    <3>1. CASE lockQ' = Tail(lockQ)
      BY <1>0, <1>1, <2>1, <3>1, OldTail
    <3>2. CASE RunResumes(Tail(lockQ))
      <4>1. runPc \in Talking \cup Greeting
        BY <3>2 DEF RunResumes, Goes, Talking, Greeting
      <4> QED BY <1>1, <2>1, <4>1 DEF Talking, Greeting
    <3> QED BY <2>1, <3>1, <3>2 DEF HolderResumes
  <2>2. CASE Writes
    <3>1. lockQ # <<>> /\ link = "none" /\ (HolderResumes \/ lockQ' = lockQ)
      BY <2>2 DEF Writes, Connected
    <3> QED BY <1>2, <2>1, <3>1
  <2>3. CASE Drained
    BY <2>1, <2>3 DEF Drained, Connected, linkVars
  <2>4. CASE WriteFails
    <3>1. link = "lost" /\ lockQ # <<>>
      BY <2>4 DEF WriteFails
    <3>2. ClosesWriter(Tail(lockQ))
      BY <2>4, <3>1 DEF WriteFails, linkVars
    <3> QED BY <1>0, <3>1, <3>2, OldClosed
  <2>5. CASE Releases
    BY <1>0, <1>1, <2>5, OldTail DEF Releases, linkVars
  <2> QED BY <1>4, <2>2, <2>3, <2>4, <2>5 DEF Lock
<1>5. CASE Start \/ Stop \/ StopReturns \/ StateChanged \/ UNCHANGED vars
  BY <1>2, <1>5 DEF Start, Stop, StopReturns, StateChanged, vars, linkVars, lockVars
<1>6. CASE Pings
  <2>1. link = "none" /\ ping = "sleep"
    BY <1>6 DEF Pings, linkVars
  <2> QED BY <1>1, <2>1 DEF Senders, Talking, Closing
<1>7. CASE RunPush
  <2>1. link = "none"
    BY <1>7 DEF RunPush, linkVars
  <2>2. CASE writer /\ Encodes("push", lockQ)
    <3>1. runPc = "ended"
      BY <1>1, <2>1, <2>2 DEF Between
    <3>2. Frame("push") \in Entry /\ Frame("push").old
      BY <1>0, <3>1, FrameTyped DEF Waiters
    <3>3. lockQ' = Append(lockQ, Frame("push"))
      BY <2>2, EncodesIs
    <3> QED BY <1>0, <1>1, <2>1, <3>2, <3>3, OldJoin
  <2> QED BY <1>2, <1>7, <2>1, <2>2 DEF RunPush
<1>8. CASE Device \/ TcpGivesUp
  <2>1. link = "none" /\ lockQ' = lockQ
    BY <1>8 DEF Device, DeviceSends, Vanishes, Returns, Resets, TcpGivesUp, LinkChanges,
                linkVars, lockVars
  <2> QED BY <1>2, <2>1
<1> QED BY <1>3, <1>4, <1>5, <1>6, <1>7, <1>8 DEF Next

Idle == {"off", "opening", "backoff"}

(* Where no session is, there is no writer, and the next nonce is 0.       *)
LEMMA IdleStays ==
    ASSUME TypeOK, Between, Inv, Senders, [Next]_vars, runPc' \in Idle
    PROVE  ~writer' /\ nonce' = 0
<1> USE DEF Idle, Goes
<1>1. CASE runPc \in Idle /\ UNCHANGED <<writer, nonce>>
  BY <1>1 DEF Between
<1>2. CASE ForgetsSession
  BY <1>2 DEF ForgetsSession
<1>3. CASE RunTask
  <2>1. CASE OpenFails \/ BackoffEnds
    BY <1>1, <2>1 DEF OpenFails, BackoffEnds, lockVars
  <2>2. CASE GreetingFails \/ Closes
    BY <1>2, <2>2 DEF GreetingFails, Closes
  <2>3. CASE Opens \/ Secured \/ Greeted \/ ReadsMessage \/ CallDone \/ ReaderFails \/ Cancels
             \/ Aborts
    BY <2>3 DEF Opens, Secured, Greeted, ReadsMessage, Reads, CallDone, ReaderFails, Cancels,
                Aborts
  <2> QED BY <1>3, <2>1, <2>2, <2>3 DEF RunTask
<1>4. CASE Lock
  <2>1. ASSUME HolderResumes PROVE runPc \in Idle /\ nonce' = nonce
    BY <2>1 DEF HolderResumes, RunResumes, taskVars
  <2>2. CASE Writes
    <3>1. writer' = writer /\ (HolderResumes \/ UNCHANGED <<runPc, nonce>>)
      BY <2>2 DEF Writes, taskVars
    <3> QED BY <1>1, <2>1, <3>1
  <2>3. CASE Drained
    BY <1>1, <2>1, <2>3 DEF Drained
  <2>4. CASE WriteFails
    <3>1. CASE UNCHANGED <<runPc, writer, nonce>>
      BY <1>1, <3>1
    <3>2. CASE Goes(runPc, "closing")
      BY <3>2
    <3> QED BY <1>2, <2>4, <3>1, <3>2 DEF WriteFails, taskVars
  <2>5. CASE Releases
    BY <1>1, <2>5 DEF Releases, taskVars
  <2> QED BY <1>4, <2>2, <2>3, <2>4, <2>5 DEF Lock
<1>5. CASE Start \/ Stop \/ StateChanged \/ UNCHANGED vars
  BY <1>1, <1>5 DEF Start, Stop, StateChanged, vars, lockVars, taskVars
<1>6. CASE StopReturns
  BY <1>6 DEF StopReturns
<1>7. CASE Pings
  BY <1>7 DEF Pings, Senders, taskVars, Talking, Closing
<1>8. CASE RunPush
  <2>1. runPc \in Idle /\ writer' = writer
    BY <1>8 DEF RunPush, taskVars
  <2>2. ~writer
    BY <2>1 DEF Between
  <2>3. nonce' = nonce
    BY <1>8, <2>2 DEF RunPush
  <2> QED BY <1>1, <2>1, <2>3
<1>9. CASE Device \/ TcpGivesUp
  BY <1>1, <1>9 DEF Device, DeviceSends, Vanishes, Returns, Resets, TcpGivesUp, LinkChanges,
                    lockVars, taskVars
<1> QED BY <1>3, <1>4, <1>5, <1>6, <1>7, <1>8, <1>9 DEF Next

(* Once stop() has returned no writer is made.                             *)
LEMMA DroppedStays ==
    ASSUME Between, Inv, [Next]_vars, stopPc' = "stopped" PROVE ~writer'
<1> USE DEF Goes
<1>1. CASE stopPc = "stopped" /\ writer' = writer
  BY <1>1 DEF Between
<1>2. stopPc = "stopped" => runPc = "ended"
  BY DEF Inv, StopCut
<1>3. CASE StopReturns
  BY <1>3 DEF StopReturns, WriterDropped
<1>4. CASE RunTask
  <2>1. stopPc = "stopped"
    BY <1>4 DEF RunTask, Opens, OpenFails, BackoffEnds, Secured, Greeted, GreetingFails,
                ReadsMessage, Reads, CallDone, ReaderFails, Closes, Cancels, Aborts
  <2>2. ~Opens /\ ~GreetingFails /\ ~Closes
    BY <1>2, <2>1 DEF Opens, GreetingFails, Closes
  <2>3. writer' = writer
    BY <1>4, <2>2 DEF RunTask, OpenFails, BackoffEnds, Secured, Greeted, ReadsMessage, Reads,
                      CallDone, ReaderFails, Cancels, Aborts
  <2> QED BY <1>1, <2>1, <2>3
<1>5. CASE Lock
  <2>1. ASSUME HolderResumes PROVE stopPc' = stopPc
    BY <2>1 DEF HolderResumes, RunResumes, taskVars
  <2>2. CASE Writes \/ Drained
    BY <1>1, <2>1, <2>2 DEF Writes, Drained, taskVars
  <2>3. CASE WriteFails
    BY <1>1, <2>3 DEF WriteFails, taskVars, ForgetsSession
  <2>4. CASE Releases
    BY <1>1, <2>4 DEF Releases, taskVars
  <2> QED BY <1>5, <2>2, <2>3, <2>4 DEF Lock
<1>6. CASE Start \/ StateChanged \/ Pings \/ RunPush \/ UNCHANGED vars
  BY <1>1, <1>6 DEF Start, StateChanged, Pings, RunPush, vars, taskVars
<1>7. CASE Stop
  BY <1>7 DEF Stop
<1>8. CASE Device \/ TcpGivesUp
  BY <1>1, <1>8 DEF Device, DeviceSends, Vanishes, Returns, Resets, TcpGivesUp, LinkChanges,
                    taskVars
<1> QED BY <1>3, <1>4, <1>5, <1>6, <1>7, <1>8 DEF Next

(* The cancellation has been taken when the session is aborted.            *)
LEMMA AbortStays ==
    ASSUME Between, Inv, [Next]_vars, runPc' = "aborting"
    PROVE  ~cancelled' /\ stopPc' # "idle"
<1> USE DEF Goes
<1>1. CASE UNCHANGED <<runPc, cancelled, stopPc>>
  BY <1>1 DEF Between
<1>2. CASE RunTask
  <2>1. CASE Cancels
    BY <2>1 DEF Cancels, Inv, StopCut
  <2>2. CASE ~Cancels
    BY <1>2, <2>2 DEF RunTask, Opens, OpenFails, BackoffEnds, Secured, Greeted, GreetingFails,
                AfterSession, ReadsMessage, Reads, CallDone, ReaderFails, Closes, Aborts
  <2> QED BY <2>1, <2>2
<1>3. CASE Lock
  <2>1. ASSUME HolderResumes PROVE UNCHANGED <<runPc, cancelled, stopPc>>
    BY <2>1 DEF HolderResumes, RunResumes, taskVars
  <2>2. CASE Writes \/ Drained
    BY <1>1, <2>1, <2>2 DEF Writes, Drained, taskVars
  <2>3. CASE WriteFails
    BY <1>1, <2>3 DEF WriteFails, AfterSession, taskVars
  <2>4. CASE Releases
    BY <1>1, <2>4 DEF Releases, taskVars
  <2> QED BY <1>3, <2>2, <2>3, <2>4 DEF Lock
<1>4. CASE Start
  BY <1>4 DEF Start
<1>5. CASE StateChanged \/ Pings \/ RunPush \/ UNCHANGED vars
  BY <1>1, <1>5 DEF StateChanged, Pings, RunPush, vars, taskVars
<1>6. CASE Stop
  BY <1>6 DEF Stop, Between
<1>7. CASE StopReturns
  BY <1>7 DEF StopReturns
<1>8. CASE Device \/ TcpGivesUp
  BY <1>1, <1>8 DEF Device, DeviceSends, Vanishes, Returns, Resets, TcpGivesUp, LinkChanges,
                    taskVars
<1> QED BY <1>2, <1>3, <1>4, <1>5, <1>6, <1>7, <1>8 DEF Next

LEMMA BetweenStep ==
    ASSUME TypeOK, Between, Inv, Senders, Inv', [Next]_vars PROVE Between'
<1>1. runPc' \in {"off", "opening", "backoff"} => ~writer' /\ nonce' = 0
  BY IdleStays DEF Idle
<1>2. link' = "none" => AllOld(lockQ')
  BY OldStays
<1>3. stopPc' = "stopped" => ~writer'
  BY DroppedStays
<1>4. runPc' = "aborting" => ~cancelled' /\ stopPc' # "idle"
  BY AbortStays
<1> QED BY <1>1, <1>2, <1>3, <1>4 DEF Between

-----------------------------------------------------------------------------
(* The hello comes first.                                                  *)

(* Nothing is pushed before there is a client.                             *)
LEMMA PushesStay ==
    ASSUME TypeOK, HelloFirst, Inv, [Next]_vars, runPc' \in {"off", "opening"} \cup Greeting
    PROVE  pushes' = 0
<1> USE DEF Goes, Greeting
<1>0. pushes \in Nat
  BY EsphomeAssumption DEF TypeOK
<1>1. CASE runPc \in {"off", "opening"} \cup Greeting /\ pushes' = pushes
  BY <1>1 DEF HelloFirst
<1>2. CASE RunTask
  <2>1. CASE Opens \/ Secured \/ Greeted
    BY <1>1, <2>1 DEF Opens, Secured, Greeted
  <2>2. CASE BackoffEnds
    BY <2>2 DEF BackoffEnds
  <2>3. CASE OpenFails \/ GreetingFails \/ Closes \/ Cancels \/ Aborts \/ ReadsMessage
             \/ CallDone \/ ReaderFails
    BY <2>3 DEF OpenFails, GreetingFails, AfterSession, Closes, Cancels, Aborts, ReadsMessage,
                Reads, CallDone, ReaderFails
  <2> QED BY <1>2, <2>1, <2>2, <2>3 DEF RunTask
<1>3. CASE Lock
  <2>1. ASSUME HolderResumes PROVE runPc \in {"off", "opening"} \cup Greeting
    BY <2>1 DEF HolderResumes, RunResumes, taskVars
  <2>2. CASE Writes \/ Drained
    BY <1>1, <2>1, <2>2 DEF Writes, Drained, taskVars
  <2>3. CASE WriteFails \/ Releases
    BY <1>1, <2>3 DEF WriteFails, AfterSession, Releases, taskVars
  <2> QED BY <1>3, <2>2, <2>3 DEF Lock
<1>4. CASE Start \/ Stop \/ StopReturns \/ Pings \/ UNCHANGED vars
  BY <1>1, <1>4 DEF Start, Stop, StopReturns, Pings, vars, taskVars
<1>5. CASE StateChanged
  <2>1. runPc' = runPc /\ stateUnsub
    BY <1>5 DEF StateChanged, taskVars
  <2> QED BY <2>1 DEF Inv, Upheld, Talking
<1>6. CASE RunPush
  <2>1. runPc' = runPc /\ pushes > 0
    BY <1>6 DEF RunPush, taskVars
  <2> QED BY <1>0, <2>1 DEF HelloFirst
<1>7. CASE Device \/ TcpGivesUp
  BY <1>1, <1>7 DEF Device, DeviceSends, Vanishes, Returns, Resets, TcpGivesUp, LinkChanges,
                    taskVars
<1> QED BY <1>2, <1>3, <1>4, <1>5, <1>6, <1>7 DEF Next

(* So none is pushed before the session has begun, and none can be too     *)
(* long.                                                                   *)
LEMMA NoPush ==
    ASSUME TypeOK, HelloFirst, runPc \in {"off", "opening"} \cup Greeting PROVE ~RunPush
<1>1. pushes = 0
  BY DEF HelloFirst
<1> QED BY <1>1 DEF RunPush

LEMMA FitsStays ==
    ASSUME TypeOK, HelloFirst, Inv, [Next]_vars, runPc' \in Greeting PROVE ~overlong'
<1> USE DEF Goes, Greeting
<1>1. CASE runPc \in Greeting /\ overlong' = overlong
  BY <1>1 DEF HelloFirst
<1>2. CASE RunTask
  <2>1. CASE Opens
    BY <2>1 DEF Opens
  <2>2. CASE Secured \/ Greeted
    BY <1>1, <2>2 DEF Secured, Greeted, peerVars
  <2>3. CASE OpenFails \/ BackoffEnds \/ GreetingFails \/ Closes \/ Cancels \/ Aborts
             \/ ReadsMessage \/ CallDone \/ ReaderFails
    BY <2>3 DEF OpenFails, BackoffEnds, GreetingFails, AfterSession, Closes, Cancels, Aborts,
                ReadsMessage, Reads, CallDone, ReaderFails
  <2> QED BY <1>2, <2>1, <2>2, <2>3 DEF RunTask
<1>3. CASE Lock
  <2>1. ASSUME HolderResumes PROVE runPc \in Greeting
    BY <2>1 DEF HolderResumes, RunResumes, taskVars
  <2>2. CASE Writes \/ Drained
    BY <1>1, <2>1, <2>2 DEF Writes, Drained, taskVars, peerVars
  <2>3. CASE WriteFails \/ Releases
    BY <1>1, <2>3 DEF WriteFails, AfterSession, Releases, taskVars, peerVars
  <2> QED BY <1>3, <2>2, <2>3 DEF Lock
<1>4. CASE Start \/ Stop \/ StopReturns \/ Pings \/ StateChanged \/ UNCHANGED vars
  BY <1>1, <1>4 DEF Start, Stop, StopReturns, Pings, StateChanged, vars, taskVars, peerVars
<1>5. CASE RunPush
  <2>1. runPc' = runPc
    BY <1>5 DEF RunPush, taskVars
  <2> QED BY <1>5, <2>1, NoPush
<1>6. CASE Device \/ TcpGivesUp
  BY <1>1, <1>6 DEF Device, DeviceSends, Vanishes, Returns, Resets, TcpGivesUp, LinkChanges,
                    taskVars, peerVars
<1> QED BY <1>2, <1>3, <1>4, <1>5, <1>6 DEF Next

(* While the keys are worked out, and until the hello is through, frames   *)
(* only leave the lock.                                                    *)
Greets(q, n) ==
    IF runPc = "securing" THEN n = 0 /\ AllOld(q)
    ELSE n # 0 /\ \A i \in 1..Len(q) : ~q[i].old => q[i].by = "run"

LEMMA FirstStays ==
    ASSUME TypeOK, Senders, HelloFirst, Inv, [Next]_vars,
           runPc \in {"securing", "hello"}, runPc' = runPc
    PROVE  Greets(lockQ', nonce')
<1> USE DEF Goes
<1>0. Greets(lockQ, nonce) /\ lockQ \in Seq(Entry)
  BY DEF Greets, HelloFirst, TypeOK
<1>1. CASE lockQ' = lockQ /\ nonce' = nonce
  BY <1>0, <1>1
<1>2. CASE lockQ # <<>> /\ lockQ' = Tail(lockQ) /\ nonce' = nonce
  <2>1. \A i \in 1..Len(lockQ') : i + 1 \in 1..Len(lockQ) /\ lockQ'[i] = lockQ[i + 1]
    BY <1>0, <1>2, TailIs
  <2>2. \A i \in 1..Len(lockQ') : \E j \in 1..Len(lockQ) : lockQ'[i] = lockQ[j]
    BY <2>1
  <2> QED BY <1>0, <1>2, <2>2 DEF Greets, AllOld
<1>3. CASE RunTask
  <2>1. Greeting \cap Talking = {}
    BY DEF Greeting, Talking
  <2> QED BY <1>3, <2>1 DEF RunTask, Opens, OpenFails, BackoffEnds, Secured, Greeted,
          GreetingFails, AfterSession, ReadsMessage, Reads, CallDone, ReaderFails, Closes,
          Cancels, Aborts
<1>4. CASE Lock
  <2>1. ASSUME lockQ # <<>>, HolderResumes PROVE lockQ' = Tail(lockQ) /\ nonce' = nonce
    BY <2>1 DEF HolderResumes, RunResumes
  <2>2. CASE Writes
    <3>1. lockQ # <<>> /\ (HolderResumes \/ UNCHANGED <<lockQ, nonce>>)
      BY <2>2 DEF Writes, Connected
    <3> QED BY <1>1, <1>2, <2>1, <3>1
  <2>3. CASE Drained
    BY <1>2, <2>1, <2>3 DEF Drained, Connected
  <2>4. CASE WriteFails
    BY <1>2, <2>4 DEF WriteFails, AfterSession
  <2>5. CASE Releases
    BY <1>2, <2>5 DEF Releases
  <2> QED BY <1>4, <2>2, <2>3, <2>4, <2>5 DEF Lock
<1>5. CASE Start \/ Stop \/ StopReturns \/ StateChanged \/ UNCHANGED vars
  BY <1>1, <1>5 DEF Start, Stop, StopReturns, StateChanged, vars, lockVars
<1>6. CASE Pings
  BY <1>6 DEF Pings, Senders, Talking, Closing
<1>7. CASE RunPush
  BY <1>7, NoPush DEF Greeting
<1>8. CASE Device \/ TcpGivesUp
  BY <1>1, <1>8 DEF Device, DeviceSends, Vanishes, Returns, Resets, TcpGivesUp, LinkChanges,
                    lockVars
<1> QED BY <1>3, <1>4, <1>5, <1>6, <1>7, <1>8 DEF Next

(* The hello joins a queue of older frames, with nonce 0.                  *)
LEMMA HelloJoins ==
    ASSUME TypeOK, nonce = 0, AllOld(lockQ), Encodes("run", lockQ)
    PROVE  nonce' # 0 /\ \A i \in 1..Len(lockQ') : ~lockQ'[i].old => lockQ'[i].by = "run"
<1>0. lockQ \in Seq(Entry) /\ nonce \in 0..Nonces
  BY DEF TypeOK
<1>1. Frame("run") \in Entry /\ Frame("run").by = "run"
  BY <1>0, FrameTyped DEF Waiters
<1>2. lockQ' = Append(lockQ, Frame("run")) /\ nonce' = After(nonce)
  BY EncodesIs
<1>3. nonce' # 0
  BY <1>0, <1>2, AfterIs
<1>4. /\ Len(lockQ') = Len(lockQ) + 1 /\ Len(lockQ) \in Nat
      /\ \A i \in 1..Len(lockQ) : lockQ'[i] = lockQ[i]
      /\ lockQ'[Len(lockQ) + 1] = Frame("run")
  BY <1>0, <1>1, <1>2, AppendIs
<1>5. ASSUME NEW i \in 1..Len(lockQ'), ~lockQ'[i].old PROVE lockQ'[i].by = "run"
  <2>1. CASE i \in 1..Len(lockQ)
    BY <1>4, <1>5, <2>1 DEF AllOld
  <2>2. CASE i = Len(lockQ) + 1
    BY <1>1, <1>4, <2>2
  <2> QED BY <1>4, <2>1, <2>2
<1> QED BY <1>3, <1>5

LEMMA OpeningIs ==
    ASSUME Between, Inv, runPc = "opening" PROVE nonce = 0 /\ AllOld(lockQ) /\ ~writer
<1>1. link = "none"
  BY DEF Inv, Upheld, InSession, Talking, Greeting, Closing
<1> QED BY <1>1 DEF Between

(* The places that only the task itself goes to.                           *)
LEMMA OnlyTask ==
    ASSUME [Next]_vars, runPc' \in {"securing", "hello"}, runPc' # runPc
    PROVE  Opens \/ Secured
<1> USE DEF Goes
<1>1. CASE RunTask
  BY <1>1 DEF RunTask, Opens, OpenFails, BackoffEnds, Secured, Greeted,
          GreetingFails, AfterSession, ReadsMessage, Reads, CallDone, ReaderFails, Closes,
          Cancels, Aborts
<1>2. CASE Lock
  BY <1>2 DEF Lock, Writes, Drained, WriteFails, AfterSession, Releases, HolderResumes,
              RunResumes, taskVars
<1>3. CASE Start \/ Stop \/ StopReturns \/ Pings \/ StateChanged \/ RunPush \/ UNCHANGED vars
  BY <1>3 DEF Start, Stop, StopReturns, Pings, StateChanged, RunPush, vars, taskVars
<1>4. CASE Device \/ TcpGivesUp
  BY <1>4 DEF Device, DeviceSends, Vanishes, Returns, Resets, TcpGivesUp, LinkChanges, taskVars
<1> QED BY <1>1, <1>2, <1>3, <1>4 DEF Next

LEMMA FirstArrives ==
    ASSUME TypeOK, Between, HelloFirst, Inv, [Next]_vars,
           runPc' \in {"securing", "hello"}, runPc' # runPc
    PROVE  /\ runPc' = "securing" => nonce' = 0 /\ AllOld(lockQ')
           /\ runPc' = "hello" =>
                /\ nonce' # 0
                /\ \A i \in 1..Len(lockQ') : ~lockQ'[i].old => lockQ'[i].by = "run"
<1>1. CASE Opens
  <2>1. nonce = 0 /\ AllOld(lockQ)
    BY <1>1, OpeningIs DEF Opens, Goes
  <2>2. CASE noise
    BY <1>1, <2>1, <2>2 DEF Opens, Goes
  <2>3. CASE ~noise
    BY <1>1, <2>1, <2>3, HelloJoins DEF Opens, Goes
  <2> QED BY <2>2, <2>3
<1>2. CASE Secured
  <2>1. nonce = 0 /\ AllOld(lockQ) /\ Encodes("run", lockQ) /\ runPc' = "hello"
    BY <1>2 DEF Secured, Goes, HelloFirst
  <2> QED BY <2>1, HelloJoins
<1> QED BY <1>1, <1>2, OnlyTask

(* Once the hello is through, the device expects another nonce than 0.     *)
Answered == Talking \cup {"greeting", "subscribe"}

LEMMA AnsweredStays ==
    ASSUME TypeOK, Senders, HelloFirst, InOrder, Inv, [Next]_vars, runPc' \in Answered
    PROVE  expects' # 0
<1> USE DEF Goes, Answered
<1>0. expects \in 0..Nonces /\ After(expects) # 0
  BY AfterIs DEF TypeOK
<1>1. CASE runPc \in Answered /\ expects' = expects
  BY <1>1 DEF HelloFirst
<1>2. CASE RunTask
  <2>1. CASE Greeted \/ ReadsMessage \/ CallDone
    BY <1>1, <2>1 DEF Greeted, ReadsMessage, Reads, CallDone, Talking, peerVars
  <2>2. CASE ~(Greeted \/ ReadsMessage \/ CallDone)
    BY <1>2, <2>2 DEF RunTask, Opens, OpenFails, BackoffEnds, Secured, GreetingFails,
                      AfterSession, ReaderFails, Closes, Cancels, Aborts, Talking
  <2> QED BY <2>1, <2>2
<1>3. CASE Writes
  BY <1>0, <1>3 DEF Writes
<1>4. CASE Drained
  <2>1. expects' = expects /\ lockQ # <<>> /\ ~Holder.old /\ draining /\ link = "up"
    BY <1>4 DEF Drained, Connected, peerVars
  <2>2. CASE runPc \in Answered
    BY <1>1, <2>1, <2>2
  <2>3. CASE runPc \notin Answered
    <3>1. runPc = "hello" /\ Holder.by = "run"
      BY <1>4, <2>3 DEF Drained, HolderResumes, RunResumes, taskVars, Talking
    <3>2. lockQ \in Seq(Entry) /\ Holder = lockQ[1] /\ Len(lockQ) \in Nat \ {0}
      BY <2>1, TailIs DEF TypeOK, Holder
    <3>3. ~overlong
      BY <3>1 DEF HelloFirst, Greeting
    <3>4. OldAhead(lockQ) /\ Awaits(lockQ, nonce, TRUE, expects)
      <4>1. draining = TRUE
        BY <2>1 DEF TypeOK
      <4> QED BY <2>1, <3>1, <3>3, <4>1 DEF InOrder, Live, Greeting
    <3>5. expects = NonceBehind(lockQ, nonce, 1)
      <4>1. Split(lockQ, 0) /\ 0 \in 0..Len(lockQ)
        BY <2>1, <3>2 DEF Split
      <4> QED BY <3>4, <4>1 DEF Awaits
    <3>6. Len(lockQ) = 1
      <4> SUFFICES ASSUME Len(lockQ) # 1 PROVE FALSE
        OBVIOUS
      <4>0. 1 \in 1..Len(lockQ) /\ 2 \in 1..Len(lockQ)
        <5>1. ASSUME NEW n \in Nat \ {0}, n # 1 PROVE 1 \in 1..n /\ 2 \in 1..n
          BY <5>1
        <5>2. Len(lockQ) \in Nat \ {0}
          BY <3>2
        <5> QED BY <5>1, <5>2
      <4>1. ~lockQ[2].old
        BY <2>1, <3>2, <3>4, <4>0 DEF OldAhead
      <4>2. lockQ[2].by = "run"
        BY <3>1, <4>0, <4>1 DEF HelloFirst
      <4> QED BY <3>1, <3>2, <4>0, <4>2, WaitingNow DEF Waiting, Single
    <3>7. nonce # 0
      BY <3>1 DEF HelloFirst
    <3> QED BY <2>1, <3>5, <3>6, <3>7 DEF NonceBehind
  <2> QED BY <2>2, <2>3
<1>5. CASE WriteFails \/ Releases
  BY <1>1, <1>5 DEF WriteFails, AfterSession, Releases, taskVars, peerVars, Talking
<1>6. CASE Start \/ Stop \/ StopReturns \/ Pings \/ StateChanged \/ UNCHANGED vars
  BY <1>1, <1>6 DEF Start, Stop, StopReturns, Pings, StateChanged, vars, taskVars, peerVars,
                    Talking
<1>7. CASE RunPush
  BY <1>1, <1>7 DEF RunPush, taskVars
<1>8. CASE Device \/ TcpGivesUp
  BY <1>1, <1>8 DEF Device, DeviceSends, Vanishes, Returns, Resets, TcpGivesUp, LinkChanges,
                    taskVars, peerVars
<1> QED BY <1>2, <1>3, <1>4, <1>5, <1>6, <1>7, <1>8 DEF Next, Lock

LEMMA HelloStep ==
    ASSUME TypeOK, Senders, Between, HelloFirst, InOrder, Inv, [Next]_vars PROVE HelloFirst'
<1>1. runPc' \in {"off", "opening"} \cup Greeting => pushes' = 0
  BY PushesStay
<1>2. runPc' \in Greeting => ~overlong'
  BY FitsStays
<1>3. runPc' \in {"securing", "hello"} /\ runPc' = runPc => Greets(lockQ', nonce')
  BY FirstStays
<1>4. runPc' = "securing" => nonce' = 0 /\ AllOld(lockQ')
  BY <1>3, FirstArrives DEF Greets
<1>5. runPc' = "hello" =>
        /\ nonce' # 0
        /\ \A i \in 1..Len(lockQ') : ~lockQ'[i].old => lockQ'[i].by = "run"
  BY <1>3, FirstArrives DEF Greets
<1>6. runPc' \in Talking \cup {"greeting", "subscribe"} => expects' # 0
  BY AnsweredStays DEF Answered
<1> QED BY <1>1, <1>2, <1>4, <1>5, <1>6 DEF HelloFirst

-----------------------------------------------------------------------------
(* The order of the frames.                                                *)
Ordered(q, n, d, x, l) ==
    OldAhead(q) /\ Chained(q, n) /\ (l # "lost" => Awaits(q, n, d, x))

LEMMA OrderIs ==
    InOrder <=> (Live /\ ~overlong => Ordered(lockQ, nonce, draining, expects, link) /\ inStep)
BY DEF InOrder, Ordered

(* The lock and the device are left alone.                                 *)
LEMMA OrderSame ==
    ASSUME InOrder, UNCHANGED <<lockQ, nonce, draining, expects, inStep>>,
           Live' => Live, ~overlong' => ~overlong, link' # "lost" => link # "lost"
    PROVE  InOrder'
BY DEF InOrder

LEMMA OrderOver == ASSUME ~Live' PROVE InOrder'
BY DEF InOrder

(* A frame is encoded within the session.                                  *)
LEMMA OrderJoin ==
    ASSUME TypeOK, Senders, InOrder, NEW who \in Waiters, Encodes(who, lockQ),
           UNCHANGED <<draining, link, peerVars>>, Live' => Live
    PROVE  InOrder'
<1> SUFFICES ASSUME Live, ~overlong
             PROVE  Ordered(lockQ', nonce', draining', expects', link') /\ inStep'
  BY DEF InOrder, Ordered, peerVars
<1>0. lockQ \in Seq(Entry) /\ nonce \in 0..Nonces
  BY DEF TypeOK
<1>1. Ordered(lockQ, nonce, draining, expects, link) /\ inStep
  BY OrderIs
<1>2. runPc # "ended"
  BY DEF Live, Talking, Greeting
<1>3. Frame(who) \in Entry /\ Frame(who).nonce = nonce /\ ~Frame(who).old
  BY <1>0, <1>2, FrameTyped
<1>4. lockQ' = Append(lockQ, Frame(who)) /\ nonce' = After(nonce)
  BY EncodesIs
<1>5. draining => lockQ # <<>>
  BY DEF Senders
<1>6. /\ OldAhead(lockQ') /\ Chained(lockQ', nonce')
      /\ Awaits(lockQ, nonce, draining, expects) => Awaits(lockQ', nonce', draining, expects)
  BY <1>0, <1>1, <1>3, <1>4, <1>5, JoinOrder DEF Ordered
<1> QED BY <1>1, <1>6 DEF Ordered, peerVars

(* The holder lets go, the device expecting x.                             *)
LEMMA OrderLeave ==
    ASSUME TypeOK, lockQ # <<>>, Live, HolderResumes, NEW x,
           OldAhead(lockQ), Chained(lockQ, nonce), Awaits(lockQ, nonce, TRUE, x)
    PROVE  Ordered(lockQ', nonce', draining', x, link')
<1> DEFINE q == Tail(lockQ)
<1>0. lockQ \in Seq(Entry) /\ nonce \in 0..Nonces /\ draining' = FALSE /\ q \in Seq(Entry)
  BY TailIs DEF TypeOK, HolderResumes
<1>1. OldAhead(q) /\ Chained(q, nonce) /\ Awaits(q, nonce, FALSE, x)
  BY <1>0, TailOrder
<1> HIDE DEF q
<1>2. CASE lockQ' = q /\ nonce' = nonce
  BY <1>0, <1>1, <1>2 DEF Ordered
<1>3. CASE Encodes("run", q)
  <2>1. runPc # "ended"
    BY DEF Live, Talking, Greeting
  <2>2. Frame("run") \in Entry /\ Frame("run").nonce = nonce /\ ~Frame("run").old
    BY <1>0, <2>1, FrameTyped DEF Waiters
  <2>3. lockQ' = Append(q, Frame("run")) /\ nonce' = After(nonce)
    BY <1>3, EncodesIs
  <2>4. /\ OldAhead(Append(q, Frame("run")))
        /\ Chained(Append(q, Frame("run")), After(nonce))
        /\ Awaits(Append(q, Frame("run")), After(nonce), FALSE, x)
    BY <1>0, <1>1, <2>2, JoinOrder
  <2> QED BY <1>0, <2>3, <2>4 DEF Ordered
<1>4. (lockQ' = q /\ nonce' = nonce) \/ Encodes("run", q)
  BY DEF HolderResumes, RunResumes, Goes, q
<1> QED BY <1>2, <1>3, <1>4

LEMMA HolderLive == ASSUME HolderResumes, Live' PROVE Live
BY DEF HolderResumes, RunResumes, Goes, taskVars, Live, Talking, Greeting

(* The session begins.                                                     *)
LEMMA OrderOpens ==
    ASSUME TypeOK, Senders, Between, Inv, Opens PROVE InOrder'
<1>0. lockQ \in Seq(Entry) /\ nonce \in 0..Nonces /\ (draining => lockQ # <<>>)
      /\ Len(lockQ) \in Nat
  BY DEF TypeOK, Senders
<1>1. nonce = 0 /\ AllOld(lockQ) /\ runPc = "opening"
  BY OpeningIs DEF Opens, Goes
<1>2. expects' = 0 /\ inStep' = TRUE /\ link' = "up" /\ draining' = draining
  BY DEF Opens
<1>3. OldAhead(lockQ) /\ Chained(lockQ, nonce)
  BY <1>1 DEF AllOld, OldAhead, Chained
<1>4. Awaits(lockQ, nonce, draining, 0)
  <2> SUFFICES ASSUME NEW i \in 0..Len(lockQ), Split(lockQ, i)
               PROVE  0 = NonceBehind(lockQ, nonce, IF i = 0 /\ draining THEN 1 ELSE i)
    BY DEF Awaits
  <2>1. i = Len(lockQ)
    <3>1. i # Len(lockQ) => i + 1 \in 1..Len(lockQ)
      BY <1>0
    <3> QED BY <1>1, <3>1 DEF Split, AllOld
  <2>2. ~(i = 0 /\ draining)
    BY <1>0, <2>1
  <2>3. NonceBehind(lockQ, nonce, i) = 0
    BY <1>1, <2>1 DEF NonceBehind
  <2> QED BY <2>2, <2>3
<1>5. CASE noise
  <2>1. lockQ' = lockQ /\ nonce' = nonce
    BY <1>5 DEF Opens
  <2> QED BY <1>2, <1>3, <1>4, <2>1 DEF InOrder
<1>6. CASE ~noise
  <2>1. Frame("run") \in Entry /\ Frame("run").nonce = nonce /\ ~Frame("run").old
    BY <1>0, <1>1, FrameTyped DEF Waiters
  <2>2. Encodes("run", lockQ)
    BY <1>6 DEF Opens
  <2>3. lockQ' = Append(lockQ, Frame("run")) /\ nonce' = After(nonce)
    BY <2>2, EncodesIs
  <2>4. /\ OldAhead(lockQ') /\ Chained(lockQ', nonce')
        /\ Awaits(lockQ', nonce', draining, 0)
    BY <1>0, <1>3, <1>4, <2>1, <2>3, JoinOrder
  <2> QED BY <1>2, <2>4 DEF InOrder
<1> QED BY <1>5, <1>6

(* A frame goes out: it is the one the device waits for, and the first is  *)
(* the hello.                                                              *)
LEMMA OrderWrites ==
    ASSUME TypeOK, Senders, HelloFirst, InOrder, Writes PROVE InOrder'
<1>1. CASE ~Live' \/ overlong'
  BY <1>1 DEF InOrder
<1>2. CASE Live' /\ ~overlong'
  <2>1. /\ lockQ # <<>> /\ ~Holder.old /\ link # "lost" /\ ~draining
        /\ expects' = After(expects) /\ overlong' = overlong /\ link' = link
    BY DEF Writes, Connected
  <2>2. Live
    BY <1>2, HolderLive DEF Writes, taskVars, Live
  <2>3. OldAhead(lockQ) /\ Chained(lockQ, nonce) /\ Awaits(lockQ, nonce, draining, expects)
        /\ inStep
    BY <1>2, <2>1, <2>2 DEF InOrder
  <2>4. lockQ \in Seq(Entry) /\ Holder = lockQ[1] /\ Len(lockQ) \in Nat \ {0}
        /\ draining = FALSE
    BY <2>1, TailIs DEF TypeOK, Holder
  <2>5. expects = Holder.nonce /\ Awaits(lockQ, nonce, TRUE, expects')
    BY <2>1, <2>3, <2>4, WriteOrder DEF Holder
  <2>6. expects = 0 => runPc = "hello" /\ Holder.by = "run"
    <3> SUFFICES ASSUME expects = 0 PROVE runPc = "hello" /\ Holder.by = "run"
      OBVIOUS
    <3>1. runPc \in {"securing", "hello"}
      BY <2>2 DEF HelloFirst, Live, Greeting
    <3>2. 1 \in 1..Len(lockQ)
      BY <2>4
    <3>3. runPc # "securing"
      BY <2>1, <2>4, <3>2 DEF HelloFirst, AllOld
    <3> QED BY <2>1, <2>4, <3>1, <3>2, <3>3 DEF HelloFirst
  <2>7. inStep'
    BY <2>3, <2>5, <2>6 DEF Writes
  <2>8. Ordered(lockQ', nonce', draining', expects', link')
    <3>1. CASE HolderResumes
      BY <2>1, <2>2, <2>3, <2>5, <3>1, OrderLeave
    <3>2. CASE draining' = TRUE /\ UNCHANGED <<lockQ, nonce>>
      BY <2>3, <2>5, <3>2 DEF Ordered
    <3> QED BY <3>1, <3>2 DEF Writes
  <2> QED BY <2>7, <2>8 DEF InOrder, Ordered
<1> QED BY <1>1, <1>2

LEMMA OrderDrained ==
    ASSUME TypeOK, Senders, InOrder, Drained PROVE InOrder'
<1>1. CASE ~Live' \/ overlong'
  BY <1>1 DEF InOrder
<1>2. CASE Live' /\ ~overlong'
  <2>1. /\ lockQ # <<>> /\ link # "lost" /\ draining /\ HolderResumes
        /\ UNCHANGED <<expects, inStep, overlong, link>>
    BY DEF Drained, Connected, peerVars, linkVars
  <2>2. Live
    BY <1>2, <2>1, HolderLive
  <2>3. draining = TRUE
    BY <2>1 DEF TypeOK
  <2>4. OldAhead(lockQ) /\ Chained(lockQ, nonce) /\ Awaits(lockQ, nonce, TRUE, expects)
        /\ inStep
    BY <1>2, <2>1, <2>2, <2>3 DEF InOrder
  <2>5. Ordered(lockQ', nonce', draining', expects, link')
    BY <2>1, <2>2, <2>4, OrderLeave
  <2> QED BY <2>1, <2>4, <2>5 DEF InOrder, Ordered
<1> QED BY <1>1, <1>2

(* What is left of an earlier session goes on waiting, or is through.      *)
LEMMA OrderReleases == ASSUME TypeOK, InOrder, Releases PROVE InOrder'
<1>1. /\ lockQ # <<>> /\ lockQ' = Tail(lockQ) /\ draining' = FALSE /\ Holder.old
      /\ UNCHANGED <<runPc, nonce, link, expects, inStep, overlong>>
  BY DEF Releases, taskVars, linkVars, peerVars
<1>2. CASE ~(Live /\ ~overlong)
  BY <1>1, <1>2 DEF InOrder, Live
<1>3. CASE Live /\ ~overlong
  <2>1. OldAhead(lockQ) /\ Chained(lockQ, nonce) /\ inStep
        /\ (link # "lost" => Awaits(lockQ, nonce, draining, expects))
    BY <1>3 DEF InOrder
  <2>2. lockQ \in Seq(Entry)
    BY DEF TypeOK
  <2>3. link # "lost" => Awaits(lockQ, nonce, TRUE, expects)
    BY <1>1, <2>1, <2>2, WriteOrder DEF Holder
  <2>4. /\ OldAhead(lockQ') /\ Chained(lockQ', nonce)
        /\ link # "lost" => Awaits(lockQ', nonce, FALSE, expects)
    BY <1>1, <2>1, <2>2, <2>3, TailOrder
  <2> QED BY <1>1, <2>1, <2>4 DEF InOrder
<1> QED BY <1>2, <1>3

(* The connection is lost: the frames stay in order, but the device gets   *)
(* none of them.                                                           *)
LEMMA OrderFails == ASSUME TypeOK, InOrder, WriteFails PROVE InOrder'
<1>1. lockQ # <<>> /\ link = "lost" /\ UNCHANGED <<expects, inStep, overlong>>
  BY DEF WriteFails, peerVars
<1>2. CASE lockQ' = Tail(lockQ) /\ UNCHANGED <<runPc, nonce, link>>
  <2>1. CASE ~(Live /\ ~overlong)
    BY <1>1, <1>2, <2>1 DEF InOrder, Live
  <2>2. CASE Live /\ ~overlong
    <3>1. OldAhead(lockQ) /\ Chained(lockQ, nonce) /\ inStep /\ lockQ \in Seq(Entry)
      BY <2>2 DEF InOrder, TypeOK
    <3>2. OldAhead(lockQ') /\ Chained(lockQ', nonce)
      BY <1>1, <1>2, <3>1, TailOrder
    <3> QED BY <1>1, <1>2, <3>1, <3>2 DEF InOrder
  <2> QED BY <2>1, <2>2
<1>3. CASE runPc' \in {"closing", "backoff", "ended"}
  BY <1>3, OrderOver DEF Live, Talking, Greeting
<1> QED BY <1>2, <1>3 DEF WriteFails, Goes, AfterSession, taskVars, linkVars

LEMMA OrderTask ==
    ASSUME TypeOK, Senders, Between, InOrder, Inv, RunTask PROVE InOrder'
<1> USE DEF Goes
<1>1. CASE Opens
  BY <1>1, OrderOpens
<1>2. CASE OpenFails \/ BackoffEnds \/ GreetingFails \/ ReaderFails \/ Closes \/ Cancels
           \/ Aborts
  <2>1. ~Live'
    BY <1>2 DEF OpenFails, BackoffEnds, GreetingFails, AfterSession, ReaderFails, Closes,
                Cancels, Aborts, Live, Talking, Greeting
  <2> QED BY <2>1, OrderOver
<1>3. CASE Secured \/ Greeted \/ CallDone
  <2>1. Live /\ Encodes("run", lockQ) /\ UNCHANGED <<draining, link, peerVars>>
    BY <1>3 DEF Secured, Greeted, CallDone, Live, Talking, Greeting, linkVars
  <2> QED BY <2>1, OrderJoin DEF Waiters
<1>4. CASE ReadsMessage
  <2>1. Live /\ UNCHANGED <<draining, link, peerVars>>
    BY <1>4 DEF ReadsMessage, Reads, Live, Talking, linkVars
  <2>2. CASE Encodes("run", lockQ)
    BY <2>1, <2>2, OrderJoin DEF Waiters
  <2>3. CASE UNCHANGED <<lockQ, nonce>>
    BY <2>1, <2>3, OrderSame DEF peerVars
  <2> QED BY <1>4, <2>2, <2>3 DEF ReadsMessage
<1> QED BY <1>1, <1>2, <1>3, <1>4 DEF RunTask

LEMMA OrderStep ==
    ASSUME TypeOK, Senders, Between, HelloFirst, InOrder, Inv, [Next]_vars PROVE InOrder'
<1>1. CASE RunTask
  BY <1>1, OrderTask
<1>2. CASE Lock
  BY <1>2, OrderWrites, OrderDrained, OrderFails, OrderReleases DEF Lock
<1>3. CASE Start
  <2>1. ~Live'
    BY <1>3 DEF Start, Live, Talking, Greeting
  <2> QED BY <2>1, OrderOver
<1>4. CASE Pings
  BY <1>4, OrderJoin DEF Pings, taskVars, linkVars, Live, Waiters
<1>5. CASE StateChanged \/ Stop \/ StopReturns \/ UNCHANGED vars
  BY <1>5, OrderSame DEF StateChanged, Stop, StopReturns, taskVars, linkVars, lockVars,
                         peerVars, vars, Live
<1>6. CASE RunPush
  <2>1. UNCHANGED <<runPc, draining, link, expects, inStep>>
    BY <1>6 DEF RunPush, taskVars, linkVars
  <2>2. CASE Encodes("push", lockQ) /\ UNCHANGED overlong
    BY <2>1, <2>2, OrderJoin DEF Waiters, peerVars, Live
  <2>3. CASE overlong'
    BY <2>3 DEF InOrder
  <2>4. CASE UNCHANGED <<lockQ, nonce, overlong>>
    BY <2>1, <2>4, OrderSame DEF Live
  <2> QED BY <1>6, <2>2, <2>3, <2>4 DEF RunPush
<1>7. CASE Device \/ TcpGivesUp
  <2>1. UNCHANGED <<lockQ, nonce, draining, expects, inStep, overlong, runPc>>
    BY <1>7 DEF Device, DeviceSends, Vanishes, Returns, Resets, TcpGivesUp, LinkChanges,
                taskVars, lockVars, peerVars
  <2>2. link' # "lost" => link # "lost"
    BY <1>7 DEF Device, DeviceSends, Vanishes, Returns, Resets, TcpGivesUp, LinkChanges,
                linkVars
  <2> QED BY <2>1, <2>2, OrderSame DEF Live
<1> QED BY <1>1, <1>2, <1>3, <1>4, <1>5, <1>6, <1>7 DEF Next

-----------------------------------------------------------------------------
LEMMA LockInvariant == Spec => []LockInv
<1>1. Init => LockInv
  BY InitLock
<1>2. LockInv /\ Inv /\ Inv' /\ [Next]_vars => LockInv'
  BY StepTyped, BetweenStep, HelloStep, OrderStep DEF LockInv
<1> QED BY <1>1, <1>2, Invariant, PTL DEF Spec

(* The types, and who may have more than one frame at the write lock.      *)
THEOREM TypeCorrect == Spec => []TypeOK
<1>1. LockInv => TypeOK
  BY DEF LockInv
<1> QED BY <1>1, LockInvariant, PTL

(* The three senders share the connection and the nonces, and frames of an *)
(* earlier session may still wait at the lock, and yet the device can read *)
(* all it gets.                                                            *)
THEOREM DeviceCanRead == Spec => []DeviceInStep
<1>1. LockInv /\ Inv => DeviceInStep
  BY DEF LockInv, InOrder, Live, Inv, Upheld, InSession, DeviceInStep
<1> QED BY <1>1, LockInvariant, Invariant, PTL

(* A stop() that has returned leaves nothing behind.                       *)
THEOREM StopLeavesNothing == Spec => []StoppedQuiet
<1>1. LockInv /\ Inv => StoppedQuiet
  <2> SUFFICES ASSUME LockInv, Inv, stopPc = "stopped"
               PROVE  /\ ~stateUnsub /\ ~bleClientConnected
                      /\ ~writer /\ link = "none"
                      /\ ping = "off"
    BY DEF StoppedQuiet
  <2>1. runPc = "ended"
    BY DEF Inv, StopCut
  <2>2. ~bleClientConnected /\ ~stateUnsub /\ link = "none"
    BY <2>1 DEF Inv, StopCut, Upheld, InSession, Talking, Greeting, Closing
  <2>3. ~writer /\ ping = "off"
    BY <2>1 DEF LockInv, Between, Senders, Talking, Closing
  <2> QED BY <2>2, <2>3
<1> QED BY <1>1, LockInvariant, Invariant, PTL
=============================================================================
