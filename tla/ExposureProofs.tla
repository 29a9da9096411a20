--------------------------- MODULE ExposureProofs ---------------------------
(***************************************************************************)
(* What a phone knows of the exposed entities, proved for any number of    *)
(* entities, labels, requests and reconnections, and for queues of every   *)
(* length.                                                                 *)
(***************************************************************************)
EXTENDS Exposure, TLAPS

AskOps == {"devices", "state", "dashboards"}

(* TypeOK but for the history of what was shown, which Seen speaks of.     *)
Typed ==
    /\ LifecycleTypeOK
    /\ labels \subseteq AllLabels
    /\ entLabels \in [Entities -> SUBSET labels]
    /\ devLabels \in [Devices -> SUBSET labels]
    /\ states \in [Entities -> 0..changes]
    /\ changes \in 0..MaxChanges
    /\ ready \in Seq(Callback)
    /\ wire \in Seq(Packet)
    /\ link \in BOOLEAN
    /\ asked \in BOOLEAN
    /\ mirror \in [Entities -> 0..changes]
    /\ overlap \in BOOLEAN
    /\ hidden \subseteq Entities

IsPush(c, e) == c.op = "push" /\ c.told[e] # 0

(* The listener is registered exactly while a client counts as connected,  *)
(* and what was never hidden since then is exposed.                        *)
Listening ==
    /\ stateUnsub <=> bleClientConnected
    /\ bleClientConnected => \A e \in Entities \ hidden : IsExposed(e)

(* A push is about one entity, and tells a version that was given out.     *)
Versions ==
    /\ \A i \in DOMAIN ready : ready[i].op = "push" =>
         /\ ready[i].told \in [Entities -> 0..changes]
         /\ \A e, f \in Entities : ready[i].told[e] # 0 /\ ready[i].told[f] # 0 => e = f
    /\ \A i \in DOMAIN wire : wire[i].told \in [Entities -> 0..changes]

(* Without a link, what a session has left to run ends with its            *)
(* on_disconnect, but for pushes.                                          *)
Down ==
    ~link =>
      /\ wire = <<>>
      /\ \/ ~bleClientConnected /\ \A i \in DOMAIN ready : ready[i].op = "push"
         \/ \E k \in DOMAIN ready :
              ready[k].op = "disconnect" /\ \A i \in DOMAIN ready : i > k => ready[i].op = "push"

(* Before on_connect has run, a phone has been listed nothing, and only    *)
(* pushes of the session before may still reach it.                        *)
Joining ==
    link /\ ~overlap /\ ~bleClientConnected =>
      /\ \A e \in Entities : mirror[e] = 0
      /\ \A i \in DOMAIN wire : wire[i].op = "tell"
      /\ \E k \in DOMAIN ready :
           /\ ready[k].op = "connect"
           /\ \A i \in DOMAIN ready : i < k => ready[i].op = "push"
           /\ \A i \in DOMAIN ready : i > k => ready[i].op \in AskOps

(* From then on the link holds.                                            *)
Joined ==
    link /\ ~overlap /\ bleClientConnected =>
      \A i \in DOMAIN ready : ready[i].op \in AskOps \cup {"push"}

(* Only a phone that has asked is listed anything.                         *)
AskedFirst ==
    link /\ ~overlap /\ ~asked =>
      /\ \A e \in Entities : mirror[e] = 0
      /\ \A i \in DOMAIN wire : wire[i].op = "tell"
      /\ \A i \in DOMAIN ready : ready[i].op # "devices"

(* The last word about e: that of the last push to run, if there is one,   *)
(* else the last on the wire, else what the phone knows.                   *)
PushPending(e) == \E i \in DOMAIN ready : IsPush(ready[i], e)

WillTell(e) ==
    \E i \in DOMAIN ready :
       /\ IsPush(ready[i], e)
       /\ ready[i].told[e] = states[e]
       /\ \A j \in DOMAIN ready : j > i => ~IsPush(ready[j], e)

Underway(e) ==
    \E i \in DOMAIN wire :
       /\ wire[i].told[e] = states[e]
       /\ \A j \in DOMAIN wire : j > i => wire[j].told[e] = 0

Unlisted(e) ==
    mirror[e] = 0 /\ \A i \in DOMAIN wire : wire[i].op = "list" => wire[i].told[e] = 0

Knows(e) == mirror[e] = states[e] /\ \A i \in DOMAIN wire : wire[i].told[e] = 0

LastWord(e) ==
    \/ WillTell(e)
    \/ ~PushPending(e) /\ (Underway(e) \/ Unlisted(e) \/ Knows(e))

(* It is the current state of every entity the phone can rely on.          *)
Reliable == Entities \ (hidden \cup Unencodable)

Current ==
    link /\ ~overlap /\ bleClientConnected =>
      \A e \in Reliable : states[e] # 0 => LastWord(e)

Inv == /\ Typed /\ Listening /\ Versions /\ Down /\ Joining /\ Joined /\ AskedFirst
       /\ Current

USE DEF regVars, haVars, phoneVars, histVars, lifecycleVars

-----------------------------------------------------------------------------
(* Sequences that grow at the end and shrink at the front.                 *)

LEMMA AppendIs ==
    ASSUME NEW S, NEW q \in Seq(S), NEW x \in S
    PROVE  /\ Append(q, x) \in Seq(S)
           /\ DOMAIN Append(q, x) = DOMAIN q \cup {Len(q) + 1}
           /\ \A i \in DOMAIN q : i \in Nat /\ i < Len(q) + 1 /\ Append(q, x)[i] = q[i]
           /\ Len(q) + 1 \in Nat /\ Append(q, x)[Len(q) + 1] = x
OBVIOUS

LEMMA TailIs ==
    ASSUME NEW S, NEW q \in Seq(S), q # <<>>
    PROVE  /\ Tail(q) \in Seq(S)
           /\ 1 \in DOMAIN q /\ Head(q) = q[1]
           /\ \A i \in DOMAIN Tail(q) :
                i \in Nat /\ i > 0 /\ i + 1 \in DOMAIN q /\ Tail(q)[i] = q[i + 1]
           /\ \A i \in DOMAIN q : i # 1 =>
                i \in Nat /\ i - 1 \in DOMAIN Tail(q) /\ Tail(q)[i - 1] = q[i]
OBVIOUS

-----------------------------------------------------------------------------
(* What the callbacks and packets are.                                     *)

LEMMA CallbacksTyped ==
    /\ Unknown \in [Entities -> Nat]
    /\ \A op \in ReadyOps : Plain(op) \in Callback /\ Plain(op).op = op
    /\ \A e \in Entities : \A v \in Nat :
         /\ Push(e, v) \in Callback /\ Push(e, v).op = "push"
         /\ Push(e, v).told \in [Entities -> Nat]
         /\ Push(e, v).told[e] = v /\ \A x \in Entities \ {e} : Push(e, v).told[x] = 0
    /\ \A q \in Questions : q \in Callback /\ q.op \in AskOps
<1>1. Unknown \in [Entities -> Nat]
  BY DEF Unknown
<1>2. \A op \in ReadyOps : Plain(op) \in Callback /\ Plain(op).op = op
  BY <1>1 DEF Plain, Callback
<1>3. \A e \in Entities : \A v \in Nat :
         /\ Push(e, v) \in Callback /\ Push(e, v).op = "push"
         /\ Push(e, v).told \in [Entities -> Nat]
         /\ Push(e, v).told[e] = v /\ \A x \in Entities \ {e} : Push(e, v).told[x] = 0
  BY DEF Push, Callback, ReadyOps, Unknown
<1>4. ASSUME NEW q \in Questions PROVE q \in Callback /\ q.op \in AskOps
  <2>1. CASE q \in [op : {"devices"}, told : {Unknown}, area : Areas \cup {NoArea}]
    BY <1>1, <2>1 DEF Callback, ReadyOps, AskOps
  <2>2. CASE \E e \in Entities : q = [Push(e, 1) EXCEPT !.op = "state"]
    <3>1. PICK e \in Entities : q = [Push(e, 1) EXCEPT !.op = "state"]
      BY <2>2
    <3>2. q = [op |-> "state", told |-> Push(e, 1).told, area |-> NoArea]
      BY <3>1 DEF Push
    <3> QED BY <1>3, <3>2 DEF Callback, ReadyOps, AskOps
  <2>3. CASE q = Plain("dashboards")
    BY <1>2, <2>3 DEF ReadyOps, AskOps
  <2> QED BY <2>1, <2>2, <2>3 DEF Questions
<1> QED BY <1>1, <1>2, <1>3, <1>4

LEMMA PacketsTyped ==
    ASSUME Typed
    PROVE  /\ \A S : /\ Listing(S) \in Packet /\ Listing(S).op = "list"
                     /\ Listing(S).told \in [Entities -> 0..changes]
                     /\ \A e \in Entities : Listing(S).told[e] \in {0, states[e]}
           /\ \A e \in Entities : \A v \in 0..changes :
                LET p == Telling([Unknown EXCEPT ![e] = v])
                IN  /\ p \in Packet /\ p.op = "tell"
                    /\ p.told \in [Entities -> 0..changes]
                    /\ p.told[e] = v /\ \A x \in Entities \ {e} : p.told[x] = 0
<1>1. changes \in Nat /\ \A e \in Entities : states[e] \in 0..changes
  BY ExposureAssumption DEF Typed
<1>2. ASSUME NEW S
      PROVE  /\ Listing(S) \in Packet /\ Listing(S).op = "list"
             /\ Listing(S).told \in [Entities -> 0..changes]
             /\ \A e \in Entities : Listing(S).told[e] \in {0, states[e]}
  BY <1>1 DEF Listing, Packet
<1>3. ASSUME NEW e \in Entities, NEW v \in 0..changes
      PROVE  LET p == Telling([Unknown EXCEPT ![e] = v])
             IN  /\ p \in Packet /\ p.op = "tell"
                 /\ p.told \in [Entities -> 0..changes]
                 /\ p.told[e] = v /\ \A x \in Entities \ {e} : p.told[x] = 0
  BY <1>1 DEF Telling, Packet, Unknown
<1> QED BY <1>2, <1>3

LEMMA ExposureKept ==
    ASSUME UNCHANGED regVars PROVE \A e : IsExposed(e)' <=> IsExposed(e)
BY DEF IsExposed, EntityLabelIds, ExposureLabelIds

LEMMA InitInv == Init => Inv
<1> SUFFICES ASSUME Init PROVE Inv
  OBVIOUS
<1>1. Typed
  <2>1. states \in [Entities -> 0..changes] /\ mirror \in [Entities -> 0..changes]
    BY DEF Init, Unknown
  <2>2. /\ entLabels \in [Entities -> SUBSET labels]
        /\ devLabels \in [Devices -> SUBSET labels]
    BY DEF Init
  <2>3. LifecycleTypeOK /\ link \in BOOLEAN /\ asked \in BOOLEAN /\ overlap \in BOOLEAN
    BY DEF Init, LifecycleInit, LifecycleTypeOK
  <2> QED BY <2>1, <2>2, <2>3, ExposureAssumption DEF Init, Typed
<1>2. Listening /\ Versions /\ Down /\ Joining /\ Joined /\ AskedFirst /\ Current
  BY DEF Init, LifecycleInit, Listening, Versions, Down, Joining, Joined, AskedFirst, Current
<1> QED BY <1>1, <1>2 DEF Inv

-----------------------------------------------------------------------------
(* What becomes of the last word about x.                                  *)

(* A callback that is scheduled is not about x.                            *)
LEMMA WordAppend ==
    ASSUME Typed, NEW x \in Entities, NEW c \in Callback, ready' = Append(ready, c),
           ~IsPush(c, x), wire' = wire, mirror'[x] = mirror[x], states'[x] = states[x],
           LastWord(x)
    PROVE  LastWord(x)'
<1>1. /\ ready \in Seq(Callback)
      /\ DOMAIN ready' = DOMAIN ready \cup {Len(ready) + 1}
      /\ \A i \in DOMAIN ready : ready'[i] = ready[i]
      /\ ready'[Len(ready) + 1] = c
  BY AppendIs DEF Typed
<1>2. ASSUME WillTell(x) PROVE WillTell(x)'
  BY <1>1, <1>2 DEF WillTell, IsPush
<1>3. ASSUME ~PushPending(x) PROVE ~PushPending(x)'
  BY <1>1, <1>3 DEF PushPending, IsPush
<1>4. (Underway(x) \/ Unlisted(x) \/ Knows(x)) => (Underway(x) \/ Unlisted(x) \/ Knows(x))'
  BY DEF Underway, Unlisted, Knows
<1> QED BY <1>2, <1>3, <1>4 DEF LastWord

(* A callback that runs is not a push about x, and if it sends anything of *)
(* x, it is the current state.                                             *)
LEMMA WordRuns ==
    ASSUME Typed, NEW x \in Entities, ready # <<>>, ready' = Tail(ready),
           ~IsPush(Head(ready), x),
           mirror'[x] = mirror[x], states'[x] = states[x], LastWord(x),
           \/ wire' = wire
           \/ \E p \in Packet : wire' = Append(wire, p) /\ p.told[x] \in {0, states[x]}
    PROVE  LastWord(x)'
<1>1. /\ 1 \in DOMAIN ready /\ Head(ready) = ready[1]
      /\ \A i \in DOMAIN ready' : i \in Nat /\ i + 1 \in DOMAIN ready /\ ready'[i] = ready[i + 1]
      /\ \A i \in DOMAIN ready : i # 1 =>
            i \in Nat /\ i - 1 \in DOMAIN ready' /\ ready'[i - 1] = ready[i]
  BY TailIs DEF Typed
<1>2. ASSUME WillTell(x) PROVE WillTell(x)'
  <2>1. PICK i \in DOMAIN ready : /\ IsPush(ready[i], x)
                                  /\ ready[i].told[x] = states[x]
                                  /\ \A j \in DOMAIN ready : j > i => ~IsPush(ready[j], x)
    BY <1>2 DEF WillTell
  <2>2. i # 1
    BY <1>1, <2>1
  <2>3. i \in Nat /\ i - 1 \in DOMAIN ready' /\ ready'[i - 1] = ready[i]
    BY <1>1, <2>2
  <2>4. ASSUME NEW j \in DOMAIN ready', j > i - 1 PROVE ~IsPush(ready'[j], x)
    BY <1>1, <2>1, <2>3, <2>4
  <2> QED BY <2>1, <2>3, <2>4 DEF WillTell, IsPush
<1>3. ASSUME ~PushPending(x) PROVE ~PushPending(x)'
  BY <1>1, <1>3 DEF PushPending, IsPush
<1>4. ASSUME Underway(x) \/ Unlisted(x) \/ Knows(x)
      PROVE  (Underway(x) \/ Unlisted(x) \/ Knows(x))'
  <2>1. CASE wire' = wire
    BY <1>4, <2>1 DEF Underway, Unlisted, Knows
  <2>2. CASE \E p \in Packet : wire' = Append(wire, p) /\ p.told[x] \in {0, states[x]}
    <3>1. PICK p \in Packet : wire' = Append(wire, p) /\ p.told[x] \in {0, states[x]}
      BY <2>2
    <3>2. /\ DOMAIN wire' = DOMAIN wire \cup {Len(wire) + 1}
          /\ \A i \in DOMAIN wire : i \in Nat /\ i < Len(wire) + 1 /\ wire'[i] = wire[i]
          /\ Len(wire) + 1 \in Nat /\ wire'[Len(wire) + 1] = p
      BY <3>1, AppendIs DEF Typed
    <3>3. CASE p.told[x] = 0
      <4>1. Underway(x) => Underway(x)'
        BY <3>2, <3>3 DEF Underway
      <4>2. Unlisted(x) => Unlisted(x)'
        BY <3>2, <3>3 DEF Unlisted
      <4>3. Knows(x) => Knows(x)'
        BY <3>2, <3>3 DEF Knows
      <4> QED BY <1>4, <4>1, <4>2, <4>3
    <3>4. CASE p.told[x] = states[x]
      BY <3>2, <3>4 DEF Underway
    <3> QED BY <3>1, <3>3, <3>4
  <2> QED BY <2>1, <2>2
<1> QED BY <1>2, <1>3, <1>4 DEF LastWord

(* A push about x runs.                                                    *)
LEMMA WordPushed ==
    ASSUME Typed, NEW x \in Entities, ready # <<>>, ready' = Tail(ready),
           IsPush(Head(ready), x),
           mirror'[x] = mirror[x], states'[x] = states[x], LastWord(x),
           NEW p \in Packet, wire' = Append(wire, p), p.told[x] = Head(ready).told[x]
    PROVE  LastWord(x)'
<1>1. /\ 1 \in DOMAIN ready /\ Head(ready) = ready[1]
      /\ \A i \in DOMAIN ready' : i \in Nat /\ i + 1 \in DOMAIN ready /\ ready'[i] = ready[i + 1]
      /\ \A i \in DOMAIN ready : i # 1 =>
            i \in Nat /\ i - 1 \in DOMAIN ready' /\ ready'[i - 1] = ready[i]
  BY TailIs DEF Typed
<1>2. WillTell(x)
  BY <1>1 DEF LastWord, PushPending
<1>3. PICK i \in DOMAIN ready : /\ IsPush(ready[i], x)
                                /\ ready[i].told[x] = states[x]
                                /\ \A j \in DOMAIN ready : j > i => ~IsPush(ready[j], x)
  BY <1>2 DEF WillTell
<1>4. CASE i = 1
  <2>1. ~PushPending(x)'
    BY <1>1, <1>3, <1>4 DEF PushPending, IsPush
  <2>2. /\ DOMAIN wire' = DOMAIN wire \cup {Len(wire) + 1}
        /\ \A j \in DOMAIN wire : j \in Nat /\ j < Len(wire) + 1 /\ wire'[j] = wire[j]
        /\ Len(wire) + 1 \in Nat /\ wire'[Len(wire) + 1] = p
    BY AppendIs DEF Typed
  <2>3. p.told[x] = states[x]
    BY <1>1, <1>3, <1>4
  <2>4. Underway(x)'
    BY <2>2, <2>3 DEF Underway
  <2> QED BY <2>1, <2>4 DEF LastWord
<1>5. CASE i # 1
  <2>1. i \in Nat /\ i - 1 \in DOMAIN ready' /\ ready'[i - 1] = ready[i]
    BY <1>1, <1>5
  <2>2. ASSUME NEW j \in DOMAIN ready', j > i - 1 PROVE ~IsPush(ready'[j], x)
    BY <1>1, <1>3, <2>1, <2>2
  <2>3. WillTell(x)'
    BY <1>3, <2>1, <2>2 DEF WillTell, IsPush
  <2> QED BY <2>3 DEF LastWord
<1> QED BY <1>4, <1>5

(* The phone takes the first packet.                                       *)
LEMMA WordReceived ==
    ASSUME Typed, NEW x \in Entities, PhoneReceives, LastWord(x), states[x] # 0,
           asked \/ (mirror[x] = 0 /\ Head(wire).op = "tell")
    PROVE  LastWord(x)'
<1>1. /\ wire # <<>> /\ wire' = Tail(wire) /\ UNCHANGED <<ready, states>>
      /\ mirror'[x] = (IF asked /\ Head(wire).told[x] # 0
                            /\ (Head(wire).op = "list" \/ mirror[x] # 0)
                       THEN Head(wire).told[x] ELSE mirror[x])
  BY DEF PhoneReceives
<1>2. /\ 1 \in DOMAIN wire /\ Head(wire) = wire[1]
      /\ \A i \in DOMAIN wire' :
            i \in Nat /\ i > 0 /\ i + 1 \in DOMAIN wire /\ wire'[i] = wire[i + 1]
      /\ \A i \in DOMAIN wire : i # 1 =>
            i \in Nat /\ i - 1 \in DOMAIN wire' /\ wire'[i - 1] = wire[i]
  BY <1>1, TailIs DEF Typed
<1>3. WillTell(x) => WillTell(x)'
  BY <1>1 DEF WillTell, IsPush
<1>4. PushPending(x)' <=> PushPending(x)
  BY <1>1 DEF PushPending, IsPush
<1>5. ASSUME Unlisted(x) PROVE Unlisted(x)'
  <2>1. mirror'[x] = 0
    BY <1>1, <1>2, <1>5 DEF Unlisted
  <2> QED BY <1>2, <1>5, <2>1 DEF Unlisted
<1>6. ASSUME Knows(x) PROVE Knows(x)'
  <2>1. mirror'[x] = mirror[x]
    BY <1>1, <1>2, <1>6 DEF Knows
  <2> QED BY <1>1, <1>2, <1>6, <2>1 DEF Knows
<1>7. ASSUME Underway(x) PROVE (Underway(x) \/ Unlisted(x) \/ Knows(x))'
  <2>1. PICK i \in DOMAIN wire : /\ wire[i].told[x] = states[x]
                                 /\ \A j \in DOMAIN wire : j > i => wire[j].told[x] = 0
    BY <1>7 DEF Underway
  <2>2. CASE i = 1
    <3>1. \A j \in DOMAIN wire' : wire'[j].told[x] = 0
      BY <1>2, <2>1, <2>2
    <3>2. mirror'[x] = states[x] \/ mirror'[x] = 0
      BY <1>1, <1>2, <2>1, <2>2
    <3> QED BY <1>1, <3>1, <3>2 DEF Unlisted, Knows
  <2>3. CASE i # 1
    <3>1. i \in Nat /\ i - 1 \in DOMAIN wire' /\ wire'[i - 1] = wire[i]
      BY <1>2, <2>3
    <3>2. ASSUME NEW j \in DOMAIN wire', j > i - 1 PROVE wire'[j].told[x] = 0
      BY <1>2, <2>1, <3>1, <3>2
    <3> QED BY <1>1, <2>1, <3>1, <3>2 DEF Underway
  <2> QED BY <2>2, <2>3
<1> QED BY <1>3, <1>4, <1>5, <1>6, <1>7 DEF LastWord

-----------------------------------------------------------------------------
(* Home Assistant's steps.                                                 *)

(* Labels change: what was never hidden is exposed still.                  *)
LEMMA RegistryInv == ASSUME Inv, Registry PROVE Inv'
<1>1. /\ hidden' = IF bleClientConnected THEN hidden \cup Unexposed' ELSE hidden
      /\ UNCHANGED <<lifecycleVars, haVars, ready, wire, phoneVars>>
  BY DEF Registry, LabelDeleted, EnsureBtdashLabels, EntityLabelled, DeviceLabelled,
         RegistryChanges
<1>2. /\ labels' \subseteq AllLabels
      /\ entLabels' \in [Entities -> SUBSET labels']
      /\ devLabels' \in [Devices -> SUBSET labels']
  <2>1. /\ labels \subseteq AllLabels
        /\ entLabels \in [Entities -> SUBSET labels] /\ devLabels \in [Devices -> SUBSET labels]
    BY DEF Inv, Typed
  <2>2. ASSUME NEW n \in AllLabels, LabelDeleted(n)
        PROVE  /\ labels' \subseteq AllLabels
               /\ entLabels' \in [Entities -> SUBSET labels']
               /\ devLabels' \in [Devices -> SUBSET labels']
    BY <2>1, <2>2 DEF LabelDeleted
  <2>3. ASSUME EnsureBtdashLabels
        PROVE  /\ labels' \subseteq AllLabels
               /\ entLabels' \in [Entities -> SUBSET labels']
               /\ devLabels' \in [Devices -> SUBSET labels']
    BY <2>1, <2>3 DEF EnsureBtdashLabels, AllLabels
  <2>4. ASSUME NEW n \in AllLabels, NEW e \in Registered, EntityLabelled(e, n)
        PROVE  /\ labels' \subseteq AllLabels
               /\ entLabels' \in [Entities -> SUBSET labels']
               /\ devLabels' \in [Devices -> SUBSET labels']
    BY <2>1, <2>4 DEF EntityLabelled
  <2>5. ASSUME NEW n \in AllLabels, NEW d \in Devices, DeviceLabelled(d, n)
        PROVE  /\ labels' \subseteq AllLabels
               /\ entLabels' \in [Entities -> SUBSET labels']
               /\ devLabels' \in [Devices -> SUBSET labels']
    BY <2>1, <2>5 DEF DeviceLabelled
  <2> QED BY <2>2, <2>3, <2>4, <2>5 DEF Registry
<1>3. hidden' \subseteq Entities /\ hidden \subseteq hidden'
  BY <1>1 DEF Inv, Typed, Unexposed, Exposed
<1>4. Typed'
  BY <1>1, <1>2, <1>3 DEF Inv, Typed, LifecycleTypeOK
<1>5. Listening'
  <2>1. ASSUME bleClientConnected, NEW e \in Entities \ hidden' PROVE IsExposed(e)'
    BY <1>1, <2>1 DEF Unexposed, Exposed
  <2> QED BY <1>1, <2>1 DEF Inv, Listening
<1>6. Versions' /\ Down' /\ Joining' /\ Joined' /\ AskedFirst'
  BY <1>1 DEF Inv, Versions, Down, Joining, Joined, AskedFirst
<1>7. \A x : LastWord(x)' <=> LastWord(x)
  BY <1>1 DEF LastWord, WillTell, PushPending, IsPush, Underway, Unlisted, Knows
<1>8. Current'
  BY <1>1, <1>3, <1>7 DEF Inv, Current, Reliable
<1> QED BY <1>4, <1>5, <1>6, <1>8 DEF Inv

(* The change of an entity the phone relies on is pushed.                  *)
LEMMA PushedInv == ASSUME Inv, NEW e \in Entities, StateChanged(e), Pushes(e) PROVE Inv'
<1> DEFINE c == Push(e, changes + 1)
<1>1. /\ changes' = changes + 1 /\ changes \in Nat /\ changes + 1 \in 0..MaxChanges
      /\ states' = [states EXCEPT ![e] = changes + 1]
      /\ ready' = Append(ready, c)
      /\ bleClientConnected
      /\ UNCHANGED <<lifecycleVars, regVars, wire, phoneVars, hidden>>
  BY ExposureAssumption DEF StateChanged, Pushes, Inv, Typed, Listening
<1>2. /\ c \in Callback /\ c.op = "push" /\ c.told \in [Entities -> 0..changes']
      /\ c.told[e] = changes + 1 /\ \A x \in Entities \ {e} : c.told[x] = 0
  <2>1. /\ c \in Callback /\ c.op = "push" /\ c.told \in [Entities -> Nat]
        /\ c.told[e] = changes + 1 /\ \A x \in Entities \ {e} : c.told[x] = 0
    BY <1>1, CallbacksTyped
  <2> QED BY <1>1, <2>1
<1> HIDE DEF c
<1>3. /\ ready \in Seq(Callback) /\ ready' \in Seq(Callback)
      /\ DOMAIN ready' = DOMAIN ready \cup {Len(ready) + 1}
      /\ \A i \in DOMAIN ready : i \in Nat /\ i < Len(ready) + 1 /\ ready'[i] = ready[i]
      /\ Len(ready) + 1 \in Nat /\ ready'[Len(ready) + 1] = c
  BY <1>1, <1>2, AppendIs DEF Inv, Typed
<1>4. 0..changes \subseteq 0..changes'
  BY <1>1
<1>5. Typed'
  <2>1. states' \in [Entities -> 0..changes'] /\ mirror' \in [Entities -> 0..changes']
    BY <1>1, <1>4 DEF Inv, Typed
  <2> QED BY <1>1, <1>3, <2>1 DEF Inv, Typed, LifecycleTypeOK
<1>6. Listening'
  BY <1>1, ExposureKept DEF Inv, Listening
<1>7. Versions'
  <2>1. ASSUME NEW i \in DOMAIN ready', ready'[i].op = "push"
        PROVE  /\ ready'[i].told \in [Entities -> 0..changes']
               /\ \A f, g \in Entities : ready'[i].told[f] # 0 /\ ready'[i].told[g] # 0 => f = g
    <3>1. CASE i = Len(ready) + 1
      BY <1>2, <1>3, <3>1
    <3>2. CASE i \in DOMAIN ready
      BY <1>3, <1>4, <2>1, <3>2 DEF Inv, Versions
    <3> QED BY <1>3, <3>1, <3>2
  <2>2. \A i \in DOMAIN wire' : wire'[i].told \in [Entities -> 0..changes']
    BY <1>1, <1>4 DEF Inv, Versions
  <2> QED BY <2>1, <2>2 DEF Versions
<1>8. Down'
  BY <1>1, <1>2, <1>3 DEF Inv, Down
<1>9. Joining' /\ Joined' /\ AskedFirst'
  BY <1>1, <1>2, <1>3 DEF Inv, Joining, Joined, AskedFirst
<1>10. ASSUME NEW x \in Reliable, LastWord(x) \/ states[x] = 0, states'[x] # 0
       PROVE  LastWord(x)'
  <2>1. CASE x = e
    <3>1. states'[x] = changes + 1
      BY <1>1, <2>1 DEF Inv, Typed
    <3>2. WillTell(x)'
      BY <1>1, <1>2, <1>3, <2>1, <3>1 DEF WillTell, IsPush
    <3> QED BY <3>2 DEF LastWord
  <2>2. CASE x # e
    <3>1. states'[x] = states[x] /\ x \in Entities
      BY <1>1, <2>2 DEF Inv, Typed, Reliable
    <3>2. ~IsPush(c, x)
      BY <1>2, <2>2, <3>1 DEF IsPush
    <3> QED BY <1>1, <1>2, <1>10, <3>1, <3>2, WordAppend DEF Inv
  <2> QED BY <2>1, <2>2
<1>11. Current'
  BY <1>1, <1>10 DEF Inv, Current, Reliable
<1> QED BY <1>5, <1>6, <1>7, <1>8, <1>9, <1>11 DEF Inv

LEMMA StateChangedInv == ASSUME Inv, NEW e \in Entities, StateChanged(e) PROVE Inv'
<1>1. CASE Pushes(e)
  BY <1>1, PushedInv
<1>2. CASE ~Pushes(e)
  <2>1. /\ changes' = changes + 1 /\ changes \in Nat /\ changes + 1 \in 0..MaxChanges
        /\ states' = [states EXCEPT ![e] = changes + 1]
        /\ UNCHANGED <<lifecycleVars, regVars, ready, wire, phoneVars, hidden>>
    BY <1>2, ExposureAssumption DEF StateChanged, Inv, Typed
  <2>2. 0..changes \subseteq 0..changes'
    BY <2>1
  <2>3. Typed'
    <3>1. states' \in [Entities -> 0..changes'] /\ mirror' \in [Entities -> 0..changes']
      BY <2>1, <2>2 DEF Inv, Typed
    <3> QED BY <2>1, <3>1 DEF Inv, Typed, LifecycleTypeOK
  <2>4. Listening'
    BY <2>1, ExposureKept DEF Inv, Listening
  <2>5. Versions'
    BY <2>1, <2>2 DEF Inv, Versions
  <2>6. Down' /\ Joining' /\ Joined' /\ AskedFirst'
    BY <2>1 DEF Inv, Down, Joining, Joined, AskedFirst
  <2>7. bleClientConnected => e \notin Reliable
    BY <1>2 DEF Inv, Listening, Pushes, Reliable
  <2>8. ASSUME NEW x \in Entities, x # e, LastWord(x) PROVE LastWord(x)'
    <3>1. states'[x] = states[x]
      BY <2>1, <2>8 DEF Inv, Typed
    <3> QED BY <2>1, <2>8, <3>1
            DEF LastWord, WillTell, PushPending, IsPush, Underway, Unlisted, Knows
  <2>9. Current'
    BY <2>1, <2>7, <2>8 DEF Inv, Typed, Current, Reliable
  <2> QED BY <2>3, <2>4, <2>5, <2>6, <2>9 DEF Inv
<1> QED BY <1>1, <1>2

LEMMA StateRemovedInv == ASSUME Inv, NEW e \in Entities, StateRemoved(e) PROVE Inv'
<1>1. /\ states' = [states EXCEPT ![e] = 0] /\ changes \in Nat
      /\ UNCHANGED <<lifecycleVars, regVars, changes, ready, wire, phoneVars, hidden>>
  BY ExposureAssumption DEF StateRemoved, Inv, Typed
<1>2. Typed'
  BY <1>1 DEF Inv, Typed, LifecycleTypeOK
<1>3. Listening'
  BY <1>1, ExposureKept DEF Inv, Listening
<1>4. Versions' /\ Down' /\ Joining' /\ Joined' /\ AskedFirst'
  BY <1>1 DEF Inv, Versions, Down, Joining, Joined, AskedFirst
<1>5. ASSUME NEW x \in Entities, states'[x] # 0, LastWord(x)
      PROVE  LastWord(x)'
  <2>1. states'[x] = states[x]
    BY <1>1, <1>5 DEF Inv, Typed
  <2> QED BY <1>1, <1>5, <2>1
          DEF LastWord, WillTell, PushPending, IsPush, Underway, Unlisted, Knows
<1>6. \A x \in Entities : states'[x] # 0 => states[x] # 0
  BY <1>1 DEF Inv, Typed
<1>7. Current'
  BY <1>1, <1>5, <1>6 DEF Inv, Current, Reliable
<1> QED BY <1>2, <1>3, <1>4, <1>7 DEF Inv

-----------------------------------------------------------------------------
(* The phone's steps.                                                      *)

(* What a phone that links finds scheduled, unless an on_disconnect is     *)
(* still to run, is pushes only.                                           *)
LEMMA PhoneConnectsInv == ASSUME Inv, PhoneConnects PROVE Inv'
<1> DEFINE c == Plain("connect")
<1>1. /\ ~link /\ link' = TRUE /\ asked' = FALSE /\ mirror' = Unknown
      /\ overlap' = (\E i \in DOMAIN ready : ready[i].op = "disconnect")
      /\ ready' = Append(ready, c)
      /\ UNCHANGED <<lifecycleVars, regVars, haVars, wire, hidden>>
  BY DEF PhoneConnects
<1>2. c \in Callback /\ c.op = "connect"
  BY CallbacksTyped DEF ReadyOps
<1> HIDE DEF c
<1>3. /\ ready' \in Seq(Callback)
      /\ DOMAIN ready' = DOMAIN ready \cup {Len(ready) + 1}
      /\ \A i \in DOMAIN ready : i \in Nat /\ i < Len(ready) + 1 /\ ready'[i] = ready[i]
      /\ Len(ready) + 1 \in Nat /\ ready'[Len(ready) + 1] = c
  BY <1>1, <1>2, AppendIs DEF Inv, Typed
<1>4. \A e \in Entities : mirror'[e] = 0
  BY <1>1 DEF Unknown
<1>5. Typed'
  <2>1. mirror' \in [Entities -> 0..changes'] /\ overlap' \in BOOLEAN
    BY <1>1, ExposureAssumption DEF Inv, Typed, Unknown
  <2> QED BY <1>1, <1>3, <2>1 DEF Inv, Typed, LifecycleTypeOK
<1>6. Listening'
  BY <1>1, ExposureKept DEF Inv, Listening
<1>7. Versions'
  BY <1>1, <1>2, <1>3 DEF Inv, Versions
<1>8. wire' = <<>>
  BY <1>1 DEF Inv, Down
<1>9. ~overlap' => ~bleClientConnected /\ \A i \in DOMAIN ready : ready[i].op = "push"
  BY <1>1 DEF Inv, Down
<1>10. Joining'
  <2>1. ASSUME ~overlap' PROVE \E k \in DOMAIN ready' :
           /\ ready'[k].op = "connect"
           /\ \A i \in DOMAIN ready' : i < k => ready'[i].op = "push"
           /\ \A i \in DOMAIN ready' : i > k => ready'[i].op \in AskOps
    <3>1. Len(ready) + 1 \in DOMAIN ready'
      BY <1>3
    <3>2. \A i \in DOMAIN ready' : i < Len(ready) + 1 => ready'[i].op = "push"
      BY <1>3, <1>9, <2>1
    <3>3. \A i \in DOMAIN ready' : ~(i > Len(ready) + 1)
      BY <1>3
    <3> QED BY <1>2, <1>3, <3>1, <3>2, <3>3
  <2> QED BY <1>4, <1>8, <2>1 DEF Joining
<1>11. Down' /\ Joined' /\ Current'
  BY <1>1, <1>9 DEF Down, Joined, Current
<1>12. AskedFirst'
  <2>1. ~overlap' => \A i \in DOMAIN ready' : ready'[i].op # "devices"
    BY <1>2, <1>3, <1>9
  <2> QED BY <1>4, <1>8, <2>1 DEF AskedFirst
<1> QED BY <1>5, <1>6, <1>7, <1>10, <1>11, <1>12 DEF Inv

LEMMA PhoneGoneInv == ASSUME Inv, PhoneGone PROVE Inv'
<1> DEFINE c == Plain("disconnect")
<1>1. /\ link' = FALSE /\ asked' = FALSE /\ mirror' = Unknown /\ overlap' = FALSE
      /\ wire' = <<>> /\ ready' = Append(ready, c)
      /\ UNCHANGED <<lifecycleVars, regVars, haVars, hidden>>
  BY DEF PhoneGone
<1>2. c \in Callback /\ c.op = "disconnect"
  BY CallbacksTyped DEF ReadyOps
<1> HIDE DEF c
<1>3. /\ ready' \in Seq(Callback)
      /\ DOMAIN ready' = DOMAIN ready \cup {Len(ready) + 1}
      /\ \A i \in DOMAIN ready : i \in Nat /\ i < Len(ready) + 1 /\ ready'[i] = ready[i]
      /\ Len(ready) + 1 \in Nat /\ ready'[Len(ready) + 1] = c
  BY <1>1, <1>2, AppendIs DEF Inv, Typed
<1>4. Typed'
  <2>1. mirror' \in [Entities -> 0..changes'] /\ wire' \in Seq(Packet)
    BY <1>1, ExposureAssumption DEF Inv, Typed, Unknown
  <2> QED BY <1>1, <1>3, <2>1 DEF Inv, Typed, LifecycleTypeOK
<1>5. Listening'
  BY <1>1, ExposureKept DEF Inv, Listening
<1>6. Versions'
  BY <1>1, <1>2, <1>3 DEF Inv, Versions
<1>7. Down'
  <2>1. \A i \in DOMAIN ready' : ~(i > Len(ready) + 1)
    BY <1>3
  <2>2. \E k \in DOMAIN ready' :
          ready'[k].op = "disconnect" /\ \A i \in DOMAIN ready' : i > k => ready'[i].op = "push"
    BY <1>2, <1>3, <2>1
  <2> QED BY <1>1, <2>2 DEF Down
<1>8. Joining' /\ Joined' /\ AskedFirst' /\ Current'
  BY <1>1 DEF Joining, Joined, AskedFirst, Current
<1> QED BY <1>4, <1>5, <1>6, <1>7, <1>8 DEF Inv

LEMMA PhoneAsksInv == ASSUME Inv, NEW c \in Questions, PhoneAsks(c) PROVE Inv'
<1>1. /\ link /\ asked' = (asked \/ c.op = "devices") /\ ready' = Append(ready, c)
      /\ UNCHANGED <<lifecycleVars, regVars, haVars, wire, link, mirror, overlap, hidden>>
  BY DEF PhoneAsks
<1>2. c \in Callback /\ c.op \in AskOps
  BY CallbacksTyped
<1>3. /\ ready' \in Seq(Callback)
      /\ DOMAIN ready' = DOMAIN ready \cup {Len(ready) + 1}
      /\ \A i \in DOMAIN ready : i \in Nat /\ i < Len(ready) + 1 /\ ready'[i] = ready[i]
      /\ Len(ready) + 1 \in Nat /\ ready'[Len(ready) + 1] = c
  BY <1>1, <1>2, AppendIs DEF Inv, Typed
<1>4. Typed'
  <2>1. asked' \in BOOLEAN
    BY <1>1 DEF Inv, Typed
  <2> QED BY <1>1, <1>3, <2>1 DEF Inv, Typed, LifecycleTypeOK
<1>5. Listening'
  BY <1>1, ExposureKept DEF Inv, Listening
<1>6. Versions'
  BY <1>1, <1>2, <1>3 DEF Inv, Versions, AskOps
<1>7. Down' /\ Joined'
  BY <1>1, <1>2, <1>3 DEF Inv, Down, Joined
<1>8. Joining'
  <2>1. ASSUME NEW k \in DOMAIN ready,
               /\ ready[k].op = "connect"
               /\ \A i \in DOMAIN ready : i < k => ready[i].op = "push"
               /\ \A i \in DOMAIN ready : i > k => ready[i].op \in AskOps
        PROVE  \E j \in DOMAIN ready' :
                 /\ ready'[j].op = "connect"
                 /\ \A i \in DOMAIN ready' : i < j => ready'[i].op = "push"
                 /\ \A i \in DOMAIN ready' : i > j => ready'[i].op \in AskOps
    <3>1. k \in DOMAIN ready' /\ ready'[k].op = "connect" /\ k < Len(ready) + 1 /\ k \in Nat
      BY <1>3, <2>1
    <3>2. \A i \in DOMAIN ready' : i < k => ready'[i].op = "push"
      BY <1>3, <2>1, <3>1
    <3>3. \A i \in DOMAIN ready' : i > k => ready'[i].op \in AskOps
      BY <1>2, <1>3, <2>1
    <3> QED BY <3>1, <3>2, <3>3
  <2> QED BY <1>1, <2>1 DEF Inv, Joining
<1>9. AskedFirst'
  <2>1. ~asked' => ~asked /\ c.op # "devices"
    BY <1>1
  <2> QED BY <1>1, <1>3, <2>1 DEF Inv, AskedFirst
<1>10. ASSUME NEW x \in Entities, LastWord(x) PROVE LastWord(x)'
  <2>1. ~IsPush(c, x)
    BY <1>2 DEF IsPush, AskOps
  <2> QED BY <1>1, <1>2, <1>10, <2>1, WordAppend DEF Inv
<1>11. Current'
  BY <1>1, <1>10 DEF Inv, Current, Reliable
<1> QED BY <1>4, <1>5, <1>6, <1>7, <1>8, <1>9, <1>11 DEF Inv

LEMMA PhoneReceivesInv == ASSUME Inv, PhoneReceives PROVE Inv'
<1>1. /\ wire # <<>> /\ wire' = Tail(wire)
      /\ UNCHANGED <<lifecycleVars, regVars, haVars, ready, link, asked, overlap, hidden>>
      /\ mirror' = [e \in Entities |->
                      IF asked /\ Head(wire).told[e] # 0
                           /\ (Head(wire).op = "list" \/ mirror[e] # 0)
                      THEN Head(wire).told[e] ELSE mirror[e]]
  BY DEF PhoneReceives
<1>2. /\ wire' \in Seq(Packet) /\ 1 \in DOMAIN wire /\ Head(wire) = wire[1]
      /\ \A i \in DOMAIN wire' : i + 1 \in DOMAIN wire /\ wire'[i] = wire[i + 1]
  BY <1>1, TailIs DEF Inv, Typed
<1>3. Typed'
  <2>1. Head(wire).told \in [Entities -> 0..changes]
    BY <1>2 DEF Inv, Versions
  <2>2. mirror' \in [Entities -> 0..changes']
    BY <1>1, <2>1 DEF Inv, Typed
  <2> QED BY <1>1, <1>2, <2>2 DEF Inv, Typed, LifecycleTypeOK
<1>4. Listening'
  BY <1>1, ExposureKept DEF Inv, Listening
<1>5. Versions'
  BY <1>1, <1>2 DEF Inv, Versions
<1>6. link
  BY <1>1 DEF Inv, Down
<1>7. Down' /\ Joined'
  BY <1>1, <1>6 DEF Inv, Down, Joined
<1>8. ASSUME \A e \in Entities : mirror[e] = 0, \A i \in DOMAIN wire : wire[i].op = "tell"
      PROVE  /\ \A e \in Entities : mirror'[e] = 0
             /\ \A i \in DOMAIN wire' : wire'[i].op = "tell"
  BY <1>1, <1>2, <1>8
<1>9. Joining' /\ AskedFirst'
  BY <1>1, <1>8 DEF Inv, Joining, AskedFirst
<1>10. ASSUME NEW x \in Entities, ~overlap, states[x] # 0, LastWord(x) PROVE LastWord(x)'
  <2>1. asked \/ (mirror[x] = 0 /\ Head(wire).op = "tell")
    BY <1>2, <1>6, <1>10 DEF Inv, AskedFirst
  <2> QED BY <1>10, <2>1, WordReceived DEF Inv
<1>11. Current'
  BY <1>1, <1>10 DEF Inv, Current, Reliable
<1> QED BY <1>3, <1>4, <1>5, <1>7, <1>9, <1>11 DEF Inv

-----------------------------------------------------------------------------
(* The loop's callbacks.                                                   *)

(* A request or a push runs, and may send a packet.                        *)
LEMMA AnswerInv ==
    ASSUME Inv, ready # <<>>, ready' = Tail(ready), Head(ready).op \in AskOps \cup {"push"},
           UNCHANGED <<lifecycleVars, regVars, haVars, phoneVars, hidden>>,
           \/ wire' = wire
           \/ \E p \in Packet : /\ link /\ wire' = Append(wire, p)
                                /\ p.told \in [Entities -> 0..changes]
                                /\ p.op = "tell" \/ Head(ready).op = "devices",
           \A x \in Reliable : link /\ states[x] # 0 /\ LastWord(x) => LastWord(x)'
    PROVE  Inv'
<1>1. /\ ready' \in Seq(Callback)
      /\ 1 \in DOMAIN ready /\ Head(ready) = ready[1]
      /\ \A i \in DOMAIN ready' :
            i \in Nat /\ i > 0 /\ i + 1 \in DOMAIN ready /\ ready'[i] = ready[i + 1]
      /\ \A i \in DOMAIN ready : i # 1 =>
            i \in Nat /\ i - 1 \in DOMAIN ready' /\ ready'[i - 1] = ready[i]
      /\ \A i \in DOMAIN ready : i \in Nat /\ 1 <= i
  BY TailIs DEF Inv, Typed
<1>2. /\ wire' \in Seq(Packet)
      /\ \A i \in DOMAIN wire' : \/ i \in DOMAIN wire /\ wire'[i] = wire[i]
                                 \/ /\ wire'[i].told \in [Entities -> 0..changes]
                                    /\ wire'[i].op = "tell" \/ Head(ready).op = "devices"
      /\ ~link => wire' = wire
  <2>1. CASE wire' = wire
    BY <2>1 DEF Inv, Typed
  <2>2. CASE wire' # wire
    <3>1. PICK p \in Packet : /\ link /\ wire' = Append(wire, p)
                              /\ p.told \in [Entities -> 0..changes]
                              /\ p.op = "tell" \/ Head(ready).op = "devices"
      BY <2>2
    <3>2. /\ wire' \in Seq(Packet)
          /\ DOMAIN wire' = DOMAIN wire \cup {Len(wire) + 1}
          /\ \A i \in DOMAIN wire : wire'[i] = wire[i]
          /\ wire'[Len(wire) + 1] = p
      BY <3>1, AppendIs DEF Inv, Typed
    <3> QED BY <3>1, <3>2
  <2> QED BY <2>1, <2>2
<1>3. Typed'
  BY <1>1, <1>2 DEF Inv, Typed, LifecycleTypeOK
<1>4. Listening'
  BY ExposureKept DEF Inv, Listening
<1>5. Versions'
  BY <1>1, <1>2 DEF Inv, Versions
<1>6. Down'
  <2>1. ASSUME ~link,
               NEW k \in DOMAIN ready, ready[k].op = "disconnect",
               \A i \in DOMAIN ready : i > k => ready[i].op = "push"
        PROVE  \E j \in DOMAIN ready' : /\ ready'[j].op = "disconnect"
                                        /\ \A i \in DOMAIN ready' : i > j => ready'[i].op = "push"
    <3>1. k # 1
      BY <1>1, <2>1 DEF AskOps
    <3>2. k - 1 \in DOMAIN ready' /\ ready'[k - 1].op = "disconnect" /\ k \in Nat
      BY <1>1, <2>1, <3>1
    <3>3. \A i \in DOMAIN ready' : i > k - 1 => ready'[i].op = "push"
      BY <1>1, <2>1, <3>2
    <3> QED BY <3>2, <3>3
  <2>2. (\A i \in DOMAIN ready : ready[i].op = "push") => \A i \in DOMAIN ready' : ready'[i].op = "push"
    BY <1>1
  <2> QED BY <1>2, <2>1, <2>2 DEF Inv, Down
<1>7. Joining'
  <2>1. SUFFICES ASSUME link, ~overlap, ~bleClientConnected
                 PROVE  /\ \A i \in DOMAIN wire' : wire'[i].op = "tell"
                        /\ \E j \in DOMAIN ready' :
                             /\ ready'[j].op = "connect"
                             /\ \A i \in DOMAIN ready' : i < j => ready'[i].op = "push"
                             /\ \A i \in DOMAIN ready' : i > j => ready'[i].op \in AskOps
    BY DEF Inv, Joining
  <2>2. PICK k \in DOMAIN ready :
                             /\ ready[k].op = "connect"
                             /\ \A i \in DOMAIN ready : i < k => ready[i].op = "push"
                             /\ \A i \in DOMAIN ready : i > k => ready[i].op \in AskOps
    BY <2>1 DEF Inv, Joining
  <2>3. k # 1
    BY <1>1, <2>2 DEF AskOps
  <2>4. k - 1 \in DOMAIN ready' /\ ready'[k - 1].op = "connect" /\ k \in Nat /\ 1 < k
    <3>1. k \in Nat /\ 1 <= k
      BY <1>1
    <3>2. k - 1 \in DOMAIN ready' /\ ready'[k - 1] = ready[k]
      BY <1>1, <2>3
    <3> QED BY <2>2, <2>3, <3>1, <3>2
  <2>5. \A i \in DOMAIN ready' : i < k - 1 => ready'[i].op = "push"
    BY <1>1, <2>2, <2>4
  <2>6. \A i \in DOMAIN ready' : i > k - 1 => ready'[i].op \in AskOps
    BY <1>1, <2>2, <2>4
  <2>7. Head(ready).op = "push"
    BY <1>1, <2>2, <2>4
  <2>8. \A i \in DOMAIN wire' : wire'[i].op = "tell"
    BY <1>2, <2>1, <2>7 DEF Inv, Joining
  <2> QED BY <2>4, <2>5, <2>6, <2>8
<1>8. Joined'
  BY <1>1 DEF Inv, Joined
<1>9. AskedFirst'
  <2>1. link /\ ~overlap /\ ~asked => Head(ready).op # "devices"
    BY <1>1 DEF Inv, AskedFirst
  <2> QED BY <1>1, <1>2, <2>1 DEF Inv, AskedFirst
<1>10. Current'
  BY DEF Inv, Current, Reliable
<1> QED BY <1>3, <1>4, <1>5, <1>6, <1>7, <1>8, <1>9, <1>10 DEF Inv

(* REQ_DEVICES, REQ_STATE and a push tell the current state, as far as     *)
(* they tell of x, or the version whose push this is.                      *)
LEMMA AnswersInv ==
    ASSUME Inv, RunReqDevices \/ RunReqState \/ RunReqDashboards PROVE Inv'
<1>1. /\ ready # <<>> /\ ready' = Tail(ready) /\ Head(ready).op \in AskOps
      /\ UNCHANGED <<lifecycleVars, regVars, haVars, phoneVars, hidden>>
  BY DEF RunReqDevices, RunReqState, RunReqDashboards, Runs, AskOps
<1>2. \/ wire' = wire
      \/ \E p \in Packet : /\ link /\ wire' = Append(wire, p)
                           /\ p.told \in [Entities -> 0..changes]
                           /\ \A x \in Entities : p.told[x] \in {0, states[x]}
                           /\ p.op = "tell" \/ Head(ready).op = "devices"
  <2>1. CASE RunReqDevices
    <3>1. \E S : Send(Listing(S)) \/ UNCHANGED wire
      BY <2>1 DEF RunReqDevices
    <3> QED BY <2>1, <3>1, PacketsTyped DEF Inv, Send, RunReqDevices, Runs
  <2>2. CASE RunReqState
    <3>1. PICK e \in Entities : (StateAnswered(e) /\ SendState(e, states[e])) \/ UNCHANGED wire
      BY <2>2 DEF RunReqState
    <3>2. states[e] \in 0..changes
      BY DEF Inv, Typed
    <3> QED BY <3>1, <3>2, PacketsTyped DEF Inv, SendState, Send
  <2>3. CASE RunReqDashboards
    BY <2>3 DEF RunReqDashboards
  <2> QED BY <2>1, <2>2, <2>3
<1>3. ASSUME NEW x \in Reliable, LastWord(x) PROVE LastWord(x)'
  <2>1. ~IsPush(Head(ready), x)
    BY <1>1 DEF IsPush, AskOps
  <2>2. x \in Entities /\ mirror'[x] = mirror[x] /\ states'[x] = states[x]
    BY <1>1 DEF Reliable
  <2>3. \/ wire' = wire
        \/ \E p \in Packet : wire' = Append(wire, p) /\ p.told[x] \in {0, states[x]}
    BY <1>2, <2>2
  <2> QED BY <1>1, <1>3, <2>1, <2>2, <2>3, WordRuns DEF Inv
<1> QED BY <1>1, <1>2, <1>3, AnswerInv

LEMMA RunPushInv == ASSUME Inv, RunPush PROVE Inv'
<1>1. /\ ready # <<>> /\ ready' = Tail(ready) /\ Head(ready).op = "push"
      /\ UNCHANGED <<lifecycleVars, regVars, haVars, phoneVars, hidden>>
  BY DEF RunPush, Runs
<1>2. PICK e \in Entities : Head(ready).told[e] # 0 /\ SendState(e, Head(ready).told[e])
  BY DEF RunPush
<1>3. 1 \in DOMAIN ready /\ Head(ready) = ready[1]
  BY <1>1, TailIs DEF Inv, Typed
<1>4. /\ Head(ready).told[e] \in 0..changes
      /\ \A x \in Entities \ {e} : Head(ready).told[x] = 0
  BY <1>1, <1>2, <1>3 DEF Inv, Versions
<1> DEFINE p == Telling([Unknown EXCEPT ![e] = Head(ready).told[e]])
<1>5. /\ p \in Packet /\ p.op = "tell" /\ p.told \in [Entities -> 0..changes]
      /\ p.told[e] = Head(ready).told[e] /\ \A x \in Entities \ {e} : p.told[x] = 0
  BY <1>4, PacketsTyped DEF Inv
<1>6. wire' = IF e \notin Unencodable /\ link THEN Append(wire, p) ELSE wire
  BY <1>2 DEF SendState, Send
<1> HIDE DEF p
<1>7. ASSUME NEW x \in Reliable, LastWord(x), link PROVE LastWord(x)'
  <2>1. /\ x \in Entities /\ x \notin Unencodable
        /\ mirror'[x] = mirror[x] /\ states'[x] = states[x]
    BY <1>1 DEF Reliable
  <2>2. CASE x = e
    <3>1. IsPush(Head(ready), x) /\ wire' = Append(wire, p) /\ p.told[x] = Head(ready).told[x]
      BY <1>1, <1>2, <1>5, <1>6, <1>7, <2>1, <2>2 DEF IsPush
    <3> QED BY <1>1, <1>5, <1>7, <2>1, <3>1, WordPushed DEF Inv
  <2>3. CASE x # e
    <3>1. ~IsPush(Head(ready), x)
      BY <1>4, <2>1, <2>3 DEF IsPush
    <3>2. wire' = wire \/ (wire' = Append(wire, p) /\ p.told[x] \in {0, states[x]})
      BY <1>5, <1>6, <2>1, <2>3
    <3> QED BY <1>1, <1>5, <1>7, <2>1, <3>1, <3>2, WordRuns DEF Inv
  <2> QED BY <2>2, <2>3
<1>8. \/ wire' = wire
      \/ \E q \in Packet : /\ link /\ wire' = Append(wire, q)
                           /\ q.told \in [Entities -> 0..changes]
                           /\ q.op = "tell" \/ Head(ready).op = "devices"
  BY <1>5, <1>6
<1> QED BY <1>1, <1>7, <1>8, AnswerInv

(* on_connect: what runs after it was asked for on this link, and nothing  *)
(* has been listed before.                                                 *)
LEMMA RunOnConnectInv == ASSUME Inv, RunOnConnect PROVE Inv'
<1>1. /\ ready # <<>> /\ ready' = Tail(ready) /\ Head(ready).op = "connect"
      /\ hidden' = Unexposed
      /\ UNCHANGED <<regVars, haVars, phoneVars, wire>>
      /\ bleClientConnected' = TRUE /\ stateUnsub' = TRUE
  BY DEF RunOnConnect, Runs, OnBleClientConnected, SubscribeStateChanges, Inv, Listening,
         Typed, LifecycleTypeOK
<1>2. /\ ready' \in Seq(Callback)
      /\ 1 \in DOMAIN ready /\ Head(ready) = ready[1]
      /\ \A i \in DOMAIN ready' :
            i \in Nat /\ i > 0 /\ i + 1 \in DOMAIN ready /\ ready'[i] = ready[i + 1]
      /\ \A i \in DOMAIN ready : i # 1 =>
            i \in Nat /\ i - 1 \in DOMAIN ready' /\ ready'[i - 1] = ready[i]
      /\ \A i \in DOMAIN ready : i \in Nat /\ 1 <= i
  BY <1>1, TailIs DEF Inv, Typed
<1>3. Typed'
  BY <1>1, <1>2 DEF Inv, Typed, LifecycleTypeOK, Unexposed, Exposed
<1>4. Listening'
  BY <1>1, ExposureKept DEF Inv, Listening, Unexposed, Exposed
<1>5. Versions'
  BY <1>1, <1>2 DEF Inv, Versions
<1>6. Down'
  <2>1. ASSUME NEW k \in DOMAIN ready, ready[k].op = "disconnect",
               \A i \in DOMAIN ready : i > k => ready[i].op = "push"
        PROVE  \E j \in DOMAIN ready' : /\ ready'[j].op = "disconnect"
                                        /\ \A i \in DOMAIN ready' : i > j => ready'[i].op = "push"
    <3>1. k # 1
      BY <1>1, <1>2, <2>1
    <3>2. k - 1 \in DOMAIN ready' /\ ready'[k - 1].op = "disconnect" /\ k \in Nat
      BY <1>2, <2>1, <3>1
    <3>3. \A i \in DOMAIN ready' : i > k - 1 => ready'[i].op = "push"
      BY <1>2, <2>1, <3>2
    <3> QED BY <3>2, <3>3
  <2>2. ~\A i \in DOMAIN ready : ready[i].op = "push"
    BY <1>1, <1>2
  <2> QED BY <1>1, <2>1, <2>2 DEF Inv, Down
<1>7. link /\ ~overlap =>
        /\ \A i \in DOMAIN ready' : ready'[i].op \in AskOps
        /\ \A e \in Entities : mirror[e] = 0
        /\ \A i \in DOMAIN wire : wire[i].op = "tell"
  <2>1. SUFFICES ASSUME link, ~overlap
                 PROVE  /\ \A i \in DOMAIN ready' : ready'[i].op \in AskOps
                        /\ \A e \in Entities : mirror[e] = 0
                        /\ \A i \in DOMAIN wire : wire[i].op = "tell"
    OBVIOUS
  <2>2. ~bleClientConnected
    BY <1>1, <1>2, <2>1 DEF Inv, Joined, AskOps
  <2>3. PICK k \in DOMAIN ready :
                             /\ ready[k].op = "connect"
                             /\ \A i \in DOMAIN ready : i < k => ready[i].op = "push"
                             /\ \A i \in DOMAIN ready : i > k => ready[i].op \in AskOps
    BY <2>1, <2>2 DEF Inv, Joining
  <2>4. k = 1
    <3>1. k \in Nat /\ 1 <= k /\ ~(1 < k)
      BY <1>1, <1>2, <2>3
    <3> QED BY <3>1
  <2>5. \A i \in DOMAIN ready' : ready'[i].op \in AskOps
    BY <1>2, <2>3, <2>4
  <2> QED BY <2>1, <2>2, <2>5 DEF Inv, Joining
<1>8. Joining' /\ Joined'
  BY <1>1, <1>7 DEF Joining, Joined
<1>9. AskedFirst'
  BY <1>1, <1>2 DEF Inv, AskedFirst
<1>10. ASSUME link, ~overlap, NEW x \in Entities PROVE LastWord(x)'
  <2>1. ~PushPending(x)'
    BY <1>7, <1>10 DEF PushPending, IsPush, AskOps
  <2>2. Unlisted(x)'
    BY <1>1, <1>7, <1>10 DEF Unlisted
  <2> QED BY <2>1, <2>2 DEF LastWord
<1>11. Current'
  BY <1>1, <1>10 DEF Current, Reliable
<1> QED BY <1>3, <1>4, <1>5, <1>6, <1>8, <1>9, <1>11 DEF Inv

LEMMA RunOnDisconnectInv == ASSUME Inv, RunOnDisconnect PROVE Inv'
<1>1. /\ ready # <<>> /\ ready' = Tail(ready) /\ Head(ready).op = "disconnect"
      /\ hidden' = {}
      /\ UNCHANGED <<regVars, haVars, phoneVars, wire>>
      /\ bleClientConnected' = FALSE /\ stateUnsub' = FALSE
  BY DEF RunOnDisconnect, Runs, OnBleClientDisconnected, Inv, Listening, Typed,
         LifecycleTypeOK
<1>2. /\ ready' \in Seq(Callback)
      /\ 1 \in DOMAIN ready /\ Head(ready) = ready[1]
      /\ \A i \in DOMAIN ready' :
            i \in Nat /\ i > 0 /\ i + 1 \in DOMAIN ready /\ ready'[i] = ready[i + 1]
      /\ \A i \in DOMAIN ready : i # 1 =>
            i \in Nat /\ i - 1 \in DOMAIN ready' /\ ready'[i - 1] = ready[i]
      /\ \A i \in DOMAIN ready : i \in Nat /\ 1 <= i
  BY <1>1, TailIs DEF Inv, Typed
<1>3. Typed'
  BY <1>1, <1>2 DEF Inv, Typed, LifecycleTypeOK
<1>4. Listening'
  BY <1>1 DEF Listening
<1>5. Versions'
  BY <1>1, <1>2 DEF Inv, Versions
<1>6. Down'
  <2>1. ASSUME NEW k \in DOMAIN ready, ready[k].op = "disconnect",
               \A i \in DOMAIN ready : i > k => ready[i].op = "push"
        PROVE  \/ \A i \in DOMAIN ready' : ready'[i].op = "push"
               \/ \E j \in DOMAIN ready' : /\ ready'[j].op = "disconnect"
                                           /\ \A i \in DOMAIN ready' : i > j => ready'[i].op = "push"
    <3>1. CASE k = 1
      BY <1>2, <2>1, <3>1
    <3>2. CASE k # 1
      <4>1. k - 1 \in DOMAIN ready' /\ ready'[k - 1].op = "disconnect" /\ k \in Nat
        BY <1>2, <2>1, <3>2
      <4>2. \A i \in DOMAIN ready' : i > k - 1 => ready'[i].op = "push"
        BY <1>2, <2>1, <4>1
      <4> QED BY <4>1, <4>2
    <3> QED BY <3>1, <3>2
  <2>2. ~\A i \in DOMAIN ready : ready[i].op = "push"
    BY <1>1, <1>2
  <2> QED BY <1>1, <2>1, <2>2 DEF Inv, Down
<1>7. ~(link /\ ~overlap)
  <2>1. SUFFICES ASSUME link, ~overlap PROVE FALSE
    OBVIOUS
  <2>2. ~bleClientConnected
    BY <1>1, <1>2, <2>1 DEF Inv, Joined, AskOps
  <2>3. PICK k \in DOMAIN ready :
                             /\ ready[k].op = "connect"
                             /\ \A i \in DOMAIN ready : i < k => ready[i].op = "push"
    BY <2>1, <2>2 DEF Inv, Joining
  <2> QED BY <1>1, <1>2, <2>3
<1>8. Joining' /\ Joined' /\ AskedFirst' /\ Current'
  BY <1>1, <1>7 DEF Joining, Joined, AskedFirst, Current
<1> QED BY <1>3, <1>4, <1>5, <1>6, <1>8 DEF Inv

-----------------------------------------------------------------------------
LEMMA StutterInv == ASSUME Inv, UNCHANGED vars PROVE Inv'
<1>1. UNCHANGED <<lifecycleVars, regVars, haVars, ready, wire, phoneVars, hidden>>
  BY DEF vars
<1>2. Typed' /\ Listening'
  BY <1>1, ExposureKept DEF Inv, Typed, LifecycleTypeOK, Listening
<1>3. Versions' /\ Down' /\ Joining' /\ Joined' /\ AskedFirst'
  BY <1>1 DEF Inv, Versions, Down, Joining, Joined, AskedFirst
<1>4. \A x : LastWord(x)' <=> LastWord(x)
  BY <1>1 DEF LastWord, WillTell, PushPending, IsPush, Underway, Unlisted, Knows
<1>5. Current'
  BY <1>1, <1>4 DEF Inv, Current, Reliable
<1> QED BY <1>2, <1>3, <1>5 DEF Inv

LEMMA Invariant == Spec => []Inv
<1>1. Init => Inv
  BY InitInv
<1>2. ASSUME Inv, [Next]_vars PROVE Inv'
  <2>1. CASE StateMachine
    BY <1>2, <2>1, StateChangedInv, StateRemovedInv DEF StateMachine
  <2>2. CASE Phone
    BY <1>2, <2>2, PhoneConnectsInv, PhoneGoneInv, PhoneAsksInv, PhoneReceivesInv DEF Phone
  <2>3. CASE RunReady
    BY <1>2, <2>3, RunOnConnectInv, RunOnDisconnectInv, AnswersInv, RunPushInv DEF RunReady
  <2> QED BY <1>2, <2>1, <2>2, <2>3, RegistryInv, StutterInv DEF Next
<1> QED BY <1>1, <1>2, PTL DEF Spec

-----------------------------------------------------------------------------
(* What the phone has been shown.                                          *)

(* Whatever is listed, or on its way in a list, has been exposed since the *)
(* phone linked, and so has what is exposed now.                           *)
Seen ==
    /\ shown \subseteq Entities
    /\ \A e \in Entities : mirror[e] # 0 => e \in shown
    /\ \A i \in DOMAIN wire : wire[i].op = "list" =>
         \A e \in Entities : wire[i].told[e] # 0 => e \in shown
    /\ link => Exposed \subseteq shown

LEMMA ExposedKept == ASSUME UNCHANGED regVars PROVE Exposed' = Exposed
BY ExposureKept DEF Exposed

LEMMA RegistrySeen == ASSUME Seen, Registry PROVE Seen'
<1>1. /\ shown' = IF link THEN shown \cup Exposed' ELSE shown
      /\ UNCHANGED <<link, wire, mirror>>
  BY DEF Registry, LabelDeleted, EnsureBtdashLabels, EntityLabelled, DeviceLabelled,
         RegistryChanges
<1>2. Exposed' \subseteq Entities
  BY DEF Exposed
<1>3. shown \subseteq shown' /\ shown' \subseteq Entities
  BY <1>1, <1>2 DEF Seen
<1>4. link' => Exposed' \subseteq shown'
  BY <1>1
<1> QED BY <1>1, <1>3, <1>4 DEF Seen

LEMMA PhoneSeen == ASSUME Inv, Seen, Phone PROVE Seen'
<1>1. Exposed' = Exposed /\ Exposed \subseteq Entities
  BY ExposedKept DEF Phone, PhoneConnects, PhoneGone, PhoneAsks, PhoneReceives, Exposed
<1>2. CASE PhoneConnects
  <2>1. /\ shown' = Exposed /\ \A e \in Entities : mirror'[e] = 0
        /\ wire' = <<>>
    BY <1>2 DEF PhoneConnects, Inv, Down, Unknown
  <2> QED BY <1>1, <2>1 DEF Seen
<1>3. CASE PhoneGone
  <2>1. /\ shown' = {} /\ \A e \in Entities : mirror'[e] = 0
        /\ wire' = <<>> /\ ~link'
    BY <1>3 DEF PhoneGone, Unknown
  <2> QED BY <2>1 DEF Seen
<1>4. ASSUME NEW question \in Questions, PhoneAsks(question) PROVE Seen'
  BY <1>1, <1>4 DEF PhoneAsks, Seen
<1>5. CASE PhoneReceives
  <2>1. /\ wire # <<>> /\ wire' = Tail(wire) /\ UNCHANGED <<link, shown>>
        /\ \A e \in Entities : mirror'[e] # 0 =>
              mirror[e] # 0 \/ (Head(wire).op = "list" /\ Head(wire).told[e] # 0)
    BY <1>5 DEF PhoneReceives
  <2>2. /\ 1 \in DOMAIN wire /\ Head(wire) = wire[1]
        /\ \A i \in DOMAIN wire' : i + 1 \in DOMAIN wire /\ wire'[i] = wire[i + 1]
    BY <2>1, TailIs DEF Inv, Typed
  <2> QED BY <1>1, <2>1, <2>2 DEF Seen
<1> QED BY <1>2, <1>3, <1>4, <1>5 DEF Phone

(* Only REQ_DEVICES sends a list, of what is exposed at that moment.       *)
LEMMA RunsSeen == ASSUME Inv, Seen, RunReady PROVE Seen'
<1>1. UNCHANGED <<regVars, link, mirror, shown>>
  BY DEF RunReady, RunOnConnect, RunOnDisconnect, RunReqDevices, RunReqState, RunReqDashboards,
         RunPush, Runs
<1>2. Exposed' = Exposed
  BY <1>1, ExposedKept
<1>3. \A S : \A e \in Entities : Listing(S).told[e] # 0 => e \in S
  BY DEF Listing
<1>4. \A area : DevicesAnswer(area) \subseteq Exposed
  BY ExposureAssumption DEF DevicesAnswer, Exposed, IsExposed
<1>5. \/ wire' = wire
      \/ \E p \in Packet :
            /\ link /\ wire' = Append(wire, p)
            /\ p.op = "list" => \A e \in Entities : p.told[e] # 0 => e \in Exposed
  <2>1. CASE RunReqDevices
    <3>1. PICK area : Send(Listing(DevicesAnswer(area))) \/ UNCHANGED wire
      BY <2>1 DEF RunReqDevices
    <3>2. Listing(DevicesAnswer(area)) \in Packet
      BY PacketsTyped DEF Inv
    <3> QED BY <1>3, <1>4, <3>1, <3>2 DEF Send
  <2>2. CASE RunReqState
    <3>1. PICK e \in Entities : SendState(e, states[e]) \/ UNCHANGED wire
      BY <2>2 DEF RunReqState
    <3>2. states[e] \in 0..changes
      BY DEF Inv, Typed
    <3> QED BY <3>1, <3>2, PacketsTyped DEF Inv, SendState, Send
  <2>3. CASE RunPush
    <3>1. PICK e \in Entities : SendState(e, Head(ready).told[e])
      BY <2>3 DEF RunPush
    <3>2. Head(ready).told[e] \in 0..changes
      <4>1. Head(ready) = ready[1] /\ 1 \in DOMAIN ready /\ Head(ready).op = "push"
        BY <2>3, TailIs DEF RunPush, Runs, Inv, Typed
      <4> QED BY <4>1 DEF Inv, Versions
    <3> QED BY <3>1, <3>2, PacketsTyped DEF Inv, SendState, Send
  <2>4. CASE RunOnConnect \/ RunOnDisconnect \/ RunReqDashboards
    BY <2>4 DEF RunOnConnect, RunOnDisconnect, RunReqDashboards
  <2> QED BY <2>1, <2>2, <2>3, <2>4 DEF RunReady
<1>6. CASE wire' = wire
  BY <1>1, <1>2, <1>6 DEF Seen
<1>7. ASSUME NEW p \in Packet, link, wire' = Append(wire, p),
             p.op = "list" => \A e \in Entities : p.told[e] # 0 => e \in Exposed
      PROVE  Seen'
  <2>1. /\ DOMAIN wire' = DOMAIN wire \cup {Len(wire) + 1}
        /\ \A i \in DOMAIN wire : wire'[i] = wire[i]
        /\ wire'[Len(wire) + 1] = p
    BY <1>7, AppendIs DEF Inv, Typed
  <2> QED BY <1>1, <1>2, <1>7, <2>1 DEF Seen
<1> QED BY <1>5, <1>6, <1>7

LEMMA SeenInvariant == Spec => []Seen
<1>1. Init => Seen
  BY DEF Init, Seen, Unknown
<1>2. ASSUME Inv, Seen, [Next]_vars PROVE Seen'
  <2>1. CASE UNCHANGED <<regVars, link, mirror, wire, shown>>
    BY <1>2, <2>1, ExposedKept DEF Seen
  <2>2. StateMachine \/ UNCHANGED vars => UNCHANGED <<regVars, link, mirror, wire, shown>>
    BY DEF StateMachine, StateChanged, StateRemoved, vars
  <2> QED BY <1>2, <2>1, <2>2, RegistrySeen, PhoneSeen, RunsSeen DEF Next
<1> QED BY <1>1, <1>2, Invariant, PTL DEF Spec

-----------------------------------------------------------------------------
(* Every variable keeps its type: in particular nothing bears a label that *)
(* does not exist, and the phone knows no version that was not given out.  *)
THEOREM TypeCorrect == Spec => []TypeOK
<1>1. Inv /\ Seen => TypeOK
  BY DEF Inv, Typed, Seen, TypeOK
<1> QED BY <1>1, Invariant, SeenInvariant, PTL

(* However labels are deleted, put back and moved, and whatever is asked   *)
(* and pushed, a phone knows the state of no entity that has not been      *)
(* exposed since it linked.                                                *)
THEOREM OnlyExposedKnown == Spec => []KnowsOnlyExposed
<1>1. Seen => KnowsOnlyExposed
  BY DEF Seen, KnowsOnlyExposed
<1> QED BY <1>1, SeenInvariant, PTL

(* A phone that has received everything has the current state of what it   *)
(* was listed and was never hidden, unless it linked too early.            *)
THEOREM PhoneIsCurrent == Spec => []MirrorCurrent
<1>1. ASSUME Inv, ~overlap, link, asked, ready = <<>>, wire = <<>>,
             NEW e \in Reliable, mirror[e] # 0, states[e] # 0
      PROVE  mirror[e] = states[e]
  <2>1. bleClientConnected
    BY <1>1 DEF Inv, Joining
  <2>2. LastWord(e)
    BY <1>1, <2>1 DEF Inv, Current
  <2> QED BY <1>1, <2>2 DEF LastWord, WillTell, Underway, Unlisted, Knows
<1>2. Inv => MirrorCurrent
  BY <1>1 DEF MirrorCurrent, UpToDate, Reliable
<1> QED BY <1>2, Invariant, PTL
=============================================================================
