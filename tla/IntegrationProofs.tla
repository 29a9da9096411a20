------------------------- MODULE IntegrationProofs -------------------------
(***************************************************************************)
(* That an entry is made with the key that is current and without a        *)
(* conflict, that reloads never leave it with two servers, and the OTA     *)
(* button never with one of the past, proved for any number of adapters    *)
(* and of entries that are set up and taken down in any order.             *)
(***************************************************************************)
EXTENDS Integration, FiniteSetTheorems, TLAPS

Places == {"absent", "idle", "forwarding", "loaded", "unloading", "unloaded",
           "stopping", "error"}

Typed ==
    /\ at \in [Entries -> Places]
    /\ next \in [Entries -> {"idle", "absent"}]
    /\ life \in [Servers -> {"none", "running", "stopping", "left"}]
    /\ owner \in [Servers -> Entries \cup {NoEntry}]
    /\ held \in [Entries -> Servers \cup {NoServer}]
    /\ button \in [Entries -> Servers \cup {NoServer}]
    /\ spilled \subseteq Entries
    /\ leftover \subseteq Entries

(* Where an entry is while its server runs.                                *)
Served == {"forwarding", "loaded", "unloading", "unloaded"}

(* A server object that is not in use has no owner.                        *)
Vacant == \A s \in Servers : life[s] = "none" <=> owner[s] = NoEntry

(* The server of an entry is in hass.data, runs, and is its own.           *)
Kept ==
    \A e \in Entries : at[e] \in Served =>
       held[e] \in Servers /\ life[held[e]] = "running" /\ owner[held[e]] = e

(* It is the only one, unless a setup has failed or a stop() has raised.   *)
Alone ==
    \A e \in Entries \ spilled : \A s \in Servers : owner[s] = e =>
       /\ at[e] \in Served => s = held[e]
       /\ at[e] = "stopping" => life[s] = "stopping"
       /\ at[e] \in Served \cup {"stopping"}
       /\ \A t \in Servers : owner[t] = e => s = t

(* The button exists only while the platform is set up, unless an unload   *)
(* of the platform has failed.                                             *)
Pressable ==
    \A e \in Entries \ leftover : button[e] # NoServer =>
       at[e] \in {"loaded", "unloading"} /\ button[e] = held[e]

Inv == Typed /\ Vacant /\ Kept /\ Alone /\ Pressable

LEMMA InitInv == Init => Inv
BY IntegrationAssumption
   DEF Init, Inv, Typed, Vacant, Kept, Alone, Pressable, Places, Served

(* The server that a setup takes is not in use.                            *)
LEMMA NewIsFree ==
    ASSUME Inv, \E s \in Servers : life[s] = "none"
    PROVE  NewServer \in Servers /\ life[NewServer] = "none" /\ owner[NewServer] = NoEntry
<1>1. NewServer \in Servers /\ life[NewServer] = "none"
  BY DEF NewServer
<1> QED BY <1>1 DEF Inv, Vacant

LEMMA SetupBeginsInv ==
    ASSUME Inv, NEW e \in Entries, SetupBegins(e) PROVE Inv'
<1> USE DEF Inv, Typed, Vacant, Kept, Alone, Pressable, Places, Served
<1>1. at[e] = "idle" /\ UNCHANGED <<next, button, spilled, leftover>>
  BY DEF SetupBegins
<1>2. CASE data[e] = "no host"
  <2>1. at' = [at EXCEPT ![e] = "error"] /\ UNCHANGED <<life, owner, held>>
    BY <1>2 DEF SetupBegins, serverVars
  <2> QED BY <1>1, <2>1
<1>3. CASE data[e] # "no host"
  <2> DEFINE new == NewServer
  <2>1. /\ at' = [at EXCEPT ![e] = "forwarding"]
        /\ \E s \in Servers : life[s] = "none"
        /\ life' = [life EXCEPT ![new] = "running"]
        /\ owner' = [owner EXCEPT ![new] = e]
        /\ held' = [held EXCEPT ![e] = new]
    BY <1>3 DEF SetupBegins
  <2>2. new \in Servers /\ life[new] = "none" /\ owner[new] = NoEntry
    BY <2>1, NewIsFree
  <2> HIDE DEF new
  <2>3. Typed'
    BY <1>1, <2>1, <2>2
  <2>4. Vacant'
    BY <2>1, <2>2, IntegrationAssumption
  <2>5. Kept'
    BY <2>1, <2>2, IntegrationAssumption
  <2>6. Alone'
    <3>1. ASSUME NEW x \in Entries \ spilled, NEW s \in Servers, owner'[s] = x,
                 x = e
          PROVE  s = new
      BY <1>1, <2>1, <2>2, <3>1, IntegrationAssumption
    <3>2. ASSUME NEW x \in Entries \ spilled, NEW s \in Servers, owner'[s] = x,
                 x # e
          PROVE  owner[s] = x /\ s # new /\ life'[s] = life[s] /\ at'[x] = at[x]
                 /\ held'[x] = held[x]
      BY <2>1, <2>2, <3>2, IntegrationAssumption
    <3> QED BY <1>1, <2>1, <2>2, <3>1, <3>2
  <2>7. Pressable'
    BY <1>1, <2>1, <2>2
  <2> QED BY <2>3, <2>4, <2>5, <2>6, <2>7
<1> QED BY <1>2, <1>3

(* Steps that only move the entry.                                         *)
LEMMA MovesInv ==
    ASSUME Inv, NEW e \in Entries,
           SetupEnds(e) \/ SetupFails(e) \/ PlatformsUnload(e) \/ UnloadEnds(e) \/ EntryMade(e)
    PROVE  Inv'
<1> USE DEF Inv, Typed, Vacant, Kept, Alone, Pressable, Places, Served
<1>1. CASE SetupEnds(e)
  BY <1>1 DEF SetupEnds, serverVars
<1>2. CASE SetupFails(e)
  BY <1>2 DEF SetupFails, serverVars
<1>3. CASE PlatformsUnload(e)
  BY <1>3 DEF PlatformsUnload, serverVars
<1>4. CASE UnloadEnds(e)
  BY <1>4 DEF UnloadEnds, serverVars
<1>5. CASE EntryMade(e)
  BY <1>5 DEF EntryMade, serverVars
<1> QED BY <1>1, <1>2, <1>3, <1>4, <1>5

LEMMA TakenDownInv ==
    ASSUME Inv, NEW e \in Entries, NEW purpose \in {"idle", "absent"},
           TakenDown(e, purpose)
    PROVE  Inv'
BY DEF TakenDown, serverVars, Inv, Typed, Vacant, Kept, Alone, Pressable, Places, Served

LEMMA UnloadsInv ==
    ASSUME Inv, NEW e \in Entries, Unloads(e) PROVE Inv'
<1> USE DEF Inv, Typed, Vacant, Kept, Alone, Pressable, Places, Served
<1>1. /\ at[e] = "unloaded" /\ at' = [at EXCEPT ![e] = "stopping"]
      /\ life' = [life EXCEPT ![held[e]] = "stopping"]
      /\ held' = [held EXCEPT ![e] = NoServer]
      /\ UNCHANGED <<owner, next, button, spilled, leftover>>
  BY DEF Unloads, ServerStops
<1>2. held[e] \in Servers /\ life[held[e]] = "running" /\ owner[held[e]] = e
  BY <1>1
<1>3. Typed'
  BY <1>1, <1>2
<1>4. Vacant'
  BY <1>1, <1>2, IntegrationAssumption
<1>5. Kept'
  BY <1>1, <1>2
<1>6. Alone'
  BY <1>1, <1>2
<1>7. Pressable'
  BY <1>1
<1> QED BY <1>3, <1>4, <1>5, <1>6, <1>7

LEMMA StopReturnsInv ==
    ASSUME Inv, NEW s \in Servers, StopReturns(s) PROVE Inv'
BY IntegrationAssumption
   DEF StopReturns, entryVars, Inv, Typed, Vacant, Kept, Alone, Pressable, Places, Served

(* The owner of a server whose stop() raised is excepted from then on.     *)
LEMMA StopRaisesInv ==
    ASSUME Inv, NEW s \in Servers, StopRaises(s) PROVE Inv'
<1> USE DEF Inv, Typed, Vacant, Kept, Alone, Pressable, Places, Served
<1>1. /\ life[s] = "stopping" /\ life' = [life EXCEPT ![s] = "left"]
      /\ spilled' = spilled \cup {owner[s]}
      /\ UNCHANGED <<owner, at, next, held, button, leftover>>
  BY DEF StopRaises
<1>2. owner[s] \in Entries
  BY <1>1
<1>3. Typed' /\ Vacant'
  BY <1>1, <1>2
<1>4. Kept' /\ Pressable'
  BY <1>1
<1>5. Alone'
  BY <1>1, <1>2
<1> QED BY <1>3, <1>4, <1>5

LEMMA NextInv == ASSUME Inv, [Next]_vars PROVE Inv'
<1>1. CASE Outside \/ UNCHANGED vars
  BY <1>1 DEF Outside, vars, serverVars, entryVars, Inv, Typed, Vacant, Kept, Alone,
              Pressable
<1>2. ASSUME NEW e \in Entries, EntryMade(e) \/ Steps(e) PROVE Inv'
  BY <1>2, SetupBeginsInv, MovesInv, UnloadsInv DEF Steps
<1>3. ASSUME NEW e \in Entries, NEW purpose \in {"idle", "absent"}, TakenDown(e, purpose)
      PROVE  Inv'
  BY <1>3, TakenDownInv
<1>4. ASSUME NEW s \in Servers, StopReturns(s) \/ StopRaises(s) PROVE Inv'
  BY <1>4, StopReturnsInv, StopRaisesInv
<1> QED BY <1>1, <1>2, <1>3, <1>4 DEF Next

LEMMA Invariant == Spec => []Inv
<1>1. Init => Inv
  BY InitInv
<1>2. Inv /\ [Next]_vars => Inv'
  BY NextInv
<1> QED BY <1>1, <1>2, PTL DEF Spec

(* However entries are reloaded and removed, none whose setups succeeded   *)
(* and whose servers stopped without raising ever has a second server, and *)
(* what it has is in hass.data.                                            *)
THEOREM NeverTwoServers == Spec => []OneServer
<1>1. ASSUME Inv, NEW e \in Entries \ spilled PROVE Cardinality(Live(e)) <= 1
  <2>1. CASE Live(e) = {}
    <3>1. Cardinality({}) = 0
      BY FS_EmptySet
    <3> QED BY <2>1, <3>1
  <2>2. CASE Live(e) # {}
    <3>1. PICK s \in Live(e) : TRUE
      BY <2>2
    <3>2. Live(e) = {s}
      BY <1>1, <3>1 DEF Live, Inv, Alone
    <3>3. Cardinality({s}) = 1
      BY FS_Singleton
    <3> QED BY <3>2, <3>3
  <2> QED BY <2>1, <2>2
<1>2. ASSUME Inv, NEW e \in Entries \ spilled
      PROVE  /\ Running(e) = (IF at[e] \in Served THEN {held[e]} ELSE {})
             /\ at[e] \in {"absent", "idle", "error"} => Live(e) = {}
  <2>1. CASE at[e] \in Served
    <3>1. held[e] \in Running(e)
      BY <1>2, <2>1 DEF Running, Live, Inv, Kept
    <3>2. \A s \in Running(e) : s = held[e]
      BY <1>2, <2>1 DEF Running, Live, Inv, Alone
    <3> QED BY <2>1, <3>1, <3>2 DEF Served
  <2>2. CASE at[e] \notin Served
    BY <1>2, <2>2 DEF Running, Live, Inv, Alone
  <2> QED BY <2>1, <2>2
<1>3. Inv => OneServer
  BY <1>1, <1>2 DEF OneServer, Served
<1> QED BY <1>3, Invariant, PTL

(* The OTA button of any entry whose platform never failed to unload talks *)
(* to the server in hass.data, which runs: the platforms are unloaded      *)
(* before the server is stopped.                                           *)
THEOREM ButtonHasServer == Spec => []ButtonCurrent
<1>1. Inv => ButtonCurrent
  BY DEF Inv, Kept, Pressable, Served, ButtonCurrent
<1> QED BY <1>1, Invariant, PTL

-----------------------------------------------------------------------------
(* The config flow.                                                        *)

(* The mode is that of the form; a host is only there once it was picked.  *)
FormFits ==
    /\ step \in {"scanning", "esp32", "esp32_manual"} => mode = "esp32"
    /\ step \in {"esphome", "esphome_manual"} => mode = "esphome"
    /\ step # "finished" => host \notin Hosts

(* The loop has every adapter ahead that is enabled, but for those that    *)
(* were enabled, or refused, since the answer.                             *)
LoopCovers ==
    step = "disabling" =>
      /\ todo # <<>>
      /\ \A a \in enabled \ excused : \E i \in DOMAIN todo : todo[i] = a

FlowInv == FlowTypeOK /\ FormFits /\ LoopCovers /\ KeyCurrent /\ NoConflictLeft

LEMMA SequenceOfSet ==
    ASSUME NEW S, IsFiniteSet(S), S # {}
    PROVE  /\ SetToSeq(S) \in Seq(S) /\ SetToSeq(S) # <<>>
           /\ \A x \in S : \E i \in DOMAIN SetToSeq(S) : SetToSeq(S)[i] = x
<1> DEFINE n == Cardinality(S)
           f == SetToSeq(S)
<1>1. n \in Nat /\ n # 0 /\ ExistsBijection(1..n, S)
  BY FS_CardinalityType, FS_EmptySet
<1>2. PICK g \in [1..n -> S] : IsInjective(g)
  BY <1>1 DEF ExistsBijection, Bijection, Injection, IsInjective
<1>3. f \in [1..n -> S] /\ IsInjective(f)
  BY <1>2 DEF SetToSeq
<1>4. f \in Injection(1..n, S)
  BY <1>3 DEF Injection, IsInjective
<1>5. Cardinality(1..n) = n
  BY <1>1, FS_Interval
<1> HIDE DEF n, f
<1>6. f \in Surjection(1..n, S)
  BY <1>4, <1>5, FS_Injection DEF n
<1>7. f \in Seq(S) /\ f # <<>>
  BY <1>1, <1>3
<1>8. \A x \in S : \E i \in DOMAIN f : f[i] = x
  BY <1>3, <1>6 DEF Surjection
<1> QED BY <1>7, <1>8 DEF f

LEMMA FlowInitInv == Init => FlowInv
<1> SUFFICES ASSUME Init PROVE FlowInv
  OBVIOUS
<1>1. devices \in [Hosts -> Keys \cup {NotListed}]
  BY DEF Init, FlowInit, Keys
<1>2. FlowTypeOK
  <2>1. options \in [Hosts -> Keys \cup {NotListed}]
    BY DEF Init, FlowInit, NoOptions
  <2>2. todo \in Seq(Adapters)
    <3>1. todo = <<>>
      BY DEF Init, FlowInit
    <3>2. <<>> \in Seq(Adapters)
      OBVIOUS
    <3> QED BY <3>1, <3>2
  <2> QED BY <1>1, <2>1, <2>2 DEF Init, FlowInit, FlowTypeOK, Modes, Keys
<1>3. FormFits /\ LoopCovers /\ KeyCurrent /\ NoConflictLeft
  BY ConfigAssumption DEF Init, FlowInit, FormFits, LoopCovers, KeyCurrent, NoConflictLeft
<1> QED BY <1>2, <1>3 DEF FlowInv

(* A new flow object.                                                      *)
LEMMA FlowResets ==
    ASSUME FlowInv, NEW s \in {"none", "user"}, FlowIs(s), UNCHANGED haVars PROVE FlowInv'
<1>1. FlowTypeOK'
  <2>1. options' \in [Hosts -> Keys \cup {NotListed}]
    BY DEF FlowIs, NoOptions
  <2>2. todo' \in Seq(Adapters)
    <3>1. todo' = <<>>
      BY DEF FlowIs
    <3>2. <<>> \in Seq(Adapters)
      OBVIOUS
    <3> QED BY <3>1, <3>2
  <2> QED BY <2>1, <2>2 DEF FlowInv, FlowTypeOK, FlowIs, haVars, Modes, Keys
<1>2. FormFits' /\ LoopCovers' /\ KeyCurrent' /\ NoConflictLeft'
  BY ConfigAssumption DEF FlowIs, FormFits, LoopCovers, KeyCurrent, NoConflictLeft
<1> QED BY <1>1, <1>2 DEF FlowInv

LEMMA ChoosesModeInv == ASSUME FlowInv, ChoosesMode PROVE FlowInv'
<1>1. FlowTypeOK'
  BY DEF FlowInv, FlowTypeOK, ChoosesMode, Shows, AfterNative, Conflicts, haVars, Modes
<1>2. step = "user" /\ host \notin Hosts /\ UNCHANGED <<host, haVars>>
  BY DEF FlowInv, FormFits, ChoosesMode, Shows
<1>3. FormFits' /\ LoopCovers' /\ KeyCurrent'
  BY <1>2 DEF ChoosesMode, Shows, AfterNative, FormFits, LoopCovers, KeyCurrent
<1>4. NoConflictLeft'
  BY <1>2 DEF ChoosesMode, Shows, AfterNative, Conflicts, NoConflictLeft, haVars
<1> QED BY <1>1, <1>3, <1>4 DEF FlowInv

LEMMA ChoosesPortInv == ASSUME FlowInv, ChoosesPort PROVE FlowInv'
<1>1. FlowTypeOK'
  BY DEF FlowInv, FlowTypeOK, ChoosesPort, Shows, haVars
<1>2. /\ step \in {"scanning", "esp32", "esp32_manual"} /\ mode = "esp32" /\ host \notin Hosts
      /\ step' \in {"esp32", "esp32_manual", "finished"} /\ UNCHANGED <<mode, host>>
  BY DEF FlowInv, FormFits, ChoosesPort, Shows
<1>3. FormFits' /\ LoopCovers' /\ KeyCurrent' /\ NoConflictLeft'
  BY <1>2 DEF FormFits, LoopCovers, KeyCurrent, NoConflictLeft
<1> QED BY <1>1, <1>3 DEF FlowInv

(* The key is looked up when the answer comes, in the same step.           *)
LEMMA ChoosesDeviceInv == ASSUME FlowInv, ChoosesDevice PROVE FlowInv'
<1>1. /\ step = "esphome" /\ mode = "esphome" /\ host \notin Hosts
      /\ UNCHANGED <<haVars, mode, options, todo>> /\ excused' = {}
      /\ \/ /\ step' = "finished"
            /\ \E h \in Listed(options) : host' = h /\ key' = KeyOf(h)
         \/ step' = "esphome_manual" /\ UNCHANGED <<host, key>>
  BY DEF FlowInv, FormFits, ChoosesDevice, Shows
<1>2. CASE step' = "finished" /\ \E h \in Listed(options) : host' = h /\ key' = KeyOf(h)
  <2>1. PICK h \in Hosts : host' = h /\ key' = KeyOf(h)
    BY <1>2 DEF Listed
  <2>2. key' = IF devices[h] = NotListed THEN "none" ELSE devices[h]
    BY <2>1 DEF KeyOf, Listed
  <2>3. devices[h] # NotListed => devices[h] \in Keys
    BY DEF FlowInv, FlowTypeOK
  <2>4. FlowTypeOK'
    BY <1>1, <1>2, <2>1, <2>2, <2>3 DEF FlowInv, FlowTypeOK, haVars, Keys
  <2>5. KeyCurrent'
    BY <1>1, <2>1, <2>2 DEF KeyCurrent, haVars
  <2>6. FormFits' /\ LoopCovers' /\ NoConflictLeft'
    BY <1>1, <1>2 DEF FormFits, LoopCovers, NoConflictLeft
  <2> QED BY <2>4, <2>5, <2>6 DEF FlowInv
<1>3. CASE step' = "esphome_manual" /\ UNCHANGED <<host, key>>
  <2>1. FlowTypeOK'
    BY <1>1, <1>3 DEF FlowInv, FlowTypeOK, haVars
  <2>2. FormFits' /\ LoopCovers' /\ KeyCurrent' /\ NoConflictLeft'
    BY <1>1, <1>3 DEF FormFits, LoopCovers, KeyCurrent, NoConflictLeft
  <2> QED BY <2>1, <2>2 DEF FlowInv
<1> QED BY <1>1, <1>2, <1>3

LEMMA TypesDeviceInv == ASSUME FlowInv, TypesDevice PROVE FlowInv'
<1>1. FlowTypeOK'
  BY DEF FlowInv, FlowTypeOK, TypesDevice, Shows, haVars, Keys
<1>2. mode = "esphome" /\ mode' = mode /\ step' = "finished" /\ host' \notin Hosts
  BY ConfigAssumption DEF FlowInv, FormFits, TypesDevice, Shows
<1>3. FormFits' /\ LoopCovers' /\ KeyCurrent' /\ NoConflictLeft'
  BY <1>2 DEF FormFits, LoopCovers, KeyCurrent, NoConflictLeft
<1> QED BY <1>1, <1>3 DEF FlowInv

(* The loop is over all the conflicts there are when the answer comes.     *)
LEMMA AnswersWarningInv == ASSUME FlowInv, AnswersWarning PROVE FlowInv'
<1>1. /\ step = "native_warn" /\ host \notin Hosts
      /\ UNCHANGED <<haVars, mode, host, key, options>>
      /\ enabled \subseteq Adapters
  BY DEF FlowInv, FlowTypeOK, FormFits, AnswersWarning, Shows
<1>2. CASE step' = "finished" /\ excused' = Adapters /\ UNCHANGED todo
  <2>1. FlowTypeOK'
    BY <1>1, <1>2 DEF FlowInv, FlowTypeOK, haVars
  <2>2. FormFits' /\ LoopCovers' /\ KeyCurrent' /\ NoConflictLeft'
    BY <1>1, <1>2 DEF FormFits, LoopCovers, KeyCurrent, NoConflictLeft, haVars
  <2> QED BY <2>1, <2>2 DEF FlowInv
<1>3. CASE enabled # {} /\ step' = "disabling" /\ excused' = {} /\ todo' = SetToSeq(enabled)
  <2>1. IsFiniteSet(enabled)
    BY <1>1, ConfigAssumption, FS_Subset
  <2>2. /\ todo' \in Seq(enabled) /\ todo' # <<>>
        /\ \A a \in enabled : \E i \in DOMAIN todo' : todo'[i] = a
    BY <1>3, <2>1, SequenceOfSet
  <2>3. FlowTypeOK'
    <3>1. todo' \in Seq(Adapters)
      BY <1>1, <2>2
    <3> QED BY <1>1, <1>3, <3>1 DEF FlowInv, FlowTypeOK, haVars
  <2>4. FormFits' /\ LoopCovers' /\ KeyCurrent' /\ NoConflictLeft'
    BY <1>1, <1>3, <2>2 DEF FormFits, LoopCovers, KeyCurrent, NoConflictLeft, haVars
  <2> QED BY <2>3, <2>4 DEF FlowInv
<1> QED BY <1>2, <1>3 DEF AnswersWarning, Shows, Conflicts

(* Whatever becomes of the first, the loop goes on with the others.        *)
LEMMA DisablesInv == ASSUME FlowInv, Disables PROVE FlowInv'
<1>1. /\ step = "disabling" /\ host \notin Hosts
      /\ todo # <<>> /\ todo \in Seq(Adapters) /\ todo' = Tail(todo)
      /\ step' = IF todo' = <<>> THEN "finished" ELSE "disabling"
      /\ enabled \subseteq Adapters /\ excused \subseteq Hosts \cup Adapters
      /\ UNCHANGED <<mode, host, key, options, devices>>
  BY DEF FlowInv, FlowTypeOK, FormFits, LoopCovers, Disables, LoopGoesOn
<1>2. /\ todo' \in Seq(Adapters) /\ 1 \in DOMAIN todo /\ Head(todo) = todo[1]
      /\ \A i \in DOMAIN todo : i # 1 => i - 1 \in DOMAIN todo' /\ todo'[i - 1] = todo[i]
      /\ Head(todo) \in Adapters
  BY <1>1
<1>3. \/ enabled' = enabled \ {Head(todo)} /\ excused' = excused
      \/ excused' = excused \cup {Head(todo)} /\ enabled' = enabled
  BY DEF Disables
<1>4. enabled' \subseteq Adapters /\ excused' \subseteq Hosts \cup Adapters
  BY <1>1, <1>2, <1>3
<1>5. FlowTypeOK'
  BY <1>1, <1>2, <1>4 DEF FlowInv, FlowTypeOK
<1>6. ASSUME NEW a \in enabled' \ excused' PROVE \E i \in DOMAIN todo' : todo'[i] = a
  <2>1. a \in enabled \ excused /\ a # Head(todo)
    BY <1>3, <1>6
  <2>2. PICK i \in DOMAIN todo : todo[i] = a
    BY <1>1, <2>1 DEF FlowInv, LoopCovers
  <2>3. i # 1
    BY <1>2, <2>1, <2>2
  <2> QED BY <1>2, <2>2, <2>3
<1>7. LoopCovers'
  BY <1>1, <1>6 DEF LoopCovers
<1>8. NoConflictLeft'
  <2>1. todo' = <<>> => enabled' \subseteq excused'
    BY <1>6
  <2> QED BY <1>1, <2>1 DEF NoConflictLeft
<1>9. FormFits' /\ KeyCurrent'
  BY <1>1 DEF FormFits, KeyCurrent
<1> QED BY <1>5, <1>7, <1>8, <1>9 DEF FlowInv

(* Devices and adapters change under the flow.                             *)
LEMMA DeviceChangesInv == ASSUME FlowInv, NEW h \in Hosts, DeviceChanges(h) PROVE FlowInv'
<1>1. /\ UNCHANGED <<step, mode, host, key, options, todo, enabled>>
      /\ excused' = IF step \in {"disabling", "finished"} THEN excused \cup {h} ELSE excused
      /\ excused \subseteq excused'
  BY DEF DeviceChanges, Changed, flowVars
<1>2. devices' \in [Hosts -> Keys \cup {NotListed}] /\ \A x \in Hosts \ {h} : devices'[x] = devices[x]
  BY DEF DeviceChanges, FlowInv, FlowTypeOK, Keys
<1>3. FlowTypeOK'
  BY <1>1, <1>2 DEF FlowInv, FlowTypeOK
<1>4. FormFits' /\ LoopCovers' /\ NoConflictLeft'
  BY <1>1 DEF FlowInv, FormFits, LoopCovers, NoConflictLeft
<1>5. KeyCurrent'
  <2>1. step = "finished" => h \in excused'
    BY <1>1
  <2> QED BY <1>1, <1>2, <2>1 DEF FlowInv, KeyCurrent
<1> QED BY <1>3, <1>4, <1>5 DEF FlowInv

LEMMA AdapterChangesInv == ASSUME FlowInv, NEW a \in Adapters, AdapterChanges(a) PROVE FlowInv'
<1>1. /\ UNCHANGED <<step, mode, host, key, options, todo, devices>>
      /\ \/ enabled' = enabled \ {a} /\ excused' = excused
         \/ /\ enabled' = enabled \cup {a}
            /\ excused' = IF step \in {"disabling", "finished"} THEN excused \cup {a} ELSE excused
  BY DEF AdapterChanges, Changed, flowVars
<1>2. FlowTypeOK'
  <2>1. enabled' \subseteq Adapters /\ excused' \subseteq Hosts \cup Adapters
    BY <1>1 DEF FlowInv, FlowTypeOK
  <2> QED BY <1>1, <2>1 DEF FlowInv, FlowTypeOK
<1>3. excused \subseteq excused'
  BY <1>1
<1>4. step \in {"disabling", "finished"} => enabled' \ excused' \subseteq enabled \ excused
  BY <1>1
<1>5. LoopCovers' /\ NoConflictLeft'
  BY <1>1, <1>4 DEF FlowInv, LoopCovers, NoConflictLeft
<1>6. FormFits' /\ KeyCurrent'
  BY <1>1, <1>3 DEF FlowInv, FormFits, KeyCurrent
<1> QED BY <1>2, <1>5, <1>6 DEF FlowInv

LEMMA FlowNextInv == ASSUME FlowInv, [Next]_vars PROVE FlowInv'
<1>1. CASE UNCHANGED configVars
  BY <1>1 DEF configVars, flowVars, haVars, FlowInv, FlowTypeOK, FormFits, LoopCovers, KeyCurrent,
              NoConflictLeft
<1>2. CASE Flow
  BY <1>2, FlowResets, ChoosesModeInv, ChoosesPortInv, ChoosesDeviceInv, TypesDeviceInv,
     AnswersWarningInv, DisablesInv DEF Flow, FlowStarts
<1>3. CASE HaChanges
  BY <1>3, DeviceChangesInv, AdapterChangesInv DEF HaChanges
<1>4. ASSUME NEW e \in Entries, EntryMade(e) PROVE FlowInv'
  BY <1>4, FlowResets DEF EntryMade
<1>5. ASSUME NEW e \in Entries, Steps(e) PROVE UNCHANGED configVars
  BY <1>5 DEF Steps, SetupBegins, SetupEnds, SetupFails, PlatformsUnload, Unloads, UnloadEnds
<1>6. ASSUME NEW e \in Entries, NEW purpose, TakenDown(e, purpose) PROVE UNCHANGED configVars
  BY <1>6 DEF TakenDown
<1>7. ASSUME NEW s \in Servers, StopReturns(s) \/ StopRaises(s)
      PROVE  UNCHANGED configVars
  BY <1>7 DEF StopReturns, StopRaises
<1>8. UNCHANGED vars => UNCHANGED configVars
  BY DEF vars
<1> QED BY <1>1, <1>2, <1>3, <1>4, <1>5, <1>6, <1>7, <1>8 DEF Next, Outside

LEMMA FlowInvariant == Spec => []FlowInv
<1>1. Init => FlowInv
  BY FlowInitInv
<1>2. FlowInv /\ [Next]_vars => FlowInv'
  BY FlowNextInv
<1> QED BY <1>1, <1>2, PTL DEF Spec

(* An entry made of a listed device has the key that was known when the    *)
(* user picked it.                                                         *)
THEOREM KeyIsCurrent == Spec => []KeyCurrent
<1>1. FlowInv => KeyCurrent
  BY DEF FlowInv
<1> QED BY <1>1, FlowInvariant, PTL

(* The loop that disables the conflicts leaves none but those that refused *)
(* or came later, whichever of its calls fail.                             *)
THEOREM ConflictsDisabled == Spec => []NoConflictLeft
<1>1. FlowInv => NoConflictLeft
  BY DEF FlowInv
<1> QED BY <1>1, FlowInvariant, PTL

-----------------------------------------------------------------------------
(* Types.                                                                  *)

DataTyped == data \in [Entries -> Modes \cup {"legacy", "no host"}]

LEMMA DataNext == ASSUME FlowInv, DataTyped, [Next]_vars PROVE DataTyped'
<1>1. ASSUME NEW e \in Entries, EntryMade(e) PROVE DataTyped'
  BY <1>1 DEF EntryMade, EntryData, FlowInv, FlowTypeOK, DataTyped
<1>2. ASSUME NEW e \in Entries, SetupBegins(e) PROVE DataTyped'
  BY <1>2 DEF SetupBegins, Migrated, DataTyped, Modes
<1>3. CASE UNCHANGED data
  BY <1>3 DEF DataTyped
<1>4. \/ \E e \in Entries : EntryMade(e) \/ SetupBegins(e)
      \/ UNCHANGED data
  BY DEF Next, Outside, entryVars, Steps, SetupEnds, SetupFails, TakenDown, PlatformsUnload, Unloads,
         StopReturns, StopRaises, UnloadEnds, vars
<1> QED BY <1>1, <1>2, <1>3, <1>4

(* Every variable of the flow and of the entries keeps its type.           *)
THEOREM TypeCorrect == Spec => []TypeOK
<1>1. Init => DataTyped
  BY DEF Init, DataTyped
<1>2. FlowInv /\ DataTyped /\ [Next]_vars => DataTyped'
  BY DataNext
<1>3. Inv /\ FlowInv /\ DataTyped => TypeOK
  BY DEF Inv, Typed, Places, FlowInv, DataTyped, TypeOK
<1> QED BY <1>1, <1>2, <1>3, Invariant, FlowInvariant, PTL DEF Spec
=============================================================================
