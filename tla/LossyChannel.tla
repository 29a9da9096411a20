---------------------------- MODULE LossyChannel ----------------------------
(***************************************************************************)
(* What a transport of the integration promises over a line that may lose  *)
(* or garble what it carries: a packet that comes out was given to it, and *)
(* the packets come out in the order they were given, each once at most.   *)
(***************************************************************************)
EXTENDS Naturals, Sequences

CONSTANT Packets    \* the packets that may be sent

VARIABLES
    submitted,      \* packets given to the transport
    delivered       \* packets handed over at the other end

lossyVars == <<submitted, delivered>>

(* s is what is left of t when some of its elements are left out.          *)
Embeds(s, t) ==
    \E at \in [DOMAIN s -> DOMAIN t] :
       /\ \A i \in DOMAIN s : s[i] = t[at[i]]
       /\ \A i, j \in DOMAIN s : i < j => at[i] < at[j]

LossyInit == submitted = <<>> /\ delivered = <<>>

Submits ==
    /\ \E p \in Packets : submitted' = Append(submitted, p)
    /\ UNCHANGED delivered

Delivers ==
    /\ \E p \in Packets : delivered' = Append(delivered, p)
    /\ Embeds(delivered', submitted)
    /\ UNCHANGED submitted

LossySpec == LossyInit /\ [][Submits \/ Delivers]_lossyVars
=============================================================================
