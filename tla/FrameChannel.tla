---------------------------- MODULE FrameChannel ----------------------------
(***************************************************************************)
(* What every transport of the integration promises while it stays up:     *)
(* the packets given to it come out at the other end whole, once each and  *)
(* in the order they were given.                                           *)
(***************************************************************************)
EXTENDS Naturals, Sequences

CONSTANT Frames     \* the packets that may be sent

VARIABLES
    submitted,      \* packets given to the transport
    delivered       \* packets handed over at the other end

chanVars == <<submitted, delivered>>

ChanInit == submitted = <<>> /\ delivered = <<>>

Submit ==
    /\ \E f \in Frames : submitted' = Append(submitted, f)
    /\ UNCHANGED delivered

Deliver ==
    /\ Len(delivered) < Len(submitted)
    /\ delivered' = Append(delivered, submitted[Len(delivered) + 1])
    /\ UNCHANGED submitted

ChanSpec == ChanInit /\ [][Submit \/ Deliver]_chanVars

(* A transport that also keeps going.                                      *)
ChanFairSpec == ChanSpec /\ WF_chanVars(Deliver)
=============================================================================
