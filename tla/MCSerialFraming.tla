-------------------------- MODULE MCSerialFraming --------------------------
(***************************************************************************)
(* SerialFraming for TLC: a packet without payload and one with two bytes  *)
(* of it, the second of which begins like a packet.                        *)
(***************************************************************************)
EXTENDS SerialFraming

MCPasscode == <<0, 1, 226, 64>>

MCPackets == {[cmd |-> 1, payload |-> <<>>],
              [cmd |-> 16, payload |-> <<170, 187>>]}
=============================================================================
