--------------------------- MODULE ChunkTransfer ---------------------------
(***************************************************************************)
(* Packets over the BLE characteristics: the sender cuts a packet into     *)
(* chunks of a flag and at most ChunkSize bytes (_encode_chunks in the     *)
(* native server, encode_ble_chunks in protocol.py), the chunks travel in  *)
(* order, and the receiver appends them to a buffer that it hands over at  *)
(* a FINAL flag (_handle_write, decode_ble_chunks).                        *)
(*                                                                         *)
(* One iteration of the encoder's loop is a step, and so that the steps of *)
(* one call of send_frame stay together, as they do on the event loop, the *)
(* receiver runs only between two calls.  Chunks are neither lost nor      *)
(* reordered here: GattServer has the full queue and the lost client.      *)
(***************************************************************************)
EXTENDS Naturals, Sequences

CONSTANTS
    Byte,       \* the bytes packets are made of
    Frames,     \* the packets that may be sent
    ChunkSize,  \* _CHUNK_SIZE (244), BLE_MAX_PAYLOAD (508)
    MaxFrames   \* bound: packets sent in a behaviour

ASSUME ChunkAssumption ==
    /\ ChunkSize \in Nat \ {0}
    /\ Frames \subseteq Seq(Byte) \ {<<>>}
    /\ MaxFrames \in Nat

VARIABLES
    submitted,  \* history: the packets send_frame was called with
    data,       \* the packet being cut up, <<>> between calls
    offset,     \* how much of it is in chunks
    wire,       \* chunks sent and not yet written at the other end
    rxBuf,      \* the receiver's _rx_buf
    delivered   \* frames handed to on_frame

vars == <<submitted, data, offset, wire, rxBuf, delivered>>

Init ==
    /\ submitted = <<>>
    /\ data = <<>>
    /\ offset = 0
    /\ wire = <<>>
    /\ rxBuf = <<>>
    /\ delivered = <<>>

(* A packet has a header, so it is never empty.                            *)
SendFrame ==
    /\ data = <<>>
    /\ Len(submitted) < MaxFrames
    /\ \E f \in Frames :
         /\ submitted' = Append(submitted, f)
         /\ data' = f
    /\ offset' = 0
    /\ UNCHANGED <<wire, rxBuf, delivered>>

EndUncut == Len(data)

(* end = min(offset + _CHUNK_SIZE, len(data))                              *)
End == IF offset + ChunkSize <= Len(data) THEN offset + ChunkSize ELSE Len(data)

FinalWhenShort == End < offset + ChunkSize

(* The chunk is flagged FINAL exactly when it ends the packet.             *)
IsFinal == End = Len(data)

(* The fields `of` and `from` say which bytes these are; no guard reads    *)
(* them.                                                                   *)
NewChunk ==
    [final   |-> IsFinal,
     payload |-> SubSeq(data, offset + 1, End),
     of      |-> Len(submitted),
     from    |-> offset]

MoreFullChunks == End + ChunkSize <= Len(data)

(* The loop goes on while bytes are left.                                  *)
MoreBytes == End < Len(data)

(* One iteration of `while offset < len(data)`.                            *)
EncodeChunk ==
    /\ data # <<>>
    /\ wire' = Append(wire, NewChunk)
    /\ IF MoreBytes
       THEN offset' = End /\ UNCHANGED data
       ELSE offset' = 0 /\ data' = <<>>
    /\ UNCHANGED <<submitted, rxBuf, delivered>>

(* _handle_write of a chunk that is not the last of its frame.             *)
WriteContinues ==
    /\ data = <<>>
    /\ wire # <<>>
    /\ ~Head(wire).final
    /\ rxBuf' = rxBuf \o Head(wire).payload
    /\ wire' = Tail(wire)
    /\ UNCHANGED <<submitted, data, offset, delivered>>

RxUncleared == rxBuf' = rxBuf \o Head(wire).payload

RxCleared == rxBuf' = <<>>

(* _handle_write of a FINAL chunk: the buffer is handed over and cleared.  *)
WriteFinal ==
    /\ data = <<>>
    /\ wire # <<>>
    /\ Head(wire).final
    /\ delivered' = Append(delivered, rxBuf \o Head(wire).payload)
    /\ RxCleared
    /\ wire' = Tail(wire)
    /\ UNCHANGED <<submitted, data, offset>>

Next == SendFrame \/ EncodeChunk \/ WriteContinues \/ WriteFinal

Spec == Init /\ [][Next]_vars

(* The encoder's loop runs to its end, and what was sent is written.       *)
FairSpec == Spec /\ WF_vars(EncodeChunk) /\ WF_vars(WriteContinues \/ WriteFinal)

-----------------------------------------------------------------------------
(* The type of every variable; a chunk carries some bytes, at most         *)
(* ChunkSize of them.                                                      *)
Chunk == [final : BOOLEAN, payload : Seq(Byte), of : Nat, from : Nat]

TypeOK ==
    /\ submitted \in Seq(Frames)
    /\ data \in Seq(Byte)
    /\ offset \in Nat
    /\ wire \in Seq(Chunk)
    /\ \A i \in 1..Len(wire) : Len(wire[i].payload) \in 1..ChunkSize
    /\ rxBuf \in Seq(Byte)
    /\ delivered \in Seq(Seq(Byte))

(* The transfer is a FrameChannel: packets are delivered whole, once and   *)
(* in order, whatever their length is relative to ChunkSize.               *)
Channel == INSTANCE FrameChannel WITH submitted <- submitted, delivered <- delivered

IsChannel == Channel!ChanSpec

(* Under FairSpec every packet that was sent is eventually delivered.      *)
KeepsDelivering == Channel!ChanFairSpec

(* Where the i-th chunk on the wire begins; one past the last stands for   *)
(* the chunk the encoder produces next.                                    *)
PosOf(i) ==
    IF i <= Len(wire) THEN wire[i].of
    ELSE IF data = <<>> THEN Len(submitted) + 1 ELSE Len(submitted)

PosFrom(i) ==
    IF i <= Len(wire) THEN wire[i].from
    ELSE IF data = <<>> THEN 0 ELSE offset

(* Where the chunk c ends in its packet, and that it is that piece of it.  *)
PieceEnd(c) ==
    IF c.from + ChunkSize <= Len(submitted[c.of])
    THEN c.from + ChunkSize ELSE Len(submitted[c.of])

IsPiece(c) ==
    /\ c.of \in 1..Len(submitted)
    /\ c.from < Len(submitted[c.of])
    /\ c.payload = SubSeq(submitted[c.of], c.from + 1, PieceEnd(c))
    /\ c.final <=> PieceEnd(c) = Len(submitted[c.of])

WireFits ==
    \A i \in 1..Len(wire) :
      /\ IsPiece(wire[i])
      /\ PosOf(i + 1) = (IF wire[i].final THEN wire[i].of + 1 ELSE wire[i].of)
      /\ PosFrom(i + 1) = (IF wire[i].final THEN 0 ELSE PieceEnd(wire[i]))

EncoderFits ==
    data # <<>> => /\ Len(submitted) > 0
                   /\ data = submitted[Len(submitted)]
                   /\ offset < Len(data)

ReceiverFits ==
    /\ PosOf(1) = Len(delivered) + 1
    /\ Len(rxBuf) = PosFrom(1)
    /\ rxBuf # <<>> => rxBuf = SubSeq(submitted[PosOf(1)], 1, PosFrom(1))

DeliveredFits ==
    /\ Len(delivered) <= Len(submitted)
    /\ \A i \in 1..Len(delivered) : delivered[i] = submitted[i]

(* Each chunk on the wire is the piece of its packet it claims to be,      *)
(* begins where the one before it ended, and the receiver's buffer is      *)
(* exactly what precedes the first: nothing is lost, repeated or mixed up  *)
(* between two packets, and what was handed over is what was sent.         *)
PiecesFit == EncoderFits /\ WireFits /\ ReceiverFits /\ DeliveredFits
=============================================================================
