--------------------------- MODULE SerialFraming ---------------------------
(***************************************************************************)
(* The serial line from the ESP32, byte by byte: rfcomm_read_frame finds   *)
(* the length-prefixed frames among whatever else is printed on the port,  *)
(* and the dispatcher decodes what it finds.  UsbBridge has the session    *)
(* around this reader, and the control messages, which are no packets.     *)
(***************************************************************************)
EXTENDS PacketCodec

CONSTANTS
    Packets,    \* the packets the phone may send
    Garbage,    \* bytes the ESP32 may print between two frames
    Garbled,    \* what a byte may be garbled to
    MaxResync,  \* _USB_MAX_RESYNC_BYTES (4096 in the code)
    MaxPackets, \* bound: packets sent in a behaviour
    MaxGarbage, \* bound: bytes of garbage in a behaviour
    MaxFaults   \* bound: bytes lost or garbled in a behaviour

(* The least length that is too much is 1 0 0 1: a byte from 2 on is never *)
(* the first of a plausible header.                                        *)
ASSUME SerialAssumption ==
    /\ Packets \subseteq [cmd : Byte, payload : Seq(Byte)]
    /\ \A p \in Packets : Len(p.payload) <= 65535
    /\ Garbage \subseteq 2..255
    /\ Garbled \subseteq Byte
    /\ MaxResync \in Nat /\ MaxPackets \in Nat
    /\ MaxGarbage \in Nat /\ MaxFaults \in Nat

VARIABLES
    submitted,  \* history: the packets that were sent
    stream,     \* bytes sent and not yet read
    header,     \* the 4-byte window, <<>> between two frames
    skipped,    \* how far it has slid
    delivered,  \* history: the packets the dispatcher accepted
    garbage,    \* how many bytes of garbage there were
    faults      \* how many bytes were lost or garbled

vars == <<submitted, stream, header, skipped, delivered, garbage, faults>>

(* The type of every variable.  The window never slides further than       *)
(* MaxResync, and what is accepted is a packet.                            *)
TypeOK ==
    /\ submitted \in Seq(Packets)
    /\ stream \in Seq(Byte)
    /\ header = <<>> \/ (Len(header) = 4 /\ header \in Seq(Byte))
    /\ skipped \in 0..MaxResync
    /\ delivered \in Seq([cmd : Byte, payload : Seq(Byte)])
    /\ garbage \in 0..MaxGarbage
    /\ faults \in 0..MaxFaults

Init ==
    /\ submitted = <<>>
    /\ stream = <<>>
    /\ header = <<>>
    /\ skipped = 0
    /\ delivered = <<>>
    /\ garbage = 0
    /\ faults = 0

-----------------------------------------------------------------------------
(* rfcomm_read_frame: readexactly waits until there are enough bytes.      *)

ReadsHeader ==
    /\ header = <<>>
    /\ Len(stream) >= 4
    /\ header' = SubSeq(stream, 1, 4)
    /\ stream' = SubSeq(stream, 5, Len(stream))
    /\ skipped' = 0
    /\ UNCHANGED <<submitted, delivered, garbage, faults>>

WindowJumps ==
    /\ Len(stream) >= 4
    /\ header' = SubSeq(stream, 1, 4)
    /\ stream' = SubSeq(stream, 5, Len(stream))

(* The oldest byte is dropped and the next one read.                       *)
WindowSlides ==
    /\ stream # <<>>
    /\ header' = Append(Tail(header), Head(stream))
    /\ stream' = Tail(stream)

TooFarNever == FALSE

TooFar == skipped + 1 > MaxResync

Slides ==
    /\ header # <<>>
    /\ ~Plausible(header)
    /\ ~TooFar
    /\ WindowSlides
    /\ skipped' = skipped + 1
    /\ UNCHANGED <<submitted, delivered, garbage, faults>>

(* ValueError: the bridge ends, and the next session drains the port.      *)
GivesUp ==
    /\ header # <<>>
    /\ ~Plausible(header)
    /\ TooFar
    /\ header' = <<>>
    /\ stream' = <<>>
    /\ skipped' = 0
    /\ UNCHANGED <<submitted, delivered, garbage, faults>>

(* The frame is read, and dropped unless it is a packet.                   *)
ReadsFrame ==
    /\ header # <<>>
    /\ Plausible(header)
    /\ Len(stream) >= LengthOf(header)
    /\ delivered' = delivered \o DecodePacket(SubSeq(stream, 1, LengthOf(header)))
    /\ stream' = SubSeq(stream, LengthOf(header) + 1, Len(stream))
    /\ header' = <<>>
    /\ skipped' = 0
    /\ UNCHANGED <<submitted, garbage, faults>>

Reader == ReadsHeader \/ Slides \/ GivesUp \/ ReadsFrame

-----------------------------------------------------------------------------
(* The ESP32 and the line.                                                 *)

(* What is written for a packet.                                           *)
Written == [p \in Packets |-> FrameForUsb(EncodePacket(p))]

Sends(p) ==
    /\ Len(submitted) < MaxPackets
    /\ submitted' = Append(submitted, p)
    /\ stream' = stream \o Written[p]
    /\ UNCHANGED <<header, skipped, delivered, garbage, faults>>

Prints(byte) ==
    /\ garbage < MaxGarbage
    /\ garbage' = garbage + 1
    /\ stream' = Append(stream, byte)
    /\ UNCHANGED <<submitted, header, skipped, delivered, faults>>

Disturbs ==
    /\ faults < MaxFaults
    /\ faults' = faults + 1
    /\ UNCHANGED <<submitted, header, skipped, delivered, garbage>>

LosesByte == Disturbs /\ \E i \in DOMAIN stream : stream' = RemoveAt(stream, i)

GarblesByte ==
    /\ Disturbs
    /\ \E i \in DOMAIN stream : \E byte \in Garbled : stream' = [stream EXCEPT ![i] = byte]

Line == \/ \E p \in Packets : Sends(p)
        \/ \E byte \in Garbage : Prints(byte)
        \/ LosesByte
        \/ GarblesByte

Next == Reader \/ Line

Spec == Init /\ [][Next]_vars

-----------------------------------------------------------------------------
(* Whatever is printed, lost or garbled, and wherever the reader finds a   *)
(* plausible length: a packet it accepts is one that was sent, unaltered,  *)
(* once at most, and after those accepted before.                          *)
Lossy == INSTANCE LossyChannel WITH submitted <- submitted, delivered <- delivered

KeepsOrder == Lossy!LossySpec

Undisturbed == faults = 0 /\ garbage <= MaxResync

(* readexactly has not got what the reader needs next.                     *)
Waits ==
    Len(stream) < (IF header = <<>> THEN 4
                   ELSE IF Plausible(header) THEN LengthOf(header) ELSE 1)

(* Garbage between two frames costs no packet, as long as there is no more *)
(* of it than the reader skips: it never waits for the rest of a frame     *)
(* that was not sent, and when it waits it has handed over everything.     *)
GarbageHarmless ==
    Undisturbed => /\ IsPrefix(delivered, submitted)
                   /\ Waits => delivered = submitted
=============================================================================
