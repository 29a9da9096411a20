---------------------------- MODULE PacketCodec ----------------------------
(***************************************************************************)
(* protocol.py on bytes: the CRC, the packet with its passcode, and the    *)
(* length prefix of the serial line.                                       *)
(***************************************************************************)
EXTENDS Naturals, Sequences, SequencesExt

CONSTANTS
    Passcode,   \* the four bytes of the passcode
    MaxFrame    \* _USB_MAX_FRAME (16 MB)

Byte == 0..255

ASSUME PasscodeAssumption == Passcode \in Seq(Byte) /\ Len(Passcode) = 4

(* The longest packet fits, and 32 MB are too much.                        *)
ASSUME FrameAssumption ==
    MaxFrame \in Nat /\ MaxFrame >= 14 + 65535 /\ MaxFrame < 33554432

Magic == <<170, 187>>

EndMagic == <<204, 221>>

(* struct.pack and unpack of big-endian unsigned integers: "!H" and "!I".  *)
PackH(n) == <<(n \div 256) % 256, n % 256>>

PackI(n) == PackH(n \div 65536) \o PackH(n % 65536)

UnpackH(b) == 256 * b[1] + b[2]

UnpackI(b) == 16777216 * b[1] + 65536 * b[2] + 256 * b[3] + b[4]

-----------------------------------------------------------------------------
(* crc16_ccitt.  A register is the set of its bits that are 1, so that     *)
(* exclusive or is the symmetric difference.                               *)
BitsOf(n) == {i \in 0..15 : (n \div 2^i) % 2 = 1}

Polynomial == BitsOf(4129)

ShiftBit(crc) ==
    LET shifted == {i + 1 : i \in crc \ {15}}
    IN  IF 15 \in crc THEN SymDiff(shifted, Polynomial) ELSE shifted

AddByte(crc, byte) ==
    LET after[n \in 0..8] ==
          IF n = 0 THEN SymDiff(crc, BitsOf(256 * byte))
          ELSE ShiftBit(after[n - 1])
    IN  after[8]

Crc16(data) ==
    LET after[n \in 0..Len(data)] ==
          IF n = 0 THEN BitsOf(65535)
          ELSE AddByte(after[n - 1], data[n])
    IN  after[Len(data)]

(* The byte made of the bits from high down.                               *)
ByteAt(high, crc) ==
    LET bit(i) == IF high - i \in crc THEN 1 ELSE 0
    IN  128 * bit(0) + 64 * bit(1) + 32 * bit(2) + 16 * bit(3)
          + 8 * bit(4) + 4 * bit(5) + 2 * bit(6) + bit(7)

CrcBytes(data) == <<ByteAt(15, Crc16(data)), ByteAt(7, Crc16(data))>>

(* encode_packet; the flags are 0.                                         *)
EncodePacket(p) ==
    LET inner == Passcode \o <<p.cmd, 0>> \o PackH(Len(p.payload)) \o p.payload
    IN  Magic \o inner \o CrcBytes(inner) \o EndMagic

(* The parts of a packet of at least 14 bytes, as decode_packet cuts it.   *)
Inner(data) == SubSeq(data, 3, Len(data) - 4)

PayloadLen(data) == UnpackH(SubSeq(Inner(data), 7, 8))

Framed(data) ==
    /\ Len(data) >= 14
    /\ SubSeq(data, 1, 2) = Magic
    /\ SubSeq(data, Len(data) - 1, Len(data)) = EndMagic

Unchecked(data) == TRUE

CrcFits(data) == CrcBytes(Inner(data)) = SubSeq(data, Len(data) - 3, Len(data) - 2)

(* decode_packet, with the dispatcher's comparison of the passcode: the    *)
(* packet, if data is one.                                                 *)
DecodePacket(data) ==
    IF /\ Framed(data)
       /\ CrcFits(data)
       /\ Len(Inner(data)) >= 8 + PayloadLen(data)
       /\ SubSeq(Inner(data), 1, 4) = Passcode
    THEN <<[cmd     |-> Inner(data)[5],
            payload |-> SubSeq(Inner(data), 9, 8 + PayloadLen(data))]>>
    ELSE <<>>

-----------------------------------------------------------------------------
(* frame_for_usb.                                                          *)
FrameForUsb(data) == PackI(Len(data)) \o data

(* The length a header says; from 32 MB on they are all too much.          *)
LengthOf(header) == IF header[1] > 1 THEN 2 * MaxFrame ELSE UnpackI(header)

Plausible(header) == 0 < LengthOf(header) /\ LengthOf(header) <= MaxFrame
=============================================================================
