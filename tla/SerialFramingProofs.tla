------------------------ MODULE SerialFramingProofs ------------------------
(***************************************************************************)
(* What the resynchronising reader of the serial line guarantees, proved   *)
(* for any packets and any number of them.  On a line that loses nothing,  *)
(* garbage costs no packet, if the reader skips as much; and with any      *)
(* amount of it, packets are lost but neither altered nor reordered.       *)
(***************************************************************************)
EXTENDS SerialFraming, SequenceTheorems, TLAPS

-----------------------------------------------------------------------------
(* Sequences of bytes.                                                     *)

(* u is s and then t.                                                      *)
IsCat(u, s, t) ==
    /\ u \in Seq(Byte)
    /\ Len(u) = Len(s) + Len(t)
    /\ \A i \in 1..Len(s) : u[i] = s[i]
    /\ \A i \in 1..Len(t) : u[Len(s) + i] = t[i]

LEMMA CatIs ==
    ASSUME NEW s \in Seq(Byte), NEW t \in Seq(Byte) PROVE IsCat(s \o t, s, t)
<1>1. /\ s \o t \in Seq(Byte)
      /\ Len(s \o t) = Len(s) + Len(t)
      /\ \A i \in 1..(Len(s) + Len(t)) :
           (s \o t)[i] = IF i <= Len(s) THEN s[i] ELSE t[i - Len(s)]
  BY ConcatProperties
<1>2. Len(s) \in Nat /\ Len(t) \in Nat
  BY LenProperties
<1>3. \A i \in 1..Len(s) : (s \o t)[i] = s[i]
  BY <1>1, <1>2
<1>4. ASSUME NEW i \in 1..Len(t) PROVE (s \o t)[Len(s) + i] = t[i]
  <2>1. /\ Len(s) + i \in 1..(Len(s) + Len(t))
        /\ ~(Len(s) + i <= Len(s))
        /\ (Len(s) + i) - Len(s) = i
    BY <1>2
  <2> QED BY <1>1, <2>1
<1> QED BY <1>1, <1>3, <1>4 DEF IsCat

(* u is what s has from m to n.                                            *)
IsCut(u, s, m, n) ==
    /\ u \in Seq(Byte)
    /\ Len(u) = n + 1 - m
    /\ \A i \in 1..(n + 1 - m) : u[i] = s[m + i - 1]

LEMMA CutIs ==
    ASSUME NEW s \in Seq(Byte), NEW m \in Nat \ {0}, NEW n \in Nat,
           m <= n + 1, n <= Len(s)
    PROVE  IsCut(SubSeq(s, m, n), s, m, n)
<1>1. Len(s) \in Nat /\ \A i \in 1..Len(s) : s[i] \in Byte
  BY LenProperties, ElementOfSeq
<1>2. SubSeq(s, m, n) = [i \in 1..(n + 1 - m) |-> s[i + m - 1]]
  BY <1>1
<1>3. [i \in 1..(n + 1 - m) |-> s[i + m - 1]] \in [1..(n + 1 - m) -> Byte]
  BY <1>1
<1>4. n + 1 - m \in Nat
  OBVIOUS
<1>5. SubSeq(s, m, n) \in Seq(Byte)
  BY <1>2, <1>3, <1>4, SeqDef
<1>6. Len(SubSeq(s, m, n)) = n + 1 - m
  BY <1>2, <1>3, <1>4, <1>5, LenProperties
<1>7. ASSUME NEW i \in 1..(n + 1 - m) PROVE SubSeq(s, m, n)[i] = s[m + i - 1]
  BY <1>2
<1> QED BY <1>5, <1>6, <1>7 DEF IsCut

(* Sequences of the same elements are the same.                            *)
LEMMA SameSeq ==
    ASSUME NEW s \in Seq(Byte), NEW t \in Seq(Byte), Len(s) = Len(t),
           \A i \in 1..Len(s) : s[i] = t[i]
    PROVE  s = t
BY SeqEqual

-----------------------------------------------------------------------------
(* The codec.                                                              *)

LEMMA ByteIsNat == \A b \in Byte : b \in Nat
BY DEF Byte

LEMMA PackHIs ==
    ASSUME NEW n \in Nat
    PROVE  /\ PackH(n) \in Seq(Byte) /\ Len(PackH(n)) = 2
           /\ PackH(n)[1] = (n \div 256) % 256 /\ PackH(n)[2] = n % 256
<1>1. (n \div 256) % 256 \in Byte /\ n % 256 \in Byte
  BY DEF Byte
<1> QED BY <1>1 DEF PackH

(* Unpacking what was packed: a number that fits in two bytes.             *)
LEMMA PackHBack ==
    ASSUME NEW n \in Nat, n \div 256 < 256
    PROVE  256 * PackH(n)[1] + PackH(n)[2] = n
<1>1. PackH(n)[1] = (n \div 256) % 256 /\ PackH(n)[2] = n % 256
  BY PackHIs
<1>2. (n \div 256) % 256 = n \div 256 /\ n = 256 * (n \div 256) + (n % 256)
  BY SMT
<1> QED BY <1>1, <1>2

LEMMA TwoAndTwo ==
    ASSUME NEW s \in Seq(Byte), NEW t \in Seq(Byte), Len(s) = 2, Len(t) = 2
    PROVE  /\ s \o t \in Seq(Byte) /\ Len(s \o t) = 4
           /\ (s \o t)[1] = s[1] /\ (s \o t)[2] = s[2]
           /\ (s \o t)[3] = t[1] /\ (s \o t)[4] = t[2]
           /\ s[1] \in Byte /\ s[2] \in Byte /\ t[1] \in Byte /\ t[2] \in Byte
<1>1. 1 \in 1..2 /\ 2 \in 1..2 /\ 2 + 1 = 3 /\ 2 + 2 = 4
  OBVIOUS
<1> DEFINE u == s \o t
<1>7. IsCat(u, s, t)
  BY CatIs
<1> HIDE DEF u
<1>2. u \in Seq(Byte) /\ Len(u) = 4
  BY <1>1, <1>7 DEF IsCat
<1>3. u[1] = s[1] /\ u[2] = s[2]
  BY <1>1, <1>7 DEF IsCat
<1>4. u[2 + 1] = t[1] /\ u[2 + 2] = t[2]
  BY <1>1, <1>7 DEF IsCat
<1>5. s[1] \in Byte /\ s[2] \in Byte /\ t[1] \in Byte /\ t[2] \in Byte
  BY <1>1, ElementOfSeq
<1> QED BY <1>1, <1>2, <1>3, <1>4, <1>5 DEF u

High(n) == n \div 65536

Low(n) == n % 65536

LEMMA PackIParts ==
    ASSUME NEW n \in Nat, High(n) \in Nat, Low(n) \in Nat,
           High(n) < 512, Low(n) \div 256 < 256
    PROVE  /\ PackI(n) \in Seq(Byte) /\ Len(PackI(n)) = 4
           /\ PackI(n)[1] <= 1
           /\ PackI(n)[1] \in Byte /\ PackI(n)[2] \in Byte
           /\ PackI(n)[3] \in Byte /\ PackI(n)[4] \in Byte
           /\ 256 * PackI(n)[1] + PackI(n)[2] = High(n)
           /\ 256 * PackI(n)[3] + PackI(n)[4] = Low(n)
<1>1. PackI(n) = PackH(High(n)) \o PackH(Low(n))
  BY DEF PackI, High, Low
<1>2. /\ PackH(High(n)) \in Seq(Byte) /\ Len(PackH(High(n))) = 2
      /\ PackH(High(n))[1] = (High(n) \div 256) % 256
  BY PackHIs
<1>3. PackH(Low(n)) \in Seq(Byte) /\ Len(PackH(Low(n))) = 2
  BY PackHIs
<1>4. High(n) \div 256 < 256 /\ (High(n) \div 256) % 256 <= 1
  OBVIOUS
<1>5. /\ 256 * PackH(High(n))[1] + PackH(High(n))[2] = High(n)
      /\ 256 * PackH(Low(n))[1] + PackH(Low(n))[2] = Low(n)
  BY <1>4, PackHBack
<1> HIDE DEF High, Low
<1> DEFINE a == PackH(High(n))
           b == PackH(Low(n))
<1>6. /\ a \o b \in Seq(Byte) /\ Len(a \o b) = 4
      /\ (a \o b)[1] = a[1] /\ (a \o b)[2] = a[2]
      /\ (a \o b)[3] = b[1] /\ (a \o b)[4] = b[2]
      /\ a[1] \in Byte /\ a[2] \in Byte /\ b[1] \in Byte /\ b[2] \in Byte
  BY <1>2, <1>3, TwoAndTwo
<1> QED BY <1>1, <1>2, <1>4, <1>5, <1>6

(* A length with which a header does not begin like garbage.               *)
Believable(n) == n < 33554432

(* Unpacking what was packed: a number of four bytes that the reader takes *)
(* for a length.                                                           *)
LEMMA PackIIs ==
    ASSUME NEW n \in Nat, Believable(n)
    PROVE  /\ PackI(n) \in Seq(Byte) /\ Len(PackI(n)) = 4
           /\ PackI(n)[1] <= 1 /\ UnpackI(PackI(n)) = n
<1>1. /\ High(n) \in Nat /\ Low(n) \in Nat /\ n = 65536 * High(n) + Low(n)
      /\ High(n) < 512 /\ Low(n) < 65536
  BY SMT DEF High, Low, Believable
<1>2. Low(n) \div 256 < 256
  BY <1>1, SMT
<1>3. /\ PackI(n) \in Seq(Byte) /\ Len(PackI(n)) = 4
      /\ PackI(n)[1] <= 1
      /\ PackI(n)[1] \in Byte /\ PackI(n)[2] \in Byte
      /\ PackI(n)[3] \in Byte /\ PackI(n)[4] \in Byte
      /\ 256 * PackI(n)[1] + PackI(n)[2] = High(n)
      /\ 256 * PackI(n)[3] + PackI(n)[4] = Low(n)
  BY <1>1, <1>2, PackIParts, SMT
<1>4. /\ PackI(n)[1] \in Nat /\ PackI(n)[2] \in Nat
      /\ PackI(n)[3] \in Nat /\ PackI(n)[4] \in Nat
  BY <1>3, ByteIsNat
<1>5. UnpackI(PackI(n)) =
         65536 * (256 * PackI(n)[1] + PackI(n)[2]) + (256 * PackI(n)[3] + PackI(n)[4])
  BY <1>4, SMT DEF UnpackI
<1> QED BY <1>1, <1>3, <1>5, SMT

LEMMA ByteAtIs == ASSUME NEW high, NEW crc PROVE ByteAt(high, crc) \in Byte
<1> DEFINE bit(i) == IF high - i \in crc THEN 1 ELSE 0
<1>1. \A i : bit(i) \in {0, 1}
  OBVIOUS
<1> HIDE DEF bit
<1>2. 128 * bit(0) + 64 * bit(1) + 32 * bit(2) + 16 * bit(3)
        + 8 * bit(4) + 4 * bit(5) + 2 * bit(6) + bit(7) \in 0..255
  BY <1>1, SMT
<1> QED BY <1>2, SMT DEF bit, ByteAt, Byte

LEMMA CrcBytesIs ==
    ASSUME NEW data PROVE CrcBytes(data) \in Seq(Byte) /\ Len(CrcBytes(data)) = 2
<1>1. ByteAt(15, Crc16(data)) \in Byte /\ ByteAt(7, Crc16(data)) \in Byte
  BY ByteAtIs
<1> QED BY <1>1 DEF CrcBytes

PacketType == [cmd : Byte, payload : Seq(Byte)]

(* What the CRC covers.                                                    *)
InnerOf(p) == Passcode \o <<p.cmd, 0>> \o PackH(Len(p.payload)) \o p.payload

LEMMA InnerIs ==
    ASSUME NEW p \in PacketType
    PROVE  /\ InnerOf(p) \in Seq(Byte) /\ Len(InnerOf(p)) = 8 + Len(p.payload)
           /\ \A i \in 1..4 : InnerOf(p)[i] = Passcode[i]
           /\ InnerOf(p)[5] = p.cmd
           /\ InnerOf(p)[7] = PackH(Len(p.payload))[1]
           /\ InnerOf(p)[8] = PackH(Len(p.payload))[2]
           /\ \A i \in 1..Len(p.payload) : InnerOf(p)[8 + i] = p.payload[i]
<1> DEFINE b == <<p.cmd, 0>>
           c == PackH(Len(p.payload))
           ab == Passcode \o b
           abc == ab \o c
<1>1. Passcode \in Seq(Byte) /\ Len(Passcode) = 4
  BY PasscodeAssumption
<1>2. p.payload \in Seq(Byte) /\ Len(p.payload) \in Nat /\ p.cmd \in Byte
  BY LenProperties DEF PacketType
<1>3. b \in Seq(Byte) /\ Len(b) = 2 /\ b[1] = p.cmd
  BY <1>2 DEF Byte
<1>4. c \in Seq(Byte) /\ Len(c) = 2
  BY <1>2, PackHIs
<1> HIDE DEF b, c
<1>5. IsCat(ab, Passcode, b)
  BY <1>1, <1>3, CatIs
<1> HIDE DEF ab
<1>6. ab \in Seq(Byte)
  BY <1>5 DEF IsCat
<1>7. IsCat(abc, ab, c)
  BY <1>4, <1>6, CatIs
<1> HIDE DEF abc
<1>8. InnerOf(p) = abc \o p.payload
  BY DEF InnerOf, b, c, ab, abc
<1>9. abc \in Seq(Byte)
  BY <1>7 DEF IsCat
<1>10. IsCat(InnerOf(p), abc, p.payload)
  <2>1. IsCat(abc \o p.payload, abc, p.payload)
    BY <1>2, <1>9, CatIs
  <2> QED BY <1>8, <2>1
<1>11. Len(ab) = 6 /\ Len(abc) = 8
  BY <1>1, <1>3, <1>4, <1>5, <1>7 DEF IsCat
<1>12. ASSUME NEW i \in 1..4 PROVE InnerOf(p)[i] = Passcode[i]
  <2>1. i \in 1..8 /\ i \in 1..6
    OBVIOUS
  <2>2. ab[i] = Passcode[i]
    BY <1>1, <1>5 DEF IsCat
  <2>3. abc[i] = ab[i]
    BY <1>7, <1>11, <2>1 DEF IsCat
  <2> QED BY <1>10, <1>11, <2>1, <2>2, <2>3 DEF IsCat
<1>13. InnerOf(p)[5] = p.cmd
  <2>1. 5 \in 1..8 /\ 5 \in 1..6 /\ 1 \in 1..2 /\ 4 + 1 = 5
    OBVIOUS
  <2>2. ab[4 + 1] = b[1]
    BY <1>1, <1>3, <1>5, <2>1 DEF IsCat
  <2>3. abc[5] = ab[5]
    BY <1>7, <1>11, <2>1 DEF IsCat
  <2> QED BY <1>3, <1>10, <1>11, <2>1, <2>2, <2>3 DEF IsCat
<1>14. InnerOf(p)[7] = c[1] /\ InnerOf(p)[8] = c[2]
  <2>1. 7 \in 1..8 /\ 8 \in 1..8 /\ 1 \in 1..2 /\ 2 \in 1..2 /\ 6 + 1 = 7 /\ 6 + 2 = 8
    OBVIOUS
  <2>2. abc[6 + 1] = c[1] /\ abc[6 + 2] = c[2]
    BY <1>4, <1>7, <1>11, <2>1 DEF IsCat
  <2> QED BY <1>10, <1>11, <2>1, <2>2 DEF IsCat
<1>15. /\ InnerOf(p) \in Seq(Byte) /\ Len(InnerOf(p)) = 8 + Len(p.payload)
       /\ \A i \in 1..Len(p.payload) : InnerOf(p)[8 + i] = p.payload[i]
  BY <1>10, <1>11 DEF IsCat
<1> QED BY <1>12, <1>13, <1>14, <1>15 DEF c

LEMMA EncodedIs ==
    ASSUME NEW p \in PacketType
    PROVE  /\ EncodePacket(p) \in Seq(Byte)
           /\ Len(EncodePacket(p)) = 14 + Len(p.payload)
           /\ EncodePacket(p)[1] = 170 /\ EncodePacket(p)[2] = 187
           /\ \A i \in 1..Len(InnerOf(p)) : EncodePacket(p)[2 + i] = InnerOf(p)[i]
           /\ \A i \in 1..2 :
                /\ EncodePacket(p)[2 + Len(InnerOf(p)) + i] = CrcBytes(InnerOf(p))[i]
                /\ EncodePacket(p)[4 + Len(InnerOf(p)) + i] = EndMagic[i]
<1> DEFINE e == EncodePacket(p)
           n == InnerOf(p)
           c == CrcBytes(InnerOf(p))
           mn == Magic \o n
           mnc == mn \o c
<1>1. e = mnc \o EndMagic
  BY DEF EncodePacket, InnerOf
<1>2. n \in Seq(Byte) /\ Len(n) = 8 + Len(p.payload)
  BY InnerIs
<1>3. c \in Seq(Byte) /\ Len(c) = 2
  BY CrcBytesIs
<1>4. /\ Magic \in Seq(Byte) /\ Len(Magic) = 2 /\ Magic[1] = 170 /\ Magic[2] = 187
      /\ EndMagic \in Seq(Byte) /\ Len(EndMagic) = 2
  BY DEF Magic, EndMagic, Byte
<1>5. Len(p.payload) \in Nat
  BY LenProperties DEF PacketType
<1> HIDE DEF e, n, c
<1>6. IsCat(mn, Magic, n)
  <2>1. n \in Seq(Byte) /\ Magic \in Seq(Byte)
    BY <1>2, <1>4
  <2> QED BY <2>1, CatIs
<1> HIDE DEF mn
<1>7. IsCat(mnc, mn, c)
  <2>1. mn \in Seq(Byte) /\ c \in Seq(Byte)
    BY <1>3, <1>6 DEF IsCat
  <2> QED BY <2>1, CatIs
<1> HIDE DEF mnc
<1>8. IsCat(e, mnc, EndMagic)
  <2>1. mnc \in Seq(Byte) /\ EndMagic \in Seq(Byte)
    BY <1>4, <1>7 DEF IsCat
  <2>2. IsCat(mnc \o EndMagic, mnc, EndMagic)
    BY <2>1, CatIs
  <2> QED BY <1>1, <2>2
<1>9. /\ Len(n) \in Nat /\ Len(mn) = 2 + Len(n) /\ Len(mnc) = 4 + Len(n)
      /\ Len(e) = 14 + Len(p.payload)
  BY <1>2, <1>3, <1>4, <1>5, <1>6, <1>7, <1>8 DEF IsCat
<1>10. e[1] = 170 /\ e[2] = 187
  <2>1. /\ 1 \in 1..2 /\ 1 \in 1..Len(mn) /\ 1 \in 1..Len(mnc)
        /\ 2 \in 1..2 /\ 2 \in 1..Len(mn) /\ 2 \in 1..Len(mnc)
    BY <1>9
  <2>2. mn[1] = Magic[1] /\ mn[2] = Magic[2]
    BY <1>4, <1>6, <2>1 DEF IsCat
  <2> QED BY <1>4, <1>7, <1>8, <2>1, <2>2 DEF IsCat
<1>11. ASSUME NEW i \in 1..Len(n) PROVE e[2 + i] = n[i]
  <2>1. 2 + i \in 1..Len(mn) /\ 2 + i \in 1..Len(mnc)
    BY <1>9
  <2>2. mn[2 + i] = n[i]
    BY <1>4, <1>6 DEF IsCat
  <2> QED BY <1>7, <1>8, <2>1, <2>2 DEF IsCat
<1>12. ASSUME NEW i \in 1..2
       PROVE e[2 + Len(n) + i] = c[i] /\ e[4 + Len(n) + i] = EndMagic[i]
  <2>1. 2 + Len(n) + i \in 1..Len(mnc)
    BY <1>9
  <2>2. mnc[2 + Len(n) + i] = c[i]
    BY <1>3, <1>7, <1>9 DEF IsCat
  <2>3. e[4 + Len(n) + i] = EndMagic[i]
    BY <1>4, <1>8, <1>9 DEF IsCat
  <2> QED BY <1>8, <2>1, <2>2, <2>3 DEF IsCat
<1>13. e \in Seq(Byte)
  BY <1>8 DEF IsCat
<1> QED BY <1>9, <1>10, <1>11, <1>12, <1>13 DEF e, n, c

LEMMA CutSame ==
    ASSUME NEW s \in Seq(Byte), NEW t \in Seq(Byte),
           NEW m \in Nat \ {0}, NEW n \in Nat, m <= n + 1, n <= Len(s),
           Len(t) = n + 1 - m, \A i \in 1..Len(t) : s[m + i - 1] = t[i]
    PROVE  SubSeq(s, m, n) = t
<1> DEFINE u == SubSeq(s, m, n)
<1>1. IsCut(u, s, m, n)
  BY CutIs
<1> HIDE DEF u
<1>2. u \in Seq(Byte) /\ Len(u) = Len(t) /\ \A i \in 1..Len(u) : u[i] = t[i]
  BY <1>1 DEF IsCut
<1>3. u = t
  BY <1>2, SameSeq
<1> QED BY <1>3 DEF u

(* decode_packet undoes encode_packet, whatever crc16_ccitt computes.      *)
LEMMA Decoded ==
    ASSUME NEW p \in PacketType, Len(p.payload) \div 256 < 256
    PROVE  DecodePacket(EncodePacket(p)) = <<p>>
<1> DEFINE e == EncodePacket(p)
           n == InnerOf(p)
           l == Len(p.payload)
<1>1. /\ e \in Seq(Byte) /\ Len(e) = 14 + l
      /\ e[1] = 170 /\ e[2] = 187
      /\ \A i \in 1..Len(n) : e[2 + i] = n[i]
      /\ \A i \in 1..2 : /\ e[2 + Len(n) + i] = CrcBytes(n)[i]
                         /\ e[4 + Len(n) + i] = EndMagic[i]
  BY EncodedIs
<1>2. /\ n \in Seq(Byte) /\ Len(n) = 8 + l
      /\ \A i \in 1..4 : n[i] = Passcode[i]
      /\ n[5] = p.cmd
      /\ n[7] = PackH(l)[1] /\ n[8] = PackH(l)[2]
      /\ \A i \in 1..l : n[8 + i] = p.payload[i]
  BY InnerIs
<1>3. l \in Nat /\ p.payload \in Seq(Byte)
  BY LenProperties DEF PacketType
<1>4. CrcBytes(n) \in Seq(Byte) /\ Len(CrcBytes(n)) = 2
  BY CrcBytesIs
<1>5. 256 * PackH(l)[1] + PackH(l)[2] = l
  BY <1>3, PackHBack
<1> HIDE DEF e, n, l
<1>6. Framed(e)
  <2>1. /\ Magic \in Seq(Byte) /\ EndMagic \in Seq(Byte)
        /\ Len(Magic) = 2 /\ Len(EndMagic) = 2
        /\ \A i \in 1..2 : Magic[i] = e[1 + i - 1]
    BY <1>1 DEF Magic, EndMagic, Byte
  <2>2. SubSeq(e, 1, 2) = Magic
    BY <1>1, <1>3, <2>1, CutSame
  <2>3. \A i \in 1..2 : e[(Len(e) - 1) + i - 1] = EndMagic[i]
    <3>1. ASSUME NEW i \in 1..2 PROVE e[(Len(e) - 1) + i - 1] = EndMagic[i]
      <4>1. (Len(e) - 1) + i - 1 = 4 + Len(n) + i
        BY <1>1, <1>2, <1>3
      <4> QED BY <1>1, <4>1
    <3> QED BY <3>1
  <2>4. Len(e) - 1 \in Nat \ {0} /\ Len(e) \in Nat /\ Len(e) >= 14
    BY <1>1, <1>3
  <2>5. SubSeq(e, Len(e) - 1, Len(e)) = EndMagic
    <3>1. /\ Len(e) - 1 <= Len(e) + 1 /\ Len(e) <= Len(e)
          /\ Len(EndMagic) = Len(e) + 1 - (Len(e) - 1)
          /\ \A i \in 1..Len(EndMagic) : e[(Len(e) - 1) + i - 1] = EndMagic[i]
      BY <2>1, <2>3, <2>4
    <3>2. e \in Seq(Byte) /\ EndMagic \in Seq(Byte)
      BY <1>1, <2>1
    <3> QED BY <2>4, <3>1, <3>2, CutSame
  <2> QED BY <2>2, <2>4, <2>5 DEF Framed
<1>7. Inner(e) = n
  <2>1. \A i \in 1..Len(n) : e[3 + i - 1] = n[i]
    <3>1. ASSUME NEW i \in 1..Len(n) PROVE e[3 + i - 1] = n[i]
      <4>1. 3 + i - 1 = 2 + i
        BY <1>2, <1>3
      <4> QED BY <1>1, <4>1
    <3> QED BY <3>1
  <2>2. /\ 3 \in Nat \ {0} /\ Len(e) - 4 \in Nat /\ 3 <= (Len(e) - 4) + 1
        /\ Len(e) - 4 <= Len(e) /\ Len(n) = (Len(e) - 4) + 1 - 3
    BY <1>1, <1>2, <1>3
  <2>3. e \in Seq(Byte) /\ n \in Seq(Byte)
    BY <1>1, <1>2
  <2>4. SubSeq(e, 3, Len(e) - 4) = n
    BY <2>1, <2>2, <2>3, CutSame
  <2> QED BY <2>4 DEF Inner
<1>8. CrcFits(e)
  <2>1. \A i \in 1..2 : e[(Len(e) - 3) + i - 1] = CrcBytes(n)[i]
    <3>1. ASSUME NEW i \in 1..2 PROVE e[(Len(e) - 3) + i - 1] = CrcBytes(n)[i]
      <4>1. (Len(e) - 3) + i - 1 = 2 + Len(n) + i
        BY <1>1, <1>2, <1>3
      <4> QED BY <1>1, <4>1
    <3> QED BY <3>1
  <2>2. /\ Len(e) - 3 \in Nat \ {0} /\ Len(e) - 2 \in Nat
        /\ Len(e) - 3 <= (Len(e) - 2) + 1 /\ Len(e) - 2 <= Len(e)
        /\ 2 = (Len(e) - 2) + 1 - (Len(e) - 3)
    BY <1>1, <1>3
  <2>3. SubSeq(e, Len(e) - 3, Len(e) - 2) = CrcBytes(n)
    <3>1. /\ Len(CrcBytes(n)) = (Len(e) - 2) + 1 - (Len(e) - 3)
          /\ \A i \in 1..Len(CrcBytes(n)) : e[(Len(e) - 3) + i - 1] = CrcBytes(n)[i]
      BY <1>4, <2>1, <2>2
    <3>2. e \in Seq(Byte) /\ CrcBytes(n) \in Seq(Byte)
      BY <1>1, <1>4
    <3> QED BY <2>2, <3>1, <3>2, CutSame
  <2> QED BY <1>7, <2>3 DEF CrcFits
<1>9. PayloadLen(e) = l
  <2>1. IsCut(SubSeq(n, 7, 8), n, 7, 8)
    <3>1. n \in Seq(Byte) /\ 7 \in Nat \ {0} /\ 8 \in Nat /\ 7 <= 8 + 1 /\ 8 <= Len(n)
      BY <1>2, <1>3
    <3> QED BY <3>1, CutIs
  <2>2. SubSeq(n, 7, 8)[1] = n[7] /\ SubSeq(n, 7, 8)[2] = n[8]
    BY <2>1 DEF IsCut
  <2> QED BY <1>2, <1>5, <1>7, <2>2 DEF PayloadLen, UnpackH
<1>10. SubSeq(n, 1, 4) = Passcode
  <2>1. \A i \in 1..4 : n[1 + i - 1] = Passcode[i]
    BY <1>2
  <2> QED BY <1>2, <1>3, <2>1, PasscodeAssumption, CutSame
<1>11. SubSeq(n, 9, 8 + l) = p.payload
  <2>1. \A i \in 1..l : n[9 + i - 1] = p.payload[i]
    <3>1. ASSUME NEW i \in 1..l PROVE n[9 + i - 1] = p.payload[i]
      <4>1. 9 + i - 1 = 8 + i
        BY <1>3
      <4> QED BY <1>2, <4>1
    <3> QED BY <3>1
  <2>2. 9 <= (8 + l) + 1 /\ 8 + l \in Nat /\ l = (8 + l) + 1 - 9
    BY <1>3
  <2> QED BY <1>2, <1>3, <2>1, <2>2, CutSame DEF l
<1>12. p = [cmd |-> p.cmd, payload |-> p.payload]
  BY DEF PacketType
<1>13. Len(n) >= 8 + l
  BY <1>2, <1>3
<1> QED BY <1>2, <1>6, <1>7, <1>8, <1>9, <1>10, <1>11, <1>12, <1>13 DEF DecodePacket, e

(* What decode_packet returns is a packet, or nothing.                     *)
LEMMA DecodedType ==
    ASSUME NEW data \in Seq(Byte)
    PROVE  DecodePacket(data) \in Seq(PacketType)
<1> DEFINE n == Inner(data)
           l == PayloadLen(data)
<1>1. CASE Framed(data) /\ Len(n) >= 8 + l
  <2>1. Len(data) >= 14 /\ Len(data) \in Nat
    BY <1>1, LenProperties DEF Framed
  <2>2. IsCut(n, data, 3, Len(data) - 4)
    BY <2>1, CutIs DEF Inner
  <2> HIDE DEF n
  <2>3. n \in Seq(Byte) /\ Len(n) = Len(data) - 6
    BY <2>1, <2>2 DEF IsCut
  <2>4. IsCut(SubSeq(n, 7, 8), n, 7, 8)
    BY <2>1, <2>3, CutIs
  <2>5. /\ SubSeq(n, 7, 8)[1] = n[7] /\ SubSeq(n, 7, 8)[2] = n[8]
        /\ n[5] \in Byte /\ n[7] \in Byte /\ n[8] \in Byte
    <3>1. 5 \in 1..Len(n) /\ 7 \in 1..Len(n) /\ 8 \in 1..Len(n)
      BY <2>1, <2>3
    <3>2. SubSeq(n, 7, 8)[1] = n[7] /\ SubSeq(n, 7, 8)[2] = n[8]
      BY <2>4 DEF IsCut
    <3> QED BY <2>3, <3>1, <3>2, ElementOfSeq
  <2>6. l \in Nat
    <3>1. l = 256 * n[7] + n[8]
      BY <2>5 DEF PayloadLen, UnpackH, n
    <3>2. n[7] \in Nat /\ n[8] \in Nat
      BY <2>5, ByteIsNat
    <3> QED BY <3>1, <3>2
  <2> HIDE DEF l
  <2>7. IsCut(SubSeq(n, 9, 8 + l), n, 9, 8 + l)
    BY <1>1, <2>3, <2>6, CutIs
  <2>8. SubSeq(n, 9, 8 + l) \in Seq(Byte)
    BY <2>7 DEF IsCut
  <2>9. [cmd |-> n[5], payload |-> SubSeq(n, 9, 8 + l)] \in PacketType
    BY <2>5, <2>8 DEF PacketType
  <2>10. <<[cmd |-> n[5], payload |-> SubSeq(n, 9, 8 + l)]>> \in Seq(PacketType)
    BY <2>9
  <2>11. <<>> \in Seq(PacketType)
    OBVIOUS
  <2> QED BY <2>10, <2>11 DEF DecodePacket, n, l
<1>2. CASE ~(Framed(data) /\ Len(n) >= 8 + l)
  BY <1>2 DEF DecodePacket
<1> QED BY <1>1, <1>2

(* A payload as long as its two bytes of length can say.                   *)
Short(l) == l <= 65535

LEMMA PacketsFit ==
    ASSUME NEW p \in Packets
    PROVE  /\ p \in PacketType /\ Len(p.payload) \in Nat
           /\ Len(p.payload) \div 256 < 256
           /\ 14 + Len(p.payload) <= MaxFrame
           /\ Believable(14 + Len(p.payload))
<1>1. p \in PacketType
  BY SerialAssumption DEF PacketType
<1>2. Len(p.payload) \in Nat
  BY <1>1, LenProperties DEF PacketType
<1>3. Short(Len(p.payload))
  BY SerialAssumption, SMT DEF Short
<1>4. ASSUME NEW l \in Nat, Short(l)
      PROVE  l \div 256 < 256 /\ Believable(14 + l) /\ 14 + l <= MaxFrame
  <2>1. l \div 256 < 256
    BY <1>4, SMT DEF Short
  <2>2. 14 + l < 33554432
    BY <1>4, SMT DEF Short
  <2>3. 14 + l <= MaxFrame
    BY <1>4, FrameAssumption, SMT DEF Short
  <2> QED BY <2>1, <2>2, <2>3, SMT DEF Believable
<1> QED BY <1>1, <1>2, <1>3, <1>4

(* What the ESP32 writes for a packet: a length the reader believes, and   *)
(* the packet.                                                             *)
LEMMA WrittenIs ==
    ASSUME NEW p \in Packets
    PROVE  /\ EncodePacket(p) \in Seq(Byte)
           /\ Len(EncodePacket(p)) \in Nat /\ Len(EncodePacket(p)) >= 14
           /\ Len(EncodePacket(p)) <= MaxFrame
           /\ Written[p] \in Seq(Byte)
           /\ Len(Written[p]) = 4 + Len(EncodePacket(p))
           /\ Written[p][1] <= 1
           /\ UnpackI(Written[p]) = Len(EncodePacket(p))
           /\ \A i \in 1..Len(EncodePacket(p)) : Written[p][4 + i] = EncodePacket(p)[i]
<1> DEFINE e == EncodePacket(p)
           h == PackI(Len(e))
           w == Written[p]
<1>1. e \in Seq(Byte) /\ Len(e) \in Nat /\ Len(e) >= 14 /\ Len(e) <= MaxFrame
  <2>1. Len(e) = 14 + Len(p.payload) /\ e \in Seq(Byte)
    BY PacketsFit, EncodedIs
  <2>2. Len(p.payload) \in Nat /\ 14 + Len(p.payload) <= MaxFrame
    BY PacketsFit
  <2> QED BY <2>1, <2>2
<1>2. Believable(Len(e))
  <2>1. Len(e) = 14 + Len(p.payload)
    BY PacketsFit, EncodedIs
  <2>2. Believable(14 + Len(p.payload))
    BY PacketsFit
  <2> QED BY <2>1, <2>2
<1> HIDE DEF e
<1>3. h \in Seq(Byte) /\ Len(h) = 4 /\ h[1] <= 1 /\ UnpackI(h) = Len(e)
  BY <1>1, <1>2, PackIIs
<1>4. w = h \o e
  BY DEF Written, FrameForUsb, e
<1> HIDE DEF h, w
<1>5. IsCat(w, h, e)
  <2>1. IsCat(h \o e, h, e)
    BY <1>1, <1>3, CatIs
  <2> QED BY <1>4, <2>1
<1>6. w \in Seq(Byte) /\ Len(w) = 4 + Len(e)
  BY <1>3, <1>5 DEF IsCat
<1>7. w[1] = h[1] /\ w[2] = h[2] /\ w[3] = h[3] /\ w[4] = h[4]
  <2>1. 1 \in 1..4 /\ 2 \in 1..4 /\ 3 \in 1..4 /\ 4 \in 1..4
    OBVIOUS
  <2>2. \A i \in 1..4 : w[i] = h[i]
    BY <1>3, <1>5 DEF IsCat
  <2> QED BY <2>1, <2>2
<1>8. \A i \in 1..Len(e) : w[4 + i] = e[i]
  BY <1>3, <1>5 DEF IsCat
<1>9. UnpackI(w) = Len(e)
  BY <1>3, <1>7, SMT DEF UnpackI
<1> QED BY <1>1, <1>3, <1>6, <1>7, <1>8, <1>9 DEF e, w

(* The reader takes the first four bytes of it for the length it is.       *)
LEMMA HeaderIs ==
    ASSUME NEW p \in Packets, NEW h, h[1] = Written[p][1], h[2] = Written[p][2],
           h[3] = Written[p][3], h[4] = Written[p][4]
    PROVE  Plausible(h) /\ LengthOf(h) = Len(EncodePacket(p))
<1>1. LengthOf(h) = Len(EncodePacket(p))
  <2>0. UnpackI(h) = UnpackI(Written[p])
    BY DEF UnpackI
  <2>1. UnpackI(h) = Len(EncodePacket(p))
    BY <2>0, WrittenIs
  <2>2. Written[p][1] <= 1 /\ Written[p][1] \in Nat
    <3>1. 1 \in 1..Len(Written[p])
      BY WrittenIs
    <3>2. Written[p][1] \in Byte
      BY <3>1, WrittenIs, ElementOfSeq
    <3> QED BY <3>2, WrittenIs, ByteIsNat
  <2> QED BY <2>1, <2>2 DEF LengthOf
<1> QED BY <1>1, WrittenIs DEF Plausible

(* From 2 on, the first byte of a header makes it a length that is too     *)
(* much.                                                                   *)
LEMMA TooMuch ==
    ASSUME NEW h, h[1] \in Byte, h[1] >= 2 PROVE ~Plausible(h)
<1>1. h[1] > 1
  BY ByteIsNat
<1>2. LengthOf(h) = 2 * MaxFrame
  BY <1>1 DEF LengthOf
<1>3. MaxFrame \in Nat /\ MaxFrame > 0
  BY FrameAssumption, SMT
<1> QED BY <1>2, <1>3 DEF Plausible

-----------------------------------------------------------------------------
(* Types.                                                                  *)

LEMMA LengthIsNat ==
    ASSUME NEW h \in Seq(Byte), Len(h) = 4 PROVE LengthOf(h) \in Nat
<1>1. h[1] \in Nat /\ h[2] \in Nat /\ h[3] \in Nat /\ h[4] \in Nat
  <2>1. 1 \in 1..4 /\ 2 \in 1..4 /\ 3 \in 1..4 /\ 4 \in 1..4
    OBVIOUS
  <2> QED BY <2>1, ElementOfSeq, ByteIsNat
<1>2. UnpackI(h) \in Nat
  BY <1>1, SMT DEF UnpackI
<1>3. 2 * MaxFrame \in Nat
  BY FrameAssumption, SMT
<1> QED BY <1>2, <1>3 DEF LengthOf

LEMMA TailIs ==
    ASSUME NEW s \in Seq(Byte), s # <<>> PROVE IsCut(Tail(s), s, 2, Len(s))
<1>1. Len(s) \in Nat \ {0}
  BY LenProperties, EmptySeq
<1>2. Tail(s) = SubSeq(s, 2, Len(s))
  BY TailIsSubSeq
<1>3. IsCut(SubSeq(s, 2, Len(s)), s, 2, Len(s))
  <2>1. 2 \in Nat \ {0} /\ Len(s) \in Nat /\ 2 <= Len(s) + 1 /\ Len(s) <= Len(s)
    BY <1>1
  <2> QED BY <2>1, CutIs
<1> QED BY <1>2, <1>3

(* What is left of the stream when the first n bytes are taken.            *)
LEMMA Taken ==
    ASSUME NEW n \in Nat, stream \in Seq(Byte), Len(stream) >= n
    PROVE  /\ IsCut(SubSeq(stream, 1, n), stream, 1, n)
           /\ IsCut(SubSeq(stream, n + 1, Len(stream)), stream, n + 1, Len(stream))
<1>1. Len(stream) \in Nat
  BY LenProperties
<1> QED BY <1>1, CutIs

LEMMA SlidType ==
    ASSUME header \in Seq(Byte), Len(header) = 4, stream \in Seq(Byte), WindowSlides
    PROVE  /\ header' \in Seq(Byte) /\ Len(header') = 4 /\ stream' \in Seq(Byte)
           /\ \A i \in 1..3 : header'[i] = header[1 + i]
           /\ header'[4] = stream[1]
           /\ Len(stream) \in Nat \ {0} /\ Len(stream') = Len(stream) - 1
           /\ \A i \in 1..(Len(stream) - 1) : stream'[i] = stream[1 + i]
<1>1. stream # <<>> /\ header # <<>>
  BY EmptySeq DEF WindowSlides
<1>2. IsCut(Tail(header), header, 2, 4) /\ IsCut(stream', stream, 2, Len(stream))
  BY <1>1, TailIs DEF WindowSlides
<1>3. Len(stream) \in Nat \ {0} /\ Head(stream) = stream[1] /\ stream[1] \in Byte
  BY <1>1, LenProperties, EmptySeq, ElementOfSeq
<1> DEFINE t == Tail(header)
<1>4. t \in Seq(Byte) /\ Len(t) = 3 /\ \A i \in 1..3 : t[i] = header[1 + i]
  <2>1. IsCut(t, header, 2, 4)
    BY <1>2
  <2> HIDE DEF t
  <2>2. \A i \in 1..3 : 2 + i - 1 = 1 + i
    OBVIOUS
  <2> QED BY <2>1, <2>2 DEF IsCut
<1>5. header' = Append(t, stream[1])
  BY <1>3 DEF WindowSlides
<1> HIDE DEF t
<1>6. /\ header' \in Seq(Byte) /\ Len(header') = 4
      /\ \A i \in 1..3 : header'[i] = t[i]
      /\ header'[4] = stream[1]
  <2>1. t \in Seq(Byte) /\ stream[1] \in Byte
    BY <1>3, <1>4
  <2>2. /\ Append(t, stream[1]) \in Seq(Byte)
        /\ Len(Append(t, stream[1])) = Len(t) + 1
        /\ \A i \in 1..Len(t) : Append(t, stream[1])[i] = t[i]
        /\ Append(t, stream[1])[Len(t) + 1] = stream[1]
    BY <2>1, AppendProperties
  <2> QED BY <1>4, <1>5, <2>2
<1>7. /\ stream' \in Seq(Byte) /\ Len(stream') = Len(stream) - 1
      /\ \A i \in 1..(Len(stream) - 1) : stream'[i] = stream[1 + i]
  BY <1>2, <1>3 DEF IsCut
<1> QED BY <1>3, <1>4, <1>6, <1>7

LEMMA ReaderType == ASSUME TypeOK, Reader PROVE TypeOK'
<1>1. stream \in Seq(Byte) /\ Len(stream) \in Nat /\ skipped \in 0..MaxResync
  BY LenProperties DEF TypeOK
<1>2. MaxResync \in Nat
  BY SerialAssumption
<1>3. header # <<>> => header \in Seq(Byte) /\ Len(header) = 4
  BY DEF TypeOK
<1>4. CASE ReadsHeader
  <2>1. Len(stream) >= 4
    BY <1>4 DEF ReadsHeader
  <2>2. /\ IsCut(SubSeq(stream, 1, 4), stream, 1, 4)
        /\ IsCut(SubSeq(stream, 4 + 1, Len(stream)), stream, 4 + 1, Len(stream))
    BY <1>1, <2>1, Taken
  <2>3. stream' \in Seq(Byte) /\ header' \in Seq(Byte) /\ Len(header') = 4
    BY <1>4, <2>2 DEF ReadsHeader, IsCut
  <2>4. skipped' = 0 /\ UNCHANGED <<submitted, delivered, garbage, faults>>
    BY <1>4 DEF ReadsHeader
  <2>5. 0 \in 0..MaxResync
    BY <1>2
  <2> QED BY <2>3, <2>4, <2>5 DEF TypeOK
<1>5. CASE Slides
  <2>1. header' \in Seq(Byte) /\ Len(header') = 4 /\ stream' \in Seq(Byte)
    BY <1>1, <1>3, <1>5, SlidType DEF Slides
  <2>2. skipped' = skipped + 1 /\ ~(skipped + 1 > MaxResync)
    BY <1>5 DEF Slides, TooFar
  <2>3. skipped' \in 0..MaxResync
    BY <1>1, <1>2, <2>2
  <2>4. UNCHANGED <<submitted, delivered, garbage, faults>>
    BY <1>5 DEF Slides
  <2> QED BY <2>1, <2>3, <2>4 DEF TypeOK
<1>6. CASE GivesUp
  <2>1. /\ header' = <<>> /\ stream' = <<>> /\ skipped' = 0
        /\ UNCHANGED <<submitted, delivered, garbage, faults>>
    BY <1>6 DEF GivesUp
  <2>2. 0 \in 0..MaxResync /\ <<>> \in Seq(Byte)
    BY <1>2
  <2> QED BY <2>1, <2>2 DEF TypeOK
<1>7. CASE ReadsFrame
  <2> DEFINE n == LengthOf(header)
  <2>1. n \in Nat /\ Len(stream) >= n
    BY <1>3, <1>7, LengthIsNat DEF ReadsFrame
  <2>2. /\ stream' = SubSeq(stream, n + 1, Len(stream)) /\ header' = <<>>
        /\ delivered' = delivered \o DecodePacket(SubSeq(stream, 1, n))
        /\ skipped' = 0 /\ UNCHANGED <<submitted, garbage, faults>>
    BY <1>7 DEF ReadsFrame
  <2> HIDE DEF n
  <2>3. /\ IsCut(SubSeq(stream, 1, n), stream, 1, n)
        /\ IsCut(SubSeq(stream, n + 1, Len(stream)), stream, n + 1, Len(stream))
    BY <1>1, <2>1, Taken
  <2>4. stream' \in Seq(Byte)
    BY <2>2, <2>3 DEF IsCut
  <2>5. DecodePacket(SubSeq(stream, 1, n)) \in Seq(PacketType)
    BY <2>3, DecodedType DEF IsCut
  <2>6. delivered' \in Seq(PacketType)
    <3>1. delivered \in Seq(PacketType)
      BY DEF TypeOK, PacketType
    <3> QED BY <2>2, <2>5, <3>1, ConcatProperties
  <2>7. 0 \in 0..MaxResync
    BY <1>2
  <2> QED BY <2>2, <2>4, <2>6, <2>7 DEF TypeOK, PacketType
<1> QED BY <1>4, <1>5, <1>6, <1>7 DEF Reader

LEMMA LineType == ASSUME TypeOK, Line PROVE TypeOK'
<1>1. stream \in Seq(Byte) /\ Len(stream) \in Nat /\ submitted \in Seq(Packets)
  BY LenProperties DEF TypeOK
<1>2. /\ garbage \in 0..MaxGarbage /\ MaxGarbage \in Nat
      /\ faults \in 0..MaxFaults /\ MaxFaults \in Nat
  BY SerialAssumption DEF TypeOK
<1>3. ASSUME NEW p \in Packets, Sends(p) PROVE TypeOK'
  <2>1. /\ submitted' = Append(submitted, p) /\ stream' = stream \o Written[p]
        /\ UNCHANGED <<header, skipped, delivered, garbage, faults>>
    BY <1>3 DEF Sends
  <2>2. submitted' \in Seq(Packets)
    BY <1>1, <2>1
  <2>3. stream' \in Seq(Byte)
    <3>1. Written[p] \in Seq(Byte)
      BY WrittenIs
    <3> QED BY <1>1, <2>1, <3>1, CatIs DEF IsCat
  <2> QED BY <2>1, <2>2, <2>3 DEF TypeOK
<1>4. ASSUME NEW byte \in Garbage, Prints(byte) PROVE TypeOK'
  <2>1. /\ garbage < MaxGarbage /\ garbage' = garbage + 1
        /\ stream' = Append(stream, byte)
        /\ UNCHANGED <<submitted, header, skipped, delivered, faults>>
    BY <1>4 DEF Prints
  <2>2. byte \in Byte
    BY SerialAssumption DEF Byte
  <2>3. stream' \in Seq(Byte)
    BY <1>1, <2>1, <2>2
  <2>4. garbage' \in 0..MaxGarbage
    BY <1>2, <2>1
  <2> QED BY <2>1, <2>3, <2>4 DEF TypeOK
<1>5. ASSUME Disturbs, stream' \in Seq(Byte) PROVE TypeOK'
  <2>1. /\ faults < MaxFaults /\ faults' = faults + 1
        /\ UNCHANGED <<submitted, header, skipped, delivered, garbage>>
    BY <1>5 DEF Disturbs
  <2>2. faults' \in 0..MaxFaults
    BY <1>2, <2>1
  <2> QED BY <1>5, <2>1, <2>2 DEF TypeOK
<1>6. CASE LosesByte
  <2>1. PICK i \in DOMAIN stream : stream' = RemoveAt(stream, i)
    BY <1>6 DEF LosesByte
  <2>2. i \in 1..Len(stream)
    BY <1>1, LenProperties
  <2> DEFINE s == SubSeq(stream, 1, i - 1)
             t == SubSeq(stream, i + 1, Len(stream))
  <2>3. IsCut(s, stream, 1, i - 1)
    <3>1. /\ 1 \in Nat \ {0} /\ i - 1 \in Nat /\ 1 <= (i - 1) + 1
          /\ i - 1 <= Len(stream)
      BY <1>1, <2>2
    <3> QED BY <1>1, <3>1, CutIs
  <2>4. IsCut(t, stream, i + 1, Len(stream))
    <3>1. /\ i + 1 \in Nat \ {0} /\ Len(stream) \in Nat
          /\ i + 1 <= Len(stream) + 1 /\ Len(stream) <= Len(stream)
      BY <1>1, <2>2
    <3> QED BY <1>1, <3>1, CutIs
  <2>5. stream' = s \o t
    BY <2>1 DEF RemoveAt
  <2> HIDE DEF s, t
  <2>6. s \in Seq(Byte) /\ t \in Seq(Byte)
    BY <2>3, <2>4 DEF IsCut
  <2>7. stream' \in Seq(Byte)
    BY <2>5, <2>6, CatIs DEF IsCat
  <2> QED BY <1>5, <1>6, <2>7 DEF LosesByte
<1>7. CASE GarblesByte
  <2>1. PICK i \in DOMAIN stream, byte \in Garbled :
            stream' = [stream EXCEPT ![i] = byte]
    BY <1>7 DEF GarblesByte
  <2>2. i \in 1..Len(stream) /\ byte \in Byte
    BY <1>1, LenProperties, SerialAssumption
  <2>3. stream' \in Seq(Byte)
    BY <1>1, <2>1, <2>2, ExceptSeq
  <2> QED BY <1>5, <1>7, <2>3 DEF GarblesByte
<1> QED BY <1>3, <1>4, <1>6, <1>7 DEF Line

(* Whatever is on the line: the window has four bytes and never slides too *)
(* far, and what is accepted is a packet.                                  *)
THEOREM TypeCorrect == Spec => []TypeOK
<1>1. Init => TypeOK
  BY SerialAssumption DEF Init, TypeOK
<1>2. TypeOK /\ [Next]_vars => TypeOK'
  <2>1. ASSUME TypeOK, UNCHANGED vars PROVE TypeOK'
    BY <2>1 DEF TypeOK, vars
  <2> QED BY <2>1, ReaderType, LineType DEF Next
<1> QED BY <1>1, <1>2, PTL DEF Spec

-----------------------------------------------------------------------------
(* A line that loses nothing.                                              *)

(* The bytes the reader has not made a frame of yet.                       *)
Ahead == header \o stream

(* The frame w is in all, from place a on.                                 *)
FrameAt(all, a, w) ==
    /\ 1 <= a /\ a + Len(w) <= Len(all) + 1
    /\ \A i \in 1..Len(w) : all[a + i - 1] = w[i]

(* From place a to before b there is only garbage, n bytes of it at most.  *)
GapAt(all, a, b, n) ==
    /\ a <= b /\ b <= a + n /\ b <= Len(all) + 1
    /\ \A i \in a..(b - 1) : all[i] >= 2

InOrder(at, first, last) ==
    \A i, j \in first..last : i <= j => at[i] <= at[j]

(* The packets of sub after the d-th are in all, whole and in order, the   *)
(* j-th at place at[j], and what is between them is garbage: no more than  *)
(* n bytes of it in a place, k of those before the first being gone.       *)
Spread(at, all, sub, d, n, k) ==
    /\ at \in [1..(Len(sub) + 1) -> Int]
    /\ at[Len(sub) + 1] = Len(all) + 1
    /\ InOrder(at, d + 1, Len(sub) + 1)
    /\ GapAt(all, 1, at[d + 1], n - k)
    /\ \A j \in (d + 1)..Len(sub) :
          /\ FrameAt(all, at[j], Written[sub[j]])
          /\ GapAt(all, at[j] + Len(Written[sub[j]]), at[j + 1], n)

(* The first packets of sub were delivered.                                *)
Begins(del, sub) ==
    /\ Len(del) <= Len(sub)
    /\ \A i \in 1..Len(del) : del[i] = sub[i]

(* What was delivered is some of the first d packets of sub, in order.     *)
Picked(del, sub, d) ==
    \E f \in [1..Len(del) -> 1..d] :
       /\ \A i \in 1..Len(del) : del[i] = sub[f[i]]
       /\ \A i, j \in 1..Len(del) : i < j => f[i] < f[j]

(* The reader is done with d packets, and the rest is on the line.  The    *)
(* places are not kept by the program, so there are some.                  *)
Laid(d) == \E at : Spread(at, Ahead, submitted, d, garbage, skipped)

(* It has handed them over, unless it once gave up, with too much garbage. *)
Handed(d) ==
    /\ Picked(delivered, submitted, d)
    /\ garbage <= MaxResync => d = Len(delivered) /\ Begins(delivered, submitted)

(* The inductive invariant.                                                *)
Spaced == faults = 0 => \E d \in 0..Len(submitted) : Laid(d) /\ Handed(d)

(* u is s without its first c bytes.                                       *)
IsShift(u, s, c) ==
    /\ u \in Seq(Byte)
    /\ Len(u) + c = Len(s)
    /\ \A i \in 1..Len(u) : u[i] = s[i + c]

Shifted(at, c) == [j \in DOMAIN at |-> at[j] - c]

LEMMA FrameShifts ==
    ASSUME NEW s \in Seq(Byte), NEW u, NEW c \in Nat, IsShift(u, s, c),
           NEW a \in Int, NEW w \in Seq(Byte), FrameAt(s, a, w), c < a
    PROVE  FrameAt(u, a - c, w)
<1>1. Len(s) \in Nat /\ Len(u) \in Nat /\ Len(w) \in Nat /\ Len(u) + c = Len(s)
  BY LenProperties DEF IsShift
<1>2. 1 <= a - c /\ (a - c) + Len(w) <= Len(u) + 1
  BY <1>1 DEF FrameAt
<1>3. ASSUME NEW i \in 1..Len(w) PROVE u[(a - c) + i - 1] = w[i]
  <2>1. (a - c) + i - 1 \in 1..Len(u) /\ ((a - c) + i - 1) + c = a + i - 1
    BY <1>1, <1>2
  <2>2. u[(a - c) + i - 1] = s[((a - c) + i - 1) + c]
    BY <2>1 DEF IsShift
  <2>3. s[a + i - 1] = w[i]
    BY DEF FrameAt
  <2> QED BY <2>1, <2>2, <2>3
<1> QED BY <1>2, <1>3 DEF FrameAt

LEMMA GapShifts ==
    ASSUME NEW s \in Seq(Byte), NEW u, NEW c \in Nat, IsShift(u, s, c),
           NEW a \in Int, NEW b \in Int, NEW n \in Int, GapAt(s, a, b, n), c < a
    PROVE  GapAt(u, a - c, b - c, n)
<1>1. Len(s) \in Nat /\ Len(u) \in Nat /\ Len(u) + c = Len(s)
  BY LenProperties DEF IsShift
<1>2. a <= b /\ b <= a + n /\ b <= Len(s) + 1
  BY DEF GapAt
<1>3. a - c <= b - c /\ b - c <= (a - c) + n /\ b - c <= Len(u) + 1
  BY <1>1, <1>2
<1>4. ASSUME NEW i \in (a - c)..((b - c) - 1) PROVE u[i] >= 2
  <2>1. i \in 1..Len(u) /\ i + c \in a..(b - 1)
    BY <1>1, <1>2, <1>3
  <2>2. u[i] = s[i + c] /\ s[i + c] >= 2
    BY <2>1 DEF IsShift, GapAt
  <2> QED BY <2>2
<1> QED BY <1>3, <1>4 DEF GapAt

(* Bytes are taken from the front, up to the first frame that is left.     *)
LEMMA SpreadShifts ==
    ASSUME NEW s \in Seq(Byte), NEW u, NEW c \in Nat, IsShift(u, s, c),
           NEW sub \in Seq(Packets), NEW at \in [1..(Len(sub) + 1) -> Int],
           NEW d \in Nat, d <= Len(sub), NEW n \in Nat, NEW k \in Int,
           at[Len(sub) + 1] = Len(s) + 1, InOrder(at, d + 1, Len(sub) + 1),
           GapAt(s, c + 1, at[d + 1], n - k),
           \A j \in (d + 1)..Len(sub) :
              /\ FrameAt(s, at[j], Written[sub[j]]) /\ c < at[j]
              /\ GapAt(s, at[j] + Len(Written[sub[j]]), at[j + 1], n)
    PROVE  Spread(Shifted(at, c), u, sub, d, n, k)
<1> DEFINE to == Shifted(at, c)
<1>1. Len(sub) \in Nat /\ Len(s) \in Nat /\ Len(u) \in Nat /\ Len(u) + c = Len(s)
  BY LenProperties DEF IsShift
<1>2. \A j \in 1..(Len(sub) + 1) : at[j] \in Int
  OBVIOUS
<1>3. to \in [1..(Len(sub) + 1) -> Int]
  BY DEF Shifted
<1>4. \A j \in 1..(Len(sub) + 1) : to[j] = at[j] - c
  BY DEF Shifted
<1> HIDE DEF to
<1>5. to[Len(sub) + 1] = Len(u) + 1
  <2>1. Len(sub) + 1 \in 1..(Len(sub) + 1)
    BY <1>1
  <2> QED BY <1>1, <1>4, <2>1
<1>6. GapAt(u, 1, to[d + 1], n - k)
  <2>1. d + 1 \in 1..(Len(sub) + 1)
    BY <1>1
  <2>2. c + 1 \in Int /\ at[d + 1] \in Int /\ n - k \in Int /\ c < c + 1
    BY <1>2, <2>1
  <2>3. GapAt(u, (c + 1) - c, at[d + 1] - c, n - k)
    BY <2>2, GapShifts
  <2>4. (c + 1) - c = 1
    OBVIOUS
  <2> QED BY <1>4, <2>1, <2>3, <2>4
<1>7. ASSUME NEW j \in (d + 1)..Len(sub)
      PROVE  /\ FrameAt(u, to[j], Written[sub[j]])
             /\ GapAt(u, to[j] + Len(Written[sub[j]]), to[j + 1], n)
  <2> DEFINE w == Written[sub[j]]
  <2>1. j \in 1..Len(sub) /\ j \in 1..(Len(sub) + 1) /\ j + 1 \in 1..(Len(sub) + 1)
    BY <1>1
  <2>2. w \in Seq(Byte)
    BY <2>1, ElementOfSeq, WrittenIs
  <2>3. Len(w) \in Nat
    BY <2>2, LenProperties
  <2>4. FrameAt(s, at[j], w) /\ c < at[j] /\ GapAt(s, at[j] + Len(w), at[j + 1], n)
    OBVIOUS
  <2> HIDE DEF w
  <2>5. at[j] \in Int /\ at[j + 1] \in Int /\ to[j] = at[j] - c /\ to[j + 1] = at[j + 1] - c
    BY <1>2, <1>4, <2>1
  <2>6. FrameAt(u, at[j] - c, w)
    BY <2>2, <2>4, <2>5, FrameShifts
  <2>7. GapAt(u, (at[j] + Len(w)) - c, at[j + 1] - c, n)
    <3>1. at[j] + Len(w) \in Int /\ c < at[j] + Len(w) /\ n \in Int
      <4>1. c < at[j]
        BY <2>4
      <4>2. \A a \in Int : c < a => a + Len(w) \in Int /\ c < a + Len(w)
        BY <2>3
      <4>3. n \in Int
        OBVIOUS
      <4> QED BY <2>5, <4>1, <4>2, <4>3
    <3> QED BY <2>4, <2>5, <3>1, GapShifts
  <2>8. (at[j] + Len(w)) - c = to[j] + Len(w)
    BY <2>3, <2>5
  <2> QED BY <2>5, <2>6, <2>7, <2>8 DEF w
<1>8. InOrder(to, d + 1, Len(sub) + 1)
  <2>1. ASSUME NEW i \in (d + 1)..(Len(sub) + 1), NEW j \in (d + 1)..(Len(sub) + 1), i <= j
        PROVE  to[i] <= to[j]
    <3>1. i \in 1..(Len(sub) + 1) /\ j \in 1..(Len(sub) + 1)
      BY <1>1
    <3>2. at[i] <= at[j] /\ at[i] \in Int /\ at[j] \in Int
      BY <1>2, <2>1, <3>1 DEF InOrder
    <3> QED BY <1>4, <3>1, <3>2
  <2> QED BY <2>1 DEF InOrder
<1> QED BY <1>3, <1>5, <1>6, <1>7, <1>8 DEF Spread, to

(* What the reader has in its window h, and what comes after it.           *)
Shows(u, h, s) ==
    /\ u \in Seq(Byte) /\ Len(u) \in Nat
    /\ Len(u) = Len(h) + Len(s) /\ Len(s) \in Nat
    /\ h = <<>> => u = s
    /\ h # <<>> => /\ Len(h) = 4 /\ Len(u) = 4 + Len(s)
                   /\ \A i \in 1..4 : u[i] = h[i]
                   /\ \A i \in 1..Len(s) : u[4 + i] = s[i]

LEMMA ShowsIs ==
    ASSUME NEW s \in Seq(Byte), NEW h, h = <<>> \/ (Len(h) = 4 /\ h \in Seq(Byte))
    PROVE  Shows(h \o s, h, s)
<1> DEFINE u == h \o s
<1>1. Len(s) \in Nat
  BY LenProperties
<1>2. CASE h = <<>>
  <2>1. u = s
    BY <1>2, ConcatEmptySeq
  <2>2. Len(h) = 0
    BY <1>2
  <2> QED BY <1>1, <1>2, <2>1, <2>2 DEF Shows
<1>3. CASE h # <<>>
  <2>1. Len(h) = 4 /\ h \in Seq(Byte)
    BY <1>3
  <2>2. IsCat(u, h, s)
    BY <2>1, CatIs
  <2> HIDE DEF u
  <2>3. /\ u \in Seq(Byte) /\ Len(u) = Len(h) + Len(s)
        /\ \A i \in 1..4 : u[i] = h[i]
        /\ \A i \in 1..Len(s) : u[4 + i] = s[i]
    BY <2>1, <2>2 DEF IsCat
  <2> QED BY <1>1, <1>3, <2>1, <2>3 DEF Shows, u
<1> QED BY <1>2, <1>3

LEMMA AheadIs == ASSUME TypeOK PROVE Shows(Ahead, header, stream)
BY ShowsIs DEF TypeOK, Ahead

LEMMA AheadNext == ASSUME TypeOK' PROVE Shows(Ahead', header', stream')
<1>1. stream' \in Seq(Byte) /\ (header' = <<>> \/ (Len(header') = 4 /\ header' \in Seq(Byte)))
  BY DEF TypeOK
<1>2. Shows(header' \o stream', header', stream')
  BY <1>1, ShowsIs
<1> QED BY <1>2 DEF Ahead

LEMMA Lengths ==
    ASSUME TypeOK
    PROVE  /\ delivered \in Seq(PacketType) /\ submitted \in Seq(Packets)
           /\ Len(delivered) \in Nat /\ Len(submitted) \in Nat
           /\ garbage \in Nat /\ skipped \in Nat
<1>1. delivered \in Seq(PacketType) /\ submitted \in Seq(Packets)
  BY DEF TypeOK, PacketType
<1>2. garbage \in Nat /\ skipped \in Nat
  BY SerialAssumption DEF TypeOK
<1> QED BY <1>1, <1>2, LenProperties

(* A window begins with garbage, or is the header of the next packet, and  *)
(* the reader tells which.                                                 *)
LEMMA WindowIs ==
    ASSUME TypeOK, header # <<>>, NEW d \in 0..Len(submitted),
           NEW at, Spread(at, Ahead, submitted, d, garbage, skipped)
    PROVE  \/ /\ at[d + 1] > 1
              /\ ~Plausible(header)
           \/ /\ at[d + 1] = 1 /\ d + 1 \in 1..Len(submitted)
              /\ Plausible(header)
              /\ LengthOf(header) = Len(EncodePacket(submitted[d + 1]))
<1> DEFINE s == Len(submitted)
<1>1. d \in Nat /\ s \in Nat /\ d <= s
  BY Lengths
<1>2. /\ header \in Seq(Byte) /\ Len(header) = 4 /\ Len(stream) \in Nat
      /\ Len(Ahead) = 4 + Len(stream) /\ \A i \in 1..4 : Ahead[i] = header[i]
  BY AheadIs DEF TypeOK, Shows
<1>3. /\ at \in [1..(s + 1) -> Int] /\ at[s + 1] = Len(Ahead) + 1
      /\ GapAt(Ahead, 1, at[d + 1], garbage - skipped)
      /\ \A j \in (d + 1)..s : FrameAt(Ahead, at[j], Written[submitted[j]])
  BY DEF Spread
<1> HIDE DEF s
<1>4. at[d + 1] \in Int /\ 1 <= at[d + 1]
  <2>1. d + 1 \in 1..(s + 1)
    BY <1>1
  <2> QED BY <1>3, <2>1 DEF GapAt
<1>5. CASE at[d + 1] > 1
  <2>1. 1 \in 1..(at[d + 1] - 1)
    BY <1>4, <1>5
  <2>2. Ahead[1] >= 2
    BY <1>3, <2>1 DEF GapAt
  <2>3. 1 \in 1..4
    OBVIOUS
  <2>4. header[1] >= 2 /\ header[1] \in Byte
    BY <1>2, <2>2, <2>3, ElementOfSeq
  <2>5. ~Plausible(header)
    BY <2>4, TooMuch
  <2> QED BY <1>5, <2>5
<1>6. CASE at[d + 1] = 1
  <2>1. d + 1 \in (d + 1)..s /\ d + 1 \in 1..s
    <3>1. d # s
      BY <1>1, <1>2, <1>3, <1>6
    <3> QED BY <1>1, <3>1
  <2> DEFINE p == submitted[d + 1]
  <2>2. p \in Packets
    BY <2>1, ElementOfSeq DEF TypeOK, s
  <2>3. Written[p] \in Seq(Byte) /\ Len(Written[p]) \in Nat /\ Len(Written[p]) >= 4
    BY <2>2, WrittenIs
  <2>4. \A i \in 1..Len(Written[p]) : Ahead[1 + i - 1] = Written[p][i]
    BY <1>3, <1>6, <2>1 DEF FrameAt
  <2> HIDE DEF p
  <2>5. ASSUME NEW i \in 1..4 PROVE header[i] = Written[p][i]
    <3>1. i \in 1..Len(Written[p]) /\ 1 + i - 1 = i
      BY <2>3
    <3> QED BY <1>2, <2>4, <3>1
  <2>6. /\ header[1] = Written[p][1] /\ header[2] = Written[p][2]
        /\ header[3] = Written[p][3] /\ header[4] = Written[p][4]
    <3>1. 1 \in 1..4 /\ 2 \in 1..4 /\ 3 \in 1..4 /\ 4 \in 1..4
      OBVIOUS
    <3> QED BY <2>5, <3>1
  <2>7. Plausible(header) /\ LengthOf(header) = Len(EncodePacket(p))
    BY <2>2, <2>6, HeaderIs
  <2> QED BY <1>6, <2>1, <2>7 DEF s, p
<1> QED BY <1>4, <1>5, <1>6

LEMMA GapEases ==
    ASSUME NEW all, NEW a \in Int, NEW b \in Int, NEW n \in Int, NEW m \in Int,
           GapAt(all, a, b, n), n <= m
    PROVE  GapAt(all, a, b, m)
BY DEF GapAt

LEMMA NotEmpty == ASSUME NEW h, Len(h) = 4 PROVE h # <<>>
<1> SUFFICES ASSUME h = <<>> PROVE FALSE
  OBVIOUS
<1>1. Len(h) = 0
  OBVIOUS
<1> QED BY <1>1

LEMMA ReadsHeaderLaid ==
    ASSUME TypeOK, TypeOK', NEW d \in 0..Len(submitted), Laid(d), ReadsHeader
    PROVE  Laid(d)'
<1> DEFINE s == Len(submitted)
<1>1. /\ header = <<>> /\ Len(stream) >= 4
      /\ header' = SubSeq(stream, 1, 4) /\ stream' = SubSeq(stream, 5, Len(stream))
      /\ skipped' = 0 /\ UNCHANGED <<submitted, delivered, garbage, faults>>
  BY DEF ReadsHeader
<1>2. stream \in Seq(Byte) /\ Len(stream) \in Nat /\ Ahead = stream
  BY <1>1, AheadIs DEF TypeOK, Shows
<1>3. /\ IsCut(header', stream, 1, 4)
      /\ IsCut(stream', stream, 4 + 1, Len(stream))
  BY <1>1, <1>2, Taken
<1>4. Shows(Ahead', header', stream')
  BY AheadNext
<1>5. Ahead' = Ahead
  <2>1. /\ Len(header') = 4 /\ Len(stream') = Len(stream) - 4
        /\ \A i \in 1..4 : header'[i] = stream[i]
        /\ \A i \in 1..(Len(stream) - 4) : stream'[i] = stream[4 + i]
    <3>1. \A i \in 1..4 : header'[i] = stream[1 + i - 1]
      BY <1>3 DEF IsCut
    <3>2. /\ Len(stream') = Len(stream) + 1 - (4 + 1)
          /\ \A i \in 1..(Len(stream) + 1 - (4 + 1)) : stream'[i] = stream[(4 + 1) + i - 1]
      BY <1>3 DEF IsCut
    <3>3. Len(header') = 4
      BY <1>3 DEF IsCut
    <3>4. \A i \in 1..(Len(stream) - 4) : (4 + 1) + i - 1 = 4 + i
      BY <1>2
    <3>5. Len(stream) + 1 - (4 + 1) = Len(stream) - 4
      BY <1>2
    <3>6. \A i \in 1..4 : 1 + i - 1 = i
      OBVIOUS
    <3> QED BY <3>1, <3>2, <3>3, <3>4, <3>5, <3>6
  <2>2. header' # <<>>
    BY <2>1, NotEmpty
  <2>3. /\ Ahead' \in Seq(Byte) /\ Len(Ahead') = 4 + Len(stream')
        /\ \A i \in 1..4 : Ahead'[i] = header'[i]
        /\ \A i \in 1..Len(stream') : Ahead'[4 + i] = stream'[i]
    BY <1>4, <2>2 DEF Shows
  <2>4. Len(Ahead') = Len(stream)
    BY <1>2, <2>1, <2>3
  <2>5. ASSUME NEW i \in 1..Len(Ahead') PROVE Ahead'[i] = stream[i]
    <3>1. CASE i <= 4
      <4>1. i \in 1..4
        BY <3>1
      <4> QED BY <2>1, <2>3, <4>1
    <3>2. CASE i > 4
      <4>1. i - 4 \in 1..(Len(stream) - 4) /\ 4 + (i - 4) = i /\ i - 4 \in 1..Len(stream')
        BY <1>2, <2>1, <2>4, <3>2
      <4>2. Ahead'[4 + (i - 4)] = stream'[i - 4] /\ stream'[i - 4] = stream[4 + (i - 4)]
        BY <2>1, <2>3, <4>1
      <4> QED BY <4>1, <4>2
    <3> QED BY <1>2, <2>4, <3>1, <3>2
  <2> QED BY <1>2, <2>3, <2>4, <2>5, SameSeq
<1>6. PICK at : Spread(at, Ahead, submitted, d, garbage, skipped)
  BY DEF Laid
<1>7. d \in Nat /\ s \in Nat /\ d <= s /\ garbage \in Nat /\ skipped \in Nat
  BY Lengths
<1> HIDE DEF s
<1>8. GapAt(Ahead, 1, at[d + 1], garbage - 0)
  <2>1. at \in [1..(s + 1) -> Int] /\ d + 1 \in 1..(s + 1)
    BY <1>6, <1>7 DEF Spread, s
  <2>2. GapAt(Ahead, 1, at[d + 1], garbage - skipped)
    BY <1>6 DEF Spread
  <2>3. /\ 1 \in Int /\ at[d + 1] \in Int /\ garbage - skipped \in Int
        /\ garbage - 0 \in Int /\ garbage - skipped <= garbage - 0
    BY <1>7, <2>1
  <2> QED BY <2>2, <2>3, GapEases
<1>9. Spread(at, Ahead, submitted, d, garbage, 0)
  BY <1>6, <1>8 DEF Spread
<1>10. Spread(at, Ahead', submitted', d, garbage', skipped')
  BY <1>1, <1>5, <1>9
<1> QED BY <1>10 DEF Laid

LEMMA SlidesLaid ==
    ASSUME TypeOK, TypeOK', NEW d \in 0..Len(submitted), Laid(d), Slides
    PROVE  Laid(d)'
<1> DEFINE s == Len(submitted)
<1>1. /\ header # <<>> /\ ~Plausible(header) /\ WindowSlides
      /\ skipped' = skipped + 1 /\ UNCHANGED <<submitted, delivered, garbage, faults>>
  BY DEF Slides
<1>2. PICK at : Spread(at, Ahead, submitted, d, garbage, skipped)
  BY DEF Laid
<1>3. /\ d \in Nat /\ s \in Nat /\ d <= s /\ garbage \in Nat /\ skipped \in Nat
      /\ submitted \in Seq(Packets)
  BY Lengths
<1>4. at[d + 1] > 1
  BY <1>1, <1>2, WindowIs
<1>5. IsShift(Ahead', Ahead, 1)
  <2>1. /\ header' \in Seq(Byte) /\ Len(header') = 4
        /\ \A i \in 1..3 : header'[i] = header[1 + i]
        /\ header'[4] = stream[1]
        /\ Len(stream) \in Nat \ {0} /\ Len(stream') = Len(stream) - 1
        /\ \A i \in 1..(Len(stream) - 1) : stream'[i] = stream[1 + i]
    BY <1>1, SlidType DEF TypeOK
  <2>2. /\ Len(Ahead) = 4 + Len(stream)
        /\ \A i \in 1..4 : Ahead[i] = header[i]
        /\ \A i \in 1..Len(stream) : Ahead[4 + i] = stream[i]
    BY <1>1, AheadIs DEF Shows
  <2>3. /\ Ahead' \in Seq(Byte) /\ Len(Ahead') = 4 + Len(stream')
        /\ \A i \in 1..4 : Ahead'[i] = header'[i]
        /\ \A i \in 1..Len(stream') : Ahead'[4 + i] = stream'[i]
    <3>1. header' # <<>>
      BY <2>1, NotEmpty
    <3> QED BY <3>1, AheadNext DEF Shows
  <2>4. Len(Ahead') + 1 = Len(Ahead)
    BY <2>1, <2>2, <2>3
  <2>5. ASSUME NEW i \in 1..Len(Ahead') PROVE Ahead'[i] = Ahead[i + 1]
    <3>1. CASE i <= 3
      <4>1. i \in 1..4 /\ i \in 1..3 /\ 1 + i \in 1..4 /\ 1 + i = i + 1
        BY <3>1
      <4> QED BY <2>1, <2>2, <2>3, <4>1
    <3>2. CASE i = 4
      <4>1. 4 \in 1..4 /\ 1 \in 1..Len(stream) /\ i + 1 = 4 + 1
        BY <2>1, <3>2
      <4>2. Ahead'[4] = stream[1] /\ Ahead[4 + 1] = stream[1]
        BY <2>1, <2>2, <2>3, <4>1
      <4> QED BY <3>2, <4>1, <4>2
    <3>3. CASE i > 4
      <4>1. /\ i - 4 \in 1..Len(stream') /\ i - 4 \in 1..(Len(stream) - 1)
            /\ 1 + (i - 4) \in 1..Len(stream)
            /\ 4 + (i - 4) = i /\ 4 + (1 + (i - 4)) = i + 1
        BY <2>1, <2>3, <3>3
      <4>2. Ahead'[4 + (i - 4)] = stream'[i - 4] /\ stream'[i - 4] = stream[1 + (i - 4)]
        BY <2>1, <2>3, <4>1
      <4>3. Ahead[4 + (1 + (i - 4))] = stream[1 + (i - 4)]
        BY <2>2, <4>1
      <4> QED BY <4>1, <4>2, <4>3
    <3> QED BY <2>1, <2>3, <3>1, <3>2, <3>3
  <2> QED BY <2>3, <2>4, <2>5 DEF IsShift
<1>6. Ahead \in Seq(Byte)
  BY AheadIs DEF Shows
<1>7. /\ at \in [1..(s + 1) -> Int] /\ at[s + 1] = Len(Ahead) + 1
      /\ InOrder(at, d + 1, s + 1) /\ GapAt(Ahead, 1, at[d + 1], garbage - skipped)
      /\ \A j \in (d + 1)..s :
            /\ FrameAt(Ahead, at[j], Written[submitted[j]])
            /\ GapAt(Ahead, at[j] + Len(Written[submitted[j]]), at[j + 1], garbage)
  BY <1>2 DEF Spread
<1> HIDE DEF s
<1>8. \A j \in (d + 1)..s : 1 < at[j]
  <2>1. ASSUME NEW j \in (d + 1)..s PROVE 1 < at[j]
    <3>1. /\ d + 1 \in (d + 1)..(s + 1) /\ j \in (d + 1)..(s + 1) /\ d + 1 <= j
          /\ d + 1 \in 1..(s + 1) /\ j \in 1..(s + 1)
      BY <1>3
    <3>2. at[d + 1] <= at[j] /\ at[d + 1] \in Int /\ at[j] \in Int
      BY <1>7, <3>1 DEF InOrder
    <3> QED BY <1>4, <3>2
  <2> QED BY <2>1
<1>9. GapAt(Ahead, 1 + 1, at[d + 1], garbage - (skipped + 1))
  <2>1. d + 1 \in 1..(s + 1)
    BY <1>3
  <2>2. at[d + 1] \in Int
    BY <1>7, <2>1
  <2>3. /\ at[d + 1] <= 1 + (garbage - skipped) /\ at[d + 1] <= Len(Ahead) + 1
        /\ \A i \in 1..(at[d + 1] - 1) : Ahead[i] >= 2
    BY <1>7 DEF GapAt
  <2>4. /\ 1 + 1 <= at[d + 1]
        /\ at[d + 1] <= (1 + 1) + (garbage - (skipped + 1))
        /\ \A i \in (1 + 1)..(at[d + 1] - 1) : i \in 1..(at[d + 1] - 1)
    BY <1>3, <1>4, <2>2, <2>3
  <2> QED BY <2>3, <2>4 DEF GapAt
<1>10. Spread(Shifted(at, 1), Ahead', submitted, d, garbage, skipped + 1)
  <2>1. 1 \in Nat /\ skipped + 1 \in Int
    BY <1>3
  <2> QED BY <1>3, <1>5, <1>6, <1>7, <1>8, <1>9, <2>1, SpreadShifts DEF s
<1>11. Spread(Shifted(at, 1), Ahead', submitted', d, garbage', skipped')
  BY <1>1, <1>10
<1> QED BY <1>11 DEF Laid

(* The reader gives up only when there is too much garbage for it.         *)
LEMMA GivesUpLate ==
    ASSUME TypeOK, NEW d \in 0..Len(submitted), Laid(d), garbage <= MaxResync
    PROVE  ~GivesUp
<1> SUFFICES ASSUME GivesUp PROVE FALSE
  OBVIOUS
<1> DEFINE s == Len(submitted)
<1>1. header # <<>> /\ ~Plausible(header) /\ skipped + 1 > MaxResync
  BY DEF GivesUp, TooFar
<1>2. PICK at : Spread(at, Ahead, submitted, d, garbage, skipped)
  BY DEF Laid
<1>3. d \in Nat /\ s \in Nat /\ d <= s /\ garbage \in Nat /\ skipped \in Nat
  BY Lengths
<1>4. at[d + 1] > 1
  BY <1>1, <1>2, WindowIs
<1>5. at \in [1..(s + 1) -> Int] /\ at[d + 1] <= 1 + (garbage - skipped)
  BY <1>2 DEF Spread, GapAt
<1> HIDE DEF s
<1>6. d + 1 \in 1..(s + 1)
  BY <1>3
<1>7. at[d + 1] \in Int
  BY <1>5, <1>6
<1>8. garbage <= MaxResync /\ MaxResync \in Nat
  BY SerialAssumption
<1>9. skipped + 1 <= garbage
  BY <1>3, <1>4, <1>5, <1>7
<1> QED BY <1>1, <1>3, <1>8, <1>9

(* A frame the reader takes is the next packet, whole.                     *)
LEMMA ReadsFrameLaid ==
    ASSUME TypeOK, TypeOK', NEW d \in 0..Len(submitted), Laid(d), ReadsFrame
    PROVE  /\ d + 1 \in 1..Len(submitted)
           /\ delivered' = Append(delivered, submitted[d + 1])
           /\ Laid(d + 1)'
<1> DEFINE s == Len(submitted)
           p == submitted[d + 1]
           e == EncodePacket(p)
           w == Written[p]
<1>1. /\ header # <<>> /\ Plausible(header)
      /\ header' = <<>> /\ stream' = SubSeq(stream, LengthOf(header) + 1, Len(stream))
      /\ delivered' = delivered \o DecodePacket(SubSeq(stream, 1, LengthOf(header)))
      /\ skipped' = 0 /\ UNCHANGED <<submitted, garbage, faults>>
      /\ Len(stream) >= LengthOf(header)
  BY DEF ReadsFrame
<1>2. PICK at : Spread(at, Ahead, submitted, d, garbage, skipped)
  BY DEF Laid
<1>3. /\ d \in Nat /\ s \in Nat /\ d <= s /\ garbage \in Nat /\ skipped \in Nat
      /\ submitted \in Seq(Packets) /\ delivered \in Seq(PacketType)
     
  BY Lengths
<1>4. at[d + 1] = 1 /\ d + 1 \in 1..s /\ LengthOf(header) = Len(e)
  BY <1>1, <1>2, WindowIs
<1>5. /\ at \in [1..(s + 1) -> Int] /\ at[s + 1] = Len(Ahead) + 1
      /\ InOrder(at, d + 1, s + 1)
      /\ \A j \in (d + 1)..s :
            /\ FrameAt(Ahead, at[j], Written[submitted[j]])
            /\ GapAt(Ahead, at[j] + Len(Written[submitted[j]]), at[j + 1], garbage)
  BY <1>2 DEF Spread
<1>6. p \in Packets
  BY <1>3, <1>4, ElementOfSeq
<1> HIDE DEF p
<1>7. /\ e \in Seq(Byte) /\ Len(e) \in Nat /\ Len(e) >= 14
      /\ w \in Seq(Byte) /\ Len(w) = 4 + Len(e)
      /\ \A i \in 1..Len(e) : w[4 + i] = e[i]
  BY <1>6, WrittenIs
<1>8. DecodePacket(e) = <<p>> /\ p \in PacketType
  BY <1>6, PacketsFit, Decoded
<1> HIDE DEF s, e, w
<1>9. d + 1 \in (d + 1)..s
  BY <1>3, <1>4
<1>10. /\ FrameAt(Ahead, 1, w)
       /\ GapAt(Ahead, 1 + Len(w), at[d + 2], garbage)
  <2>1. (d + 1) + 1 = d + 2
    BY <1>3
  <2>2. /\ FrameAt(Ahead, at[d + 1], Written[submitted[d + 1]])
        /\ GapAt(Ahead, at[d + 1] + Len(Written[submitted[d + 1]]), at[(d + 1) + 1], garbage)
    BY <1>5, <1>9
  <2> QED BY <1>4, <2>1, <2>2 DEF w, p
<1>11. /\ stream \in Seq(Byte) /\ Len(stream) \in Nat
       /\ Ahead \in Seq(Byte) /\ Len(Ahead) = 4 + Len(stream)
       /\ \A i \in 1..Len(stream) : Ahead[4 + i] = stream[i]
  BY <1>1, AheadIs DEF TypeOK, Shows
<1>12. Len(stream) >= Len(e)
  BY <1>1, <1>4
<1>13. SubSeq(stream, 1, Len(e)) = e
  <2>1. ASSUME NEW i \in 1..Len(e) PROVE stream[1 + i - 1] = e[i]
    <3>1. /\ i \in 1..Len(stream) /\ 4 + i \in 1..Len(w)
          /\ 1 + (4 + i) - 1 = 4 + i /\ 1 + i - 1 = i
      BY <1>7, <1>11, <1>12
    <3>2. Ahead[1 + (4 + i) - 1] = w[4 + i]
      BY <1>10, <3>1 DEF FrameAt
    <3> QED BY <1>7, <1>11, <3>1, <3>2
  <2>2. /\ 1 \in Nat \ {0} /\ 1 <= Len(e) + 1 /\ Len(e) = Len(e) + 1 - 1
    BY <1>7
  <2> QED BY <1>7, <1>11, <1>12, <2>1, <2>2, CutSame
<1>14. delivered' = delivered \o <<p>>
  BY <1>1, <1>4, <1>8, <1>13
<1>15. delivered' = Append(delivered, p)
  BY <1>3, <1>8, <1>14, AppendIsConcat
<1>16. IsShift(Ahead', Ahead, Len(w))
  <2>1. Ahead' \in Seq(Byte) /\ Ahead' = stream'
    BY <1>1, AheadNext DEF Shows
  <2>2. IsCut(stream', stream, Len(e) + 1, Len(stream))
    BY <1>1, <1>4, <1>7, <1>11, <1>12, Taken
  <2>3. /\ Len(stream') = Len(stream) + 1 - (Len(e) + 1)
        /\ \A i \in 1..(Len(stream) + 1 - (Len(e) + 1)) :
              stream'[i] = stream[(Len(e) + 1) + i - 1]
    BY <2>2 DEF IsCut
  <2>4. Len(stream') = Len(stream) - Len(e) /\ Len(stream') + Len(w) = Len(Ahead)
    BY <1>7, <1>11, <1>12, <2>3
  <2>5. ASSUME NEW i \in 1..Len(stream') PROVE stream'[i] = Ahead[i + Len(w)]
    <3>1. /\ i \in 1..(Len(stream) + 1 - (Len(e) + 1))
          /\ (Len(e) + 1) + i - 1 \in 1..Len(stream)
          /\ 4 + ((Len(e) + 1) + i - 1) = i + Len(w)
      BY <1>7, <1>11, <1>12, <2>4
    <3>2. Ahead[4 + ((Len(e) + 1) + i - 1)] = stream[(Len(e) + 1) + i - 1]
      BY <1>11, <3>1
    <3> QED BY <2>3, <3>1, <3>2
  <2> QED BY <2>1, <2>4, <2>5 DEF IsShift
<1>17. Len(w) \in Nat /\ at[d + 2] \in Int /\ 1 + Len(w) <= at[d + 2] /\ d + 2 \in (d + 1)..(s + 1)
  <2>1. d + 2 \in 1..(s + 1) /\ d + 2 \in (d + 1)..(s + 1) /\ Len(w) \in Nat
    BY <1>3, <1>4, <1>7
  <2> QED BY <1>5, <1>10, <2>1 DEF GapAt
<1>18. \A j \in (d + 2)..s : Len(w) < at[j]
  <2>1. ASSUME NEW j \in (d + 2)..s PROVE Len(w) < at[j]
    <3>1. j \in (d + 1)..(s + 1) /\ d + 2 <= j /\ j \in 1..(s + 1)
      BY <1>3
    <3>2. at[d + 2] <= at[j] /\ at[j] \in Int
      BY <1>5, <1>17, <3>1 DEF InOrder
    <3> QED BY <1>17, <3>2
  <2> QED BY <2>1
<1>19. Spread(Shifted(at, Len(w)), Ahead', submitted, d + 1, garbage, 0)
  <2>1. /\ (d + 1) + 1 = d + 2 /\ d + 1 \in Nat /\ d + 1 <= s /\ 0 \in Int
        /\ garbage - 0 = garbage /\ Len(w) + 1 = 1 + Len(w)
    BY <1>3, <1>4, <1>17
  <2>2. InOrder(at, (d + 1) + 1, s + 1)
    <3>1. ASSUME NEW i \in (d + 2)..(s + 1), NEW j \in (d + 2)..(s + 1), i <= j
          PROVE  at[i] <= at[j]
      <4>1. i \in (d + 1)..(s + 1) /\ j \in (d + 1)..(s + 1)
        BY <1>3
      <4> QED BY <1>5, <3>1, <4>1 DEF InOrder
    <3> QED BY <2>1, <3>1 DEF InOrder
  <2>3. GapAt(Ahead, Len(w) + 1, at[(d + 1) + 1], garbage - 0)
    BY <1>10, <2>1
  <2>4. \A j \in ((d + 1) + 1)..s :
           /\ FrameAt(Ahead, at[j], Written[submitted[j]]) /\ Len(w) < at[j]
           /\ GapAt(Ahead, at[j] + Len(Written[submitted[j]]), at[j + 1], garbage)
    <3>1. \A j \in (d + 2)..s : j \in (d + 1)..s
      BY <1>3
    <3> QED BY <1>5, <1>18, <2>1, <3>1
  <2> QED BY <1>3, <1>5, <1>11, <1>16, <1>17, <2>1, <2>2, <2>3, <2>4, SpreadShifts DEF s
<1>20. Laid(d + 1)'
  BY <1>1, <1>19 DEF Laid
<1>21. d + 1 \in 1..Len(submitted) /\ delivered' = Append(delivered, submitted[d + 1])
  BY <1>4, <1>15 DEF p, s
<1> QED BY <1>20, <1>21

(* Bytes are added at the end.                                             *)
LEMMA FrameGrows ==
    ASSUME NEW s \in Seq(Byte), NEW t \in Seq(Byte), NEW u, IsCat(u, s, t),
           NEW a \in Int, NEW w \in Seq(Byte), FrameAt(s, a, w)
    PROVE  FrameAt(u, a, w)
<1>1. /\ Len(s) \in Nat /\ Len(t) \in Nat /\ Len(w) \in Nat
      /\ Len(u) = Len(s) + Len(t) /\ 1 <= a /\ a + Len(w) <= Len(s) + 1
  BY LenProperties DEF IsCat, FrameAt
<1>2. a + Len(w) <= Len(u) + 1
  BY <1>1
<1>3. ASSUME NEW i \in 1..Len(w) PROVE u[a + i - 1] = w[i]
  <2>1. a + i - 1 \in 1..Len(s)
    BY <1>1
  <2> QED BY <2>1 DEF IsCat, FrameAt
<1> QED BY <1>1, <1>2, <1>3 DEF FrameAt

LEMMA GapGrows ==
    ASSUME NEW s \in Seq(Byte), NEW t \in Seq(Byte), NEW u, IsCat(u, s, t),
           NEW a \in Int, NEW b \in Int, NEW n \in Int, GapAt(s, a, b, n), 1 <= a
    PROVE  GapAt(u, a, b, n)
<1>1. /\ Len(s) \in Nat /\ Len(t) \in Nat /\ Len(u) = Len(s) + Len(t)
      /\ a <= b /\ b <= a + n /\ b <= Len(s) + 1
  BY LenProperties DEF IsCat, GapAt
<1>2. b <= Len(u) + 1
  BY <1>1
<1>3. ASSUME NEW i \in a..(b - 1) PROVE u[i] >= 2
  <2>1. i \in 1..Len(s)
    BY <1>1
  <2> QED BY <2>1 DEF IsCat, GapAt
<1> QED BY <1>1, <1>2, <1>3 DEF GapAt

LEMMA GapExtends ==
    ASSUME NEW s \in Seq(Byte), NEW t \in Seq(Byte), Len(t) = 1, t[1] >= 2,
           NEW u, IsCat(u, s, t), NEW a \in Int, NEW n \in Int,
           GapAt(s, a, Len(s) + 1, n), 1 <= a
    PROVE  GapAt(u, a, Len(s) + 2, n + 1)
<1>1. /\ Len(s) \in Nat /\ Len(u) = Len(s) + 1
      /\ a <= Len(s) + 1 /\ Len(s) + 1 <= a + n
  BY LenProperties DEF IsCat, GapAt
<1>2. a <= Len(s) + 2 /\ Len(s) + 2 <= a + (n + 1) /\ Len(s) + 2 <= Len(u) + 1
  BY <1>1
<1>3. ASSUME NEW i \in a..((Len(s) + 2) - 1) PROVE u[i] >= 2
  <2>1. CASE i = Len(s) + 1
    <3>1. u[Len(s) + 1] = t[1]
      <4>1. 1 \in 1..Len(t)
        OBVIOUS
      <4> QED BY <4>1 DEF IsCat
    <3> QED BY <2>1, <3>1
  <2>2. CASE i # Len(s) + 1
    <3>1. i \in 1..Len(s) /\ i \in a..((Len(s) + 1) - 1)
      BY <1>1, <2>2
    <3>2. u[i] = s[i] /\ s[i] >= 2
      BY <3>1 DEF IsCat, GapAt
    <3> QED BY <3>2
  <2> QED BY <2>1, <2>2
<1> QED BY <1>2, <1>3 DEF GapAt

LEMMA AheadGrows ==
    ASSUME TypeOK, TypeOK', UNCHANGED header, NEW t \in Seq(Byte), stream' = stream \o t
    PROVE  IsCat(Ahead', Ahead, t)
<1>1. stream \in Seq(Byte) /\ Len(stream) \in Nat /\ Len(t) \in Nat
  BY LenProperties DEF TypeOK
<1>2. IsCat(stream', stream, t)
  BY <1>1, CatIs
<1>3. Shows(Ahead, header, stream) /\ Shows(Ahead', header, stream')
  BY AheadIs, AheadNext
<1>4. CASE header = <<>>
  BY <1>2, <1>3, <1>4 DEF Shows
<1>5. CASE header # <<>>
  <2>1. /\ Len(Ahead) = 4 + Len(stream) /\ Ahead' \in Seq(Byte)
        /\ Len(Ahead') = 4 + Len(stream')
        /\ \A i \in 1..4 : Ahead[i] = header[i] /\ Ahead'[i] = header[i]
        /\ \A i \in 1..Len(stream) : Ahead[4 + i] = stream[i]
        /\ \A i \in 1..Len(stream') : Ahead'[4 + i] = stream'[i]
    BY <1>3, <1>5 DEF Shows
  <2>2. /\ Len(stream') = Len(stream) + Len(t)
        /\ \A i \in 1..Len(stream) : stream'[i] = stream[i]
        /\ \A i \in 1..Len(t) : stream'[Len(stream) + i] = t[i]
    BY <1>2 DEF IsCat
  <2>3. Len(Ahead') = Len(Ahead) + Len(t)
    BY <1>1, <2>1, <2>2
  <2>4. ASSUME NEW i \in 1..Len(Ahead) PROVE Ahead'[i] = Ahead[i]
    <3>1. CASE i \in 1..4
      BY <2>1, <3>1
    <3>2. CASE i \notin 1..4
      <4>1. i - 4 \in 1..Len(stream) /\ i - 4 \in 1..Len(stream') /\ 4 + (i - 4) = i
        BY <1>1, <2>1, <2>2, <3>2
      <4>2. Ahead'[4 + (i - 4)] = stream'[i - 4] /\ Ahead[4 + (i - 4)] = stream[i - 4]
        BY <2>1, <4>1
      <4> QED BY <2>2, <4>1, <4>2
    <3> QED BY <3>1, <3>2
  <2>5. ASSUME NEW i \in 1..Len(t) PROVE Ahead'[Len(Ahead) + i] = t[i]
    <3>1. Len(stream) + i \in 1..Len(stream') /\ 4 + (Len(stream) + i) = Len(Ahead) + i
      BY <1>1, <2>1, <2>2
    <3>2. Ahead'[4 + (Len(stream) + i)] = stream'[Len(stream) + i]
      BY <2>1, <3>1
    <3> QED BY <2>2, <3>1, <3>2
  <2> QED BY <2>1, <2>3, <2>4, <2>5 DEF IsCat
<1> QED BY <1>4, <1>5

LEMMA SendsLaid ==
    ASSUME TypeOK, TypeOK', NEW d \in 0..Len(submitted), Laid(d), NEW q \in Packets, Sends(q)
    PROVE  Laid(d)'
<1> DEFINE s == Len(submitted)
           w == Written[q]
<1>1. /\ submitted' = Append(submitted, q) /\ stream' = stream \o w
      /\ UNCHANGED <<header, skipped, delivered, garbage, faults>>
  BY DEF Sends
<1>2. PICK at : Spread(at, Ahead, submitted, d, garbage, skipped)
  BY DEF Laid
<1>3. /\ d \in Nat /\ s \in Nat /\ d <= s /\ garbage \in Nat /\ skipped \in Nat
      /\ submitted \in Seq(Packets)
  BY Lengths
<1>4. w \in Seq(Byte) /\ Len(w) \in Nat
  BY WrittenIs, LenProperties
<1>5. IsCat(Ahead', Ahead, w)
  BY <1>1, <1>4, AheadGrows
<1>6. Ahead \in Seq(Byte) /\ Len(Ahead) \in Nat
  BY AheadIs DEF Shows
<1>7. /\ at \in [1..(s + 1) -> Int] /\ at[s + 1] = Len(Ahead) + 1
      /\ InOrder(at, d + 1, s + 1) /\ GapAt(Ahead, 1, at[d + 1], garbage - skipped)
      /\ \A j \in (d + 1)..s :
            /\ FrameAt(Ahead, at[j], Written[submitted[j]])
            /\ GapAt(Ahead, at[j] + Len(Written[submitted[j]]), at[j + 1], garbage)
  BY <1>2 DEF Spread
<1>8. /\ Len(submitted') = s + 1 /\ submitted'[s + 1] = q
      /\ \A j \in 1..s : submitted'[j] = submitted[j]
  BY <1>1, <1>3, AppendProperties
<1>9. Len(Ahead') = Len(Ahead) + Len(w)
  BY <1>5 DEF IsCat
<1> HIDE DEF s, w
<1> DEFINE to == [j \in 1..((s + 1) + 1) |-> IF j = s + 2 THEN at[s + 1] + Len(w) ELSE at[j]]
<1>10. /\ to[s + 2] = at[s + 1] + Len(w)
       /\ \A j \in 1..(s + 1) : to[j] = at[j] /\ at[j] \in Int
       /\ (s + 1) + 1 = s + 2 /\ s + 1 \in 1..(s + 1)
  BY <1>3, <1>7
<1>11. to \in [1..((s + 1) + 1) -> Int]
  <2>1. ASSUME NEW j \in 1..((s + 1) + 1), j # s + 2 PROVE at[j] \in Int
    <3>1. j \in 1..(s + 1)
      BY <1>3, <2>1
    <3> QED BY <1>10, <3>1
  <2>2. at[s + 1] \in Int /\ Len(w) \in Int
    <3>1. at[s + 1] \in Int
      BY <1>10
    <3> QED BY <1>4, <3>1
  <2>3. \A a, b \in Int : a + b \in Int
    OBVIOUS
  <2>4. at[s + 1] + Len(w) \in Int
    BY <2>2, <2>3
  <2> QED BY <2>1, <2>4
<1> HIDE DEF to
<1>12. to[(s + 1) + 1] = Len(Ahead') + 1
  BY <1>4, <1>6, <1>7, <1>9, <1>10
<1>13. InOrder(to, d + 1, (s + 1) + 1)
  <2>1. ASSUME NEW i \in (d + 1)..((s + 1) + 1), NEW j \in (d + 1)..((s + 1) + 1), i <= j
        PROVE  to[i] <= to[j]
    <3>1. CASE j # s + 2
      <4>1. /\ i \in (d + 1)..(s + 1) /\ j \in (d + 1)..(s + 1)
            /\ i \in 1..(s + 1) /\ j \in 1..(s + 1)
        BY <1>3, <2>1, <3>1
      <4> QED BY <1>7, <1>10, <2>1, <4>1 DEF InOrder
    <3>2. CASE j = s + 2 /\ i # s + 2
      <4>1. /\ i \in (d + 1)..(s + 1) /\ s + 1 \in (d + 1)..(s + 1)
            /\ i \in 1..(s + 1) /\ i <= s + 1
        BY <1>3, <3>2
      <4>2. to[i] <= at[s + 1] /\ to[i] \in Int /\ at[s + 1] \in Int
        BY <1>7, <1>10, <4>1 DEF InOrder
      <4> QED BY <1>4, <1>10, <3>2, <4>2
    <3>3. CASE j = s + 2 /\ i = s + 2
      <4>1. to[s + 2] \in Int
        BY <1>4, <1>10
      <4> QED BY <3>3, <4>1
    <3> QED BY <3>1, <3>2, <3>3
  <2> QED BY <2>1 DEF InOrder
<1>14. GapAt(Ahead', 1, to[d + 1], garbage - skipped)
  <2>1. d + 1 \in 1..(s + 1)
    BY <1>3
  <2>2. 1 \in Int /\ at[d + 1] \in Int /\ garbage - skipped \in Int /\ 1 <= 1
    BY <1>3, <1>10, <2>1
  <2>3. GapAt(Ahead', 1, at[d + 1], garbage - skipped)
    BY <1>4, <1>5, <1>6, <1>7, <2>2, GapGrows
  <2> QED BY <1>10, <2>1, <2>3
<1>15. ASSUME NEW j \in (d + 1)..(s + 1)
       PROVE  /\ FrameAt(Ahead', to[j], Written[submitted'[j]])
              /\ GapAt(Ahead', to[j] + Len(Written[submitted'[j]]), to[j + 1], garbage)
  <2>1. CASE j <= s
    <3> DEFINE v == Written[submitted[j]]
    <3>1. /\ j \in 1..s /\ j \in (d + 1)..s /\ j \in 1..(s + 1) /\ j + 1 \in 1..(s + 1)
      BY <1>3, <2>1
    <3>2. v \in Seq(Byte) /\ Len(v) \in Nat
      <4>1. submitted[j] \in Packets
        BY <1>3, <3>1, ElementOfSeq DEF s
      <4> QED BY <4>1, WrittenIs, LenProperties
    <3>3. FrameAt(Ahead, at[j], v) /\ GapAt(Ahead, at[j] + Len(v), at[j + 1], garbage)
      BY <1>7, <3>1
    <3> HIDE DEF v
    <3>4. at[j] \in Int /\ at[j + 1] \in Int /\ to[j] = at[j] /\ to[j + 1] = at[j + 1]
      BY <1>10, <3>1
    <3>5. FrameAt(Ahead', at[j], v)
      BY <1>4, <1>5, <1>6, <3>2, <3>3, <3>4, FrameGrows
    <3>6. GapAt(Ahead', at[j] + Len(v), at[j + 1], garbage)
      <4>1. 1 <= at[j]
        BY <3>3 DEF FrameAt
      <4>2. at[j] + Len(v) \in Int /\ 1 <= at[j] + Len(v) /\ garbage \in Int
        BY <1>3, <3>2, <3>4, <4>1
      <4> QED BY <1>4, <1>5, <1>6, <3>3, <3>4, <4>2, GapGrows
    <3>7. Written[submitted'[j]] = v
      BY <1>8, <3>1 DEF v
    <3> QED BY <3>4, <3>5, <3>6, <3>7
  <2>2. CASE ~(j <= s)
    <3>1. j = s + 1 /\ j + 1 = s + 2
      BY <1>3, <2>2
    <3>2. to[j] = Len(Ahead) + 1 /\ to[j + 1] = (Len(Ahead) + 1) + Len(w)
      BY <1>7, <1>10, <3>1
    <3>3. Written[submitted'[j]] = w
      BY <1>8, <3>1 DEF w
    <3>4. FrameAt(Ahead', Len(Ahead) + 1, w)
      <4>1. ASSUME NEW i \in 1..Len(w) PROVE Ahead'[(Len(Ahead) + 1) + i - 1] = w[i]
        <5>1. (Len(Ahead) + 1) + i - 1 = Len(Ahead) + i
          BY <1>6
        <5>2. Ahead'[Len(Ahead) + i] = w[i]
          BY <1>5 DEF IsCat
        <5> QED BY <5>1, <5>2
      <4>2. 1 <= Len(Ahead) + 1 /\ (Len(Ahead) + 1) + Len(w) <= Len(Ahead') + 1
        BY <1>4, <1>6, <1>9
      <4> QED BY <4>1, <4>2 DEF FrameAt
    <3>5. GapAt(Ahead', (Len(Ahead) + 1) + Len(w), (Len(Ahead) + 1) + Len(w), garbage)
      <4> DEFINE b == (Len(Ahead) + 1) + Len(w)
      <4>1. b \in Int /\ b <= Len(Ahead') + 1 /\ b <= b + garbage /\ b <= b
        BY <1>3, <1>4, <1>6, <1>9
      <4> HIDE DEF b
      <4>2. GapAt(Ahead', b, b, garbage)
        BY <4>1 DEF GapAt
      <4> QED BY <4>2 DEF b
    <3> QED BY <3>2, <3>3, <3>4, <3>5
  <2> QED BY <2>1, <2>2
<1>16. Spread(to, Ahead', submitted', d, garbage, skipped)
  BY <1>8, <1>11, <1>12, <1>13, <1>14, <1>15 DEF Spread
<1>17. Spread(to, Ahead', submitted', d, garbage', skipped')
  BY <1>1, <1>16
<1> QED BY <1>17 DEF Laid

LEMMA PrintsLaid ==
    ASSUME TypeOK, TypeOK', NEW d \in 0..Len(submitted), Laid(d), NEW byte \in Garbage, Prints(byte)
    PROVE  Laid(d)'
<1> DEFINE s == Len(submitted)
           g == <<byte>>
<1>1. /\ garbage' = garbage + 1 /\ stream' = Append(stream, byte)
      /\ UNCHANGED <<submitted, header, skipped, delivered, faults>>
  BY DEF Prints
<1>2. PICK at : Spread(at, Ahead, submitted, d, garbage, skipped)
  BY DEF Laid
<1>3. /\ d \in Nat /\ s \in Nat /\ d <= s /\ garbage \in Nat /\ skipped \in Nat
      /\ submitted \in Seq(Packets)
  BY Lengths
<1>4. g \in Seq(Byte) /\ Len(g) = 1 /\ g[1] >= 2
  <2>1. byte \in 2..255
    BY SerialAssumption
  <2>2. byte \in Byte /\ byte >= 2
    BY <2>1 DEF Byte
  <2> QED BY <2>2
<1>5. IsCat(Ahead', Ahead, g)
  <2>1. stream \in Seq(Byte) /\ byte \in Byte
    BY SerialAssumption DEF TypeOK, Byte
  <2>2. stream' = stream \o g
    BY <1>1, <2>1, AppendIsConcat
  <2> QED BY <1>1, <1>4, <2>2, AheadGrows
<1>6. Ahead \in Seq(Byte) /\ Len(Ahead) \in Nat
  BY AheadIs DEF Shows
<1>7. /\ at \in [1..(s + 1) -> Int] /\ at[s + 1] = Len(Ahead) + 1
      /\ InOrder(at, d + 1, s + 1) /\ GapAt(Ahead, 1, at[d + 1], garbage - skipped)
      /\ \A j \in (d + 1)..s :
            /\ FrameAt(Ahead, at[j], Written[submitted[j]])
            /\ GapAt(Ahead, at[j] + Len(Written[submitted[j]]), at[j + 1], garbage)
  BY <1>2 DEF Spread
<1>8. Len(Ahead') = Len(Ahead) + 1
  BY <1>4, <1>5 DEF IsCat
<1> HIDE DEF s, g
<1> DEFINE to == [j \in 1..(s + 1) |-> IF j = s + 1 THEN Len(Ahead) + 2 ELSE at[j]]
<1>9. /\ to[s + 1] = Len(Ahead) + 2
      /\ \A j \in 1..(s + 1) : at[j] \in Int /\ (j # s + 1 => to[j] = at[j])
      /\ s + 1 \in 1..(s + 1)
  <2>1. s + 1 \in 1..(s + 1)
    BY <1>3
  <2>2. \A j \in 1..(s + 1) : at[j] \in Int
    BY <1>7
  <2> QED BY <2>1, <2>2
<1>10. to \in [1..(s + 1) -> Int]
  <2>1. Len(Ahead) + 2 \in Int
    BY <1>6
  <2>2. \A j \in 1..(s + 1) : at[j] \in Int
    BY <1>9
  <2> QED BY <2>1, <2>2
<1> HIDE DEF to
<1>11. InOrder(to, d + 1, s + 1)
  <2>1. ASSUME NEW i \in (d + 1)..(s + 1), NEW j \in (d + 1)..(s + 1), i <= j
        PROVE  to[i] <= to[j]
    <3>1. i \in 1..(s + 1) /\ j \in 1..(s + 1) /\ s + 1 \in (d + 1)..(s + 1) /\ i <= s + 1
      BY <1>3
    <3>2. at[i] <= at[j] /\ at[i] <= at[s + 1] /\ at[i] \in Int
      BY <1>7, <1>9, <2>1, <3>1 DEF InOrder
    <3>3. CASE j # s + 1
      <4>1. i # s + 1
        BY <1>3, <2>1, <3>3
      <4> QED BY <1>9, <3>1, <3>2, <3>3, <4>1
    <3>4. CASE j = s + 1 /\ i # s + 1
      BY <1>6, <1>7, <1>9, <3>1, <3>2, <3>4
    <3>5. CASE j = s + 1 /\ i = s + 1
      BY <1>6, <1>9, <3>5
    <3> QED BY <3>3, <3>4, <3>5
  <2> QED BY <2>1 DEF InOrder
\* A gap that ends where the j-th packet begins, or where the line ends.
<1>12. ASSUME NEW a \in Int, 1 <= a, NEW j \in 1..(s + 1), NEW n \in Int, GapAt(Ahead, a, at[j], n)
       PROVE  GapAt(Ahead', a, to[j], n + 1)
  <2>1. CASE j = s + 1
    <3>1. GapAt(Ahead, a, Len(Ahead) + 1, n)
      BY <1>7, <1>12, <2>1
    <3>2. GapAt(Ahead', a, Len(Ahead) + 2, n + 1)
      BY <1>4, <1>5, <1>6, <1>12, <3>1, GapExtends
    <3> QED BY <1>9, <2>1, <3>2
  <2>2. CASE j # s + 1
    <3>1. at[j] \in Int /\ to[j] = at[j]
      BY <1>9, <2>2
    <3>2. GapAt(Ahead', a, at[j], n)
      BY <1>4, <1>5, <1>6, <1>12, <3>1, GapGrows
    <3>3. n + 1 \in Int /\ n <= n + 1
      OBVIOUS
    <3>4. GapAt(Ahead', a, at[j], n + 1)
      BY <3>1, <3>2, <3>3, GapEases
    <3> QED BY <3>1, <3>4
  <2> QED BY <2>1, <2>2
<1>13. GapAt(Ahead', 1, to[d + 1], (garbage + 1) - skipped)
  <2>1. d + 1 \in 1..(s + 1) /\ garbage - skipped \in Int /\ 1 \in Int /\ 1 <= 1
    BY <1>3
  <2>2. GapAt(Ahead', 1, to[d + 1], (garbage - skipped) + 1)
    BY <1>7, <1>12, <2>1
  <2>3. (garbage - skipped) + 1 = (garbage + 1) - skipped
    BY <1>3
  <2> QED BY <2>2, <2>3
<1>14. ASSUME NEW j \in (d + 1)..s
       PROVE  /\ FrameAt(Ahead', to[j], Written[submitted[j]])
              /\ GapAt(Ahead', to[j] + Len(Written[submitted[j]]), to[j + 1], garbage + 1)
  <2> DEFINE v == Written[submitted[j]]
  <2>1. j \in 1..s /\ j \in 1..(s + 1) /\ j + 1 \in 1..(s + 1) /\ j # s + 1
    BY <1>3
  <2>2. v \in Seq(Byte) /\ Len(v) \in Nat
    <3>1. submitted[j] \in Packets
      BY <1>3, <2>1, ElementOfSeq DEF s
    <3> QED BY <3>1, WrittenIs, LenProperties
  <2>3. FrameAt(Ahead, at[j], v) /\ GapAt(Ahead, at[j] + Len(v), at[j + 1], garbage)
    BY <1>7
  <2> HIDE DEF v
  <2>4. at[j] \in Int /\ to[j] = at[j]
    BY <1>9, <2>1
  <2>5. FrameAt(Ahead', at[j], v)
    BY <1>4, <1>5, <1>6, <2>2, <2>3, <2>4, FrameGrows
  <2>6. GapAt(Ahead', at[j] + Len(v), to[j + 1], garbage + 1)
    <3>1. 1 <= at[j]
      BY <2>3 DEF FrameAt
    <3>2. at[j] + Len(v) \in Int /\ 1 <= at[j] + Len(v) /\ garbage \in Int
      BY <1>3, <2>2, <2>4, <3>1
    <3> QED BY <1>12, <2>1, <2>3, <3>2
  <2> QED BY <2>4, <2>5, <2>6 DEF v
<1>15. to[s + 1] = Len(Ahead') + 1
  BY <1>6, <1>8, <1>9
<1>16. Spread(to, Ahead', submitted, d, garbage + 1, skipped)
  BY <1>10, <1>11, <1>13, <1>14, <1>15 DEF Spread, s
<1>17. Spread(to, Ahead', submitted', d, garbage', skipped')
  BY <1>1, <1>16
<1> QED BY <1>17 DEF Laid

-----------------------------------------------------------------------------
(* What was handed over.                                                   *)

LEMMA PickedFirst == Picked(<<>>, <<>>, 0)
<1> DEFINE f == [i \in 1..0 |-> 0]
<1>1. Len(<<>>) = 0 /\ 1..0 = {}
  OBVIOUS
<1>2. f \in [1..Len(<<>>) -> 1..0]
  BY <1>1
<1> QED BY <1>1, <1>2 DEF Picked

(* It stays what it is when more is sent, or given up.                     *)
LEMMA PickedStays ==
    ASSUME NEW del, NEW sub \in Seq(Packets), NEW u \in Seq(Packets),
           NEW d \in 0..Len(sub), NEW e \in Nat, d <= e, Picked(del, sub, d),
           \A j \in 1..Len(sub) : u[j] = sub[j]
    PROVE  Picked(del, u, e)
<1>1. PICK f \in [1..Len(del) -> 1..d] :
         /\ \A i \in 1..Len(del) : del[i] = sub[f[i]]
         /\ \A i, j \in 1..Len(del) : i < j => f[i] < f[j]
  BY DEF Picked
<1>2. Len(sub) \in Nat
  BY LenProperties
<1>3. \A k \in 1..d : k \in 1..e /\ k \in 1..Len(sub)
  BY <1>2
<1>4. \A i \in 1..Len(del) : f[i] \in 1..e /\ f[i] \in 1..Len(sub)
  BY <1>1, <1>3
<1>5. f \in [1..Len(del) -> 1..e]
  BY <1>1, <1>4
<1>6. \A i \in 1..Len(del) : del[i] = u[f[i]]
  BY <1>1, <1>4
<1> QED BY <1>1, <1>5, <1>6 DEF Picked

(* The next packet is picked.                                              *)
LEMMA PickedNext ==
    ASSUME NEW del \in Seq(PacketType), NEW sub, NEW d \in Nat, NEW p \in PacketType,
           p = sub[d + 1], Picked(del, sub, d)
    PROVE  Picked(Append(del, p), sub, d + 1)
<1>1. PICK f \in [1..Len(del) -> 1..d] :
         /\ \A i \in 1..Len(del) : del[i] = sub[f[i]]
         /\ \A i, j \in 1..Len(del) : i < j => f[i] < f[j]
  BY DEF Picked
<1> DEFINE n == Len(del)
           a == Append(del, p)
           g == [i \in 1..(n + 1) |-> IF i = n + 1 THEN d + 1 ELSE f[i]]
<1>2. /\ n \in Nat /\ Len(a) = n + 1 /\ a[n + 1] = p
      /\ \A i \in 1..n : a[i] = del[i]
  BY AppendProperties, LenProperties
<1>3. /\ f \in [1..n -> 1..d]
      /\ \A i \in 1..n : del[i] = sub[f[i]]
      /\ \A i, j \in 1..n : i < j => f[i] < f[j]
  BY <1>1
<1> HIDE DEF n, a
<1>4. /\ n + 1 \in 1..(n + 1) /\ d + 1 \in 1..(d + 1)
      /\ \A i \in 1..(n + 1) : i # n + 1 => i \in 1..n
      /\ \A k \in 1..d : k \in 1..(d + 1) /\ k < d + 1
  BY <1>2
<1>5. /\ g[n + 1] = d + 1
      /\ \A i \in 1..(n + 1) : i # n + 1 => g[i] = f[i] /\ f[i] \in 1..d
  BY <1>3, <1>4
<1>6. g \in [1..(n + 1) -> 1..(d + 1)]
  <2>1. \A i \in 1..(n + 1) : i # n + 1 => f[i] \in 1..(d + 1)
    BY <1>4, <1>5
  <2> QED BY <1>4, <2>1
<1> HIDE DEF g
<1>7. ASSUME NEW i \in 1..(n + 1) PROVE a[i] = sub[g[i]]
  <2>1. CASE i = n + 1
    BY <1>2, <1>5, <2>1
  <2>2. CASE i # n + 1
    BY <1>2, <1>3, <1>4, <1>5, <2>2
  <2> QED BY <2>1, <2>2
<1>8. ASSUME NEW i \in 1..(n + 1), NEW j \in 1..(n + 1), i < j PROVE g[i] < g[j]
  <2>1. i # n + 1
    BY <1>2, <1>8
  <2>2. CASE j = n + 1
    BY <1>4, <1>5, <2>1, <2>2
  <2>3. CASE j # n + 1
    BY <1>3, <1>4, <1>5, <1>8, <2>1, <2>3
  <2> QED BY <2>2, <2>3
<1> QED BY <1>2, <1>6, <1>7, <1>8 DEF Picked, a

LEMMA PickedEmbeds ==
    ASSUME NEW del \in Seq(PacketType), NEW sub \in Seq(Packets), NEW d \in 0..Len(sub),
           Picked(del, sub, d)
    PROVE  Lossy!Embeds(del, sub)
<1>1. PICK f \in [1..Len(del) -> 1..d] :
         /\ \A i \in 1..Len(del) : del[i] = sub[f[i]]
         /\ \A i, j \in 1..Len(del) : i < j => f[i] < f[j]
  BY DEF Picked
<1>2. DOMAIN del = 1..Len(del) /\ DOMAIN sub = 1..Len(sub) /\ Len(sub) \in Nat
  BY LenProperties
<1>3. \A k \in 1..d : k \in 1..Len(sub)
  BY <1>2
<1>4. f \in [DOMAIN del -> DOMAIN sub]
  BY <1>1, <1>2, <1>3
<1> QED BY <1>1, <1>2, <1>4 DEF Lossy!Embeds

LEMMA BeginsIsPrefix ==
    ASSUME NEW del \in Seq(PacketType), NEW sub \in Seq(PacketType), Begins(del, sub)
    PROVE  /\ IsPrefix(del, sub)
           /\ Len(del) = Len(sub) => del = sub
<1>1. Len(del) \in Nat /\ Len(sub) \in Nat /\ Len(del) <= Len(sub)
  BY LenProperties DEF Begins
<1>2. SubSeq(del, 1, Len(del)) = [i \in 1..Len(del) |-> del[i]]
  BY <1>1
<1>3. SubSeq(sub, 1, Len(del)) = [i \in 1..Len(del) |-> sub[i]]
  BY <1>1
<1>4. \A i \in 1..Len(del) : del[i] = sub[i]
  BY DEF Begins
<1>5. SubSeq(del, 1, Len(del)) = SubSeq(sub, 1, Len(del))
  BY <1>2, <1>3, <1>4
<1>6. Len(del) = Len(sub) => del = sub
  BY <1>4, SeqEqual
<1> QED BY <1>1, <1>5, <1>6 DEF IsPrefix

(* A step that hands over nothing.                                         *)
LEMMA HandedStays ==
    ASSUME TypeOK, TypeOK', NEW d \in 0..Len(submitted), NEW e \in Nat, d <= e, Handed(d),
           delivered' = delivered, Len(submitted) <= Len(submitted'),
           \A j \in 1..Len(submitted) : submitted'[j] = submitted[j],
           garbage <= garbage', garbage' <= MaxResync => e = d
    PROVE  Handed(e)'
<1>1. /\ submitted \in Seq(Packets) /\ submitted' \in Seq(Packets)
      /\ Len(submitted) \in Nat /\ Len(submitted') \in Nat
      /\ delivered \in Seq(PacketType)
  BY LenProperties DEF TypeOK, PacketType
<1>2. Picked(delivered', submitted', e)
  BY <1>1, PickedStays DEF Handed
<1>3. ASSUME garbage' <= MaxResync PROVE e = Len(delivered') /\ Begins(delivered', submitted')
  <2>1. garbage <= MaxResync
    <3>1. garbage \in Int /\ garbage' \in Int /\ MaxResync \in Int
      BY SerialAssumption DEF TypeOK
    <3> QED BY <1>3, <3>1
  <2>2. d = Len(delivered) /\ Begins(delivered, submitted)
    BY <2>1 DEF Handed
  <2>3. /\ Len(delivered) <= Len(submitted)
        /\ \A i \in 1..Len(delivered) : delivered[i] = submitted[i] /\ i \in 1..Len(submitted)
    BY <1>1, <2>2 DEF Begins
  <2>4. Len(delivered) <= Len(submitted')
    BY <1>1, <2>2
  <2> QED BY <1>3, <2>2, <2>3, <2>4 DEF Begins
<1> QED BY <1>2, <1>3 DEF Handed

(* A step that hands over the next packet.                                 *)
LEMMA HandedNext ==
    ASSUME TypeOK, NEW d \in 0..Len(submitted), Handed(d), d + 1 \in 1..Len(submitted),
           delivered' = Append(delivered, submitted[d + 1]), UNCHANGED <<submitted, garbage>>
    PROVE  Handed(d + 1)'
<1> DEFINE p == submitted[d + 1]
<1>1. /\ submitted \in Seq(Packets) /\ delivered \in Seq(PacketType)
      /\ Len(submitted) \in Nat /\ Len(delivered) \in Nat
  BY Lengths
<1>2. p \in PacketType
  <2>1. p \in Packets
    BY <1>1, ElementOfSeq
  <2> QED BY <2>1, PacketsFit
<1>3. d \in Nat
  BY <1>1
<1>4. delivered' = Append(delivered, p) /\ p = submitted[d + 1]
  OBVIOUS
<1> HIDE DEF p
<1>5. Picked(Append(delivered, p), submitted, d + 1)
  BY <1>1, <1>2, <1>3, <1>4, PickedNext DEF Handed
<1>6. ASSUME garbage <= MaxResync
      PROVE  d + 1 = Len(delivered') /\ Begins(delivered', submitted)
  <2>1. d = Len(delivered) /\ Begins(delivered, submitted)
    BY <1>6 DEF Handed
  <2>2. /\ Len(delivered') = d + 1 /\ delivered'[d + 1] = submitted[d + 1]
        /\ \A i \in 1..d : delivered'[i] = delivered[i]
    BY <1>1, <1>2, <1>4, <2>1, AppendProperties
  <2>3. \A i \in 1..d : delivered[i] = submitted[i]
    BY <2>1 DEF Begins
  <2>4. \A i \in 1..(d + 1) : i \in 1..d \/ i = d + 1
    BY <1>3
  <2>5. d + 1 <= Len(submitted)
    BY <1>1
  <2> QED BY <2>2, <2>3, <2>4, <2>5 DEF Begins
<1> QED BY <1>4, <1>5, <1>6 DEF Handed

-----------------------------------------------------------------------------
(* The invariant.                                                          *)

LEMMA EmptyLaid ==
    ASSUME NEW sub \in Seq(Packets), NEW n \in Nat
    PROVE  \E at : Spread(at, <<>>, sub, Len(sub), n, 0)
<1> DEFINE s == Len(sub)
           at == [j \in 1..(s + 1) |-> 1]
<1>1. s \in Nat
  BY LenProperties
<1>2. Len(<<>>) = 0
  OBVIOUS
<1> HIDE DEF s
<1>3. at \in [1..(s + 1) -> Int] /\ at[s + 1] = 1
  BY <1>1
<1> HIDE DEF at
<1>4. GapAt(<<>>, 1, 1, n - 0)
  <2>1. 1 <= 1 + (n - 0) /\ 1..(1 - 1) = {}
    OBVIOUS
  <2> QED BY <1>2, <2>1 DEF GapAt
<1>5. InOrder(at, s + 1, s + 1)
  <2>1. \A i \in (s + 1)..(s + 1) : i = s + 1
    BY <1>1
  <2> QED BY <1>3, <2>1 DEF InOrder
<1>6. (s + 1)..s = {} /\ 0 + 1 = 1
  BY <1>1
<1>7. Spread(at, <<>>, sub, s, n, 0)
  BY <1>2, <1>3, <1>4, <1>5, <1>6 DEF Spread, s
<1> QED BY <1>7 DEF s

LEMMA SpacedFirst == ASSUME Init PROVE Spaced
<1>1. /\ submitted = <<>> /\ delivered = <<>> /\ garbage = 0 /\ skipped = 0
      /\ header = <<>> /\ stream = <<>>
  BY DEF Init
<1>2. Len(submitted) = 0 /\ Len(delivered) = 0
  BY <1>1
<1>3. Ahead = <<>>
  <2>1. <<>> \in Seq(Byte)
    BY EmptySeq
  <2> QED BY <1>1, <2>1, ConcatEmptySeq DEF Ahead
<1>4. Laid(0)
  <2>1. submitted \in Seq(Packets) /\ 0 \in Nat
    BY <1>1, EmptySeq
  <2> QED BY <1>1, <1>2, <1>3, <2>1, EmptyLaid DEF Laid
<1>5. Handed(0)
  <2>1. Begins(delivered, submitted)
    BY <1>2 DEF Begins
  <2> QED BY <1>1, <1>2, <2>1, PickedFirst DEF Handed
<1>6. 0 \in 0..Len(submitted)
  BY <1>2
<1> QED BY <1>4, <1>5, <1>6 DEF Spaced

(* What is left when the reader gives up is nothing.                       *)
LEMMA GivesUpLaid ==
    ASSUME TypeOK, NEW n, n = Len(submitted), GivesUp PROVE Laid(n)'
<1>1. /\ header' = <<>> /\ stream' = <<>> /\ skipped' = 0
      /\ UNCHANGED <<submitted, delivered, garbage, faults>>
  BY DEF GivesUp
<1>2. Ahead' = <<>>
  <2>1. <<>> \in Seq(Byte)
    BY EmptySeq
  <2> QED BY <1>1, <2>1, ConcatEmptySeq DEF Ahead
<1>3. \E at : Spread(at, <<>>, submitted, Len(submitted), garbage, 0)
  BY Lengths, EmptyLaid
<1> QED BY <1>1, <1>2, <1>3 DEF Laid

(* What a step of an undisturbed line does to it.                          *)
LEMMA StepLaid ==
    ASSUME TypeOK, TypeOK', NEW d \in 0..Len(submitted), Laid(d), Handed(d), [Next]_vars,
           faults' = faults
    PROVE  /\ \E e \in 0..Len(submitted') : Laid(e)' /\ Handed(e)'
           /\ [Lossy!Submits \/ Lossy!Delivers]_Lossy!lossyVars
<1> DEFINE Goal == \E e \in 0..Len(submitted') : Laid(e)' /\ Handed(e)'
           Silent == delivered' = delivered /\ submitted' = submitted
<1>1. /\ submitted \in Seq(Packets) /\ Len(submitted) \in Nat /\ d \in Nat /\ d <= d
      /\ faults \in Int /\ garbage \in Int /\ garbage <= garbage
  BY Lengths, SerialAssumption DEF TypeOK
<1>2. Silent => [Lossy!Submits \/ Lossy!Delivers]_Lossy!lossyVars
  BY DEF Lossy!lossyVars
<1>3. ASSUME Silent, garbage' = garbage PROVE Handed(d)'
  BY <1>1, <1>3, HandedStays
<1>4. CASE ReadsHeader
  <2>1. Silent /\ garbage' = garbage
    BY <1>4 DEF ReadsHeader
  <2> QED BY <1>2, <1>3, <1>4, <2>1, ReadsHeaderLaid
<1>5. CASE Slides
  <2>1. Silent /\ garbage' = garbage
    BY <1>5 DEF Slides
  <2> QED BY <1>2, <1>3, <1>5, <2>1, SlidesLaid
<1>6. CASE GivesUp
  <2>1. Silent /\ garbage' = garbage
    BY <1>6 DEF GivesUp
  <2>2. PICK n : n = Len(submitted)
    OBVIOUS
  <2>3. Laid(n)'
    BY <1>6, <2>2, GivesUpLaid
  <2>4. ~(garbage' <= MaxResync)
    BY <1>6, <2>1, GivesUpLate
  <2>5. n \in Nat /\ d <= n /\ n \in 0..Len(submitted')
    BY <1>1, <2>1, <2>2
  <2>6. Handed(n)'
    BY <1>1, <2>1, <2>4, <2>5, HandedStays
  <2> QED BY <1>2, <2>1, <2>3, <2>5, <2>6
<1>7. CASE ReadsFrame
  <2>1. /\ d + 1 \in 1..Len(submitted)
        /\ delivered' = Append(delivered, submitted[d + 1])
        /\ Laid(d + 1)'
    BY <1>7, ReadsFrameLaid
  <2>2. UNCHANGED <<submitted, garbage>>
    BY <1>7 DEF ReadsFrame
  <2>3. Handed(d + 1)'
    BY <2>1, <2>2, HandedNext
  <2>4. d + 1 \in 0..Len(submitted')
    BY <2>1, <2>2
  <2>5. Lossy!Delivers
    <3>1. submitted[d + 1] \in Packets
      BY <1>1, <2>1, ElementOfSeq
    <3>2. delivered' \in Seq(PacketType) /\ d + 1 \in 0..Len(submitted)
      BY <2>2, <2>4 DEF TypeOK, PacketType
    <3>3. Picked(delivered', submitted, d + 1)
      BY <2>2, <2>3 DEF Handed
    <3>4. Lossy!Embeds(delivered', submitted)
      BY <1>1, <3>2, <3>3, PickedEmbeds
    <3> QED BY <2>1, <2>2, <3>1, <3>4 DEF Lossy!Delivers
  <2> QED BY <2>1, <2>3, <2>4, <2>5
<1>8. ASSUME NEW q \in Packets, Sends(q)
      PROVE  Goal /\ [Lossy!Submits \/ Lossy!Delivers]_Lossy!lossyVars
  <2>1. submitted' = Append(submitted, q) /\ delivered' = delivered /\ garbage' = garbage
    BY <1>8 DEF Sends
  <2>2. /\ Len(submitted') = Len(submitted) + 1
        /\ \A j \in 1..Len(submitted) : submitted'[j] = submitted[j]
    BY <1>1, <2>1, AppendProperties
  <2>3. Len(submitted) <= Len(submitted') /\ d \in 0..Len(submitted')
    BY <1>1, <2>2
  <2>4. Handed(d)'
    BY <1>1, <2>1, <2>2, <2>3, HandedStays
  <2>5. Laid(d)'
    BY <1>8, SendsLaid
  <2>6. Lossy!Submits
    BY <2>1 DEF Lossy!Submits
  <2> QED BY <2>3, <2>4, <2>5, <2>6
<1>9. ASSUME NEW byte \in Garbage, Prints(byte) PROVE Goal /\ Silent
  <2>1. Silent /\ garbage' = garbage + 1
    BY <1>9 DEF Prints
  <2>2. garbage <= garbage'
    BY <1>1, <2>1
  <2>3. Handed(d)'
    BY <1>1, <2>1, <2>2, HandedStays
  <2>4. Laid(d)'
    BY <1>9, PrintsLaid
  <2> QED BY <2>1, <2>3, <2>4
<1>10. ~Disturbs
  BY <1>1 DEF Disturbs
<1>11. CASE UNCHANGED vars
  <2>1. Silent /\ garbage' = garbage
    BY <1>11 DEF vars
  <2>2. Laid(d)'
    BY <1>11 DEF vars, Laid, Ahead
  <2> QED BY <1>2, <1>3, <2>1, <2>2
<1> QED BY <1>2, <1>4, <1>5, <1>6, <1>7, <1>8, <1>9, <1>10, <1>11
        DEF Next, Reader, Line, LosesByte, GarblesByte

LEMMA FaultsGrow ==
    ASSUME TypeOK, [Next]_vars, faults' = 0 PROVE faults = 0 /\ faults' = faults
<1>1. faults \in Nat
  BY SerialAssumption DEF TypeOK
<1>2. faults' = faults \/ faults' = faults + 1
  BY DEF Next, Reader, ReadsHeader, Slides, GivesUp, ReadsFrame, Line, Sends, Prints,
         LosesByte, GarblesByte, Disturbs, vars
<1> QED BY <1>1, <1>2

LEMMA SpacedStep ==
    ASSUME TypeOK, TypeOK', Spaced, [Next]_vars PROVE Spaced'
<1> SUFFICES ASSUME faults' = 0
             PROVE  \E e \in 0..Len(submitted') : Laid(e)' /\ Handed(e)'
  BY DEF Spaced
<1>1. faults = 0 /\ faults' = faults
  BY FaultsGrow
<1>2. PICK d \in 0..Len(submitted) : Laid(d) /\ Handed(d)
  BY <1>1 DEF Spaced
<1> QED BY <1>1, <1>2, StepLaid

(* Without a fault, whatever is printed and however often the reader gives *)
(* up, what it does is a step of the channel or unseen.                    *)
LEMMA SpacedKeeps ==
    ASSUME TypeOK, TypeOK', Spaced, [Next]_vars, faults' = 0
    PROVE  [Lossy!Submits \/ Lossy!Delivers]_Lossy!lossyVars
<1>1. faults = 0 /\ faults' = faults
  BY FaultsGrow
<1>2. PICK d \in 0..Len(submitted) : Laid(d) /\ Handed(d)
  BY <1>1 DEF Spaced
<1> QED BY <1>1, <1>2, StepLaid

(* As long as a packet is to come, the whole of it is in Ahead, so that    *)
(* the reader does not wait.                                               *)
LEMMA WaitsForNothing ==
    ASSUME TypeOK, NEW d \in 0..Len(submitted), Laid(d), Waits PROVE d = Len(submitted)
<1> DEFINE s == Len(submitted)
           e == EncodePacket(submitted[d + 1])
           w == Written[submitted[d + 1]]
<1> SUFFICES ASSUME d # s PROVE FALSE
  OBVIOUS
<1>1. PICK at : Spread(at, Ahead, submitted, d, garbage, skipped)
  BY DEF Laid
<1>2. s \in Nat /\ d \in Nat /\ d <= s
  BY Lengths
<1>3. d + 1 \in 1..s /\ d + 1 \in (d + 1)..s /\ d + 1 \in 1..(s + 1)
  BY <1>2
<1>4. submitted[d + 1] \in Packets
  BY <1>3, ElementOfSeq DEF TypeOK
<1>5. Len(e) \in Nat /\ Len(e) >= 14 /\ Len(w) = 4 + Len(e)
  BY <1>4, WrittenIs
<1>6. FrameAt(Ahead, at[d + 1], w)
  BY <1>1, <1>3 DEF Spread
<1>7. at[d + 1] \in Int
  BY <1>1, <1>3 DEF Spread
<1>8. header # <<>> /\ Plausible(header) => LengthOf(header) = Len(e)
  BY <1>1, WindowIs
<1>9. Shows(Ahead, header, stream)
  BY AheadIs
<1> HIDE DEF s, e, w
<1>10. Len(Ahead) \in Nat /\ Len(w) <= Len(Ahead)
  BY <1>5, <1>6, <1>7, <1>9 DEF FrameAt, Shows
<1>11. CASE header = <<>>
  <2>1. Len(stream) \in Nat /\ Len(stream) >= 18
    BY <1>5, <1>9, <1>10, <1>11 DEF Shows
  <2>2. Len(stream) < 4
    BY <1>11 DEF Waits
  <2> QED BY <2>1, <2>2
<1>12. CASE header # <<>>
  <2>1. Len(stream) \in Nat /\ Len(stream) >= Len(e)
    BY <1>5, <1>9, <1>10, <1>12 DEF Shows
  <2>2. Len(stream) < (IF Plausible(header) THEN LengthOf(header) ELSE 1)
    BY <1>12 DEF Waits
  <2>3. CASE Plausible(header)
    <3>1. Len(stream) < Len(e)
      BY <1>8, <1>12, <2>2, <2>3
    <3> QED BY <1>5, <2>1, <3>1
  <2>4. CASE ~Plausible(header)
    <3>1. Len(stream) < 1
      BY <2>2, <2>4
    <3> QED BY <1>5, <2>1, <3>1
  <2> QED BY <2>3, <2>4
<1> QED BY <1>11, <1>12

(* As long as no byte was lost or garbled, the packets the reader is not   *)
(* done with are on the line, whole, in order and apart.                   *)
THEOREM AlwaysSpaced == Spec => []Spaced
<1>1. Init => Spaced
  BY SpacedFirst
<1>2. TypeOK /\ TypeOK' /\ Spaced /\ [Next]_vars => Spaced'
  BY SpacedStep
<1> QED BY <1>1, <1>2, TypeCorrect, PTL DEF Spec

(* On a line that loses nothing, what the ESP32 prints between the frames  *)
(* costs no packet, if the reader skips as much: whatever it has handed    *)
(* over is what was sent first, and when it waits that is everything.      *)
THEOREM GarbageIsHarmless == Spec => []GarbageHarmless
<1>1. TypeOK /\ Spaced => GarbageHarmless
  <2> SUFFICES ASSUME TypeOK, Spaced, Undisturbed
               PROVE  IsPrefix(delivered, submitted) /\ (Waits => delivered = submitted)
    BY DEF GarbageHarmless
  <2>1. PICK d \in 0..Len(submitted) : Laid(d) /\ Handed(d)
    BY DEF Spaced, Undisturbed
  <2>2. d = Len(delivered) /\ Begins(delivered, submitted)
    BY <2>1 DEF Handed, Undisturbed
  <2>3. delivered \in Seq(PacketType) /\ submitted \in Seq(PacketType)
    <3>1. delivered \in Seq(PacketType) /\ submitted \in Seq(Packets)
      BY DEF TypeOK, PacketType
    <3>2. \A i \in 1..Len(submitted) : submitted[i] \in PacketType
      BY <3>1, PacketsFit, ElementOfSeq
    <3>3. submitted \in [1..Len(submitted) -> PacketType] /\ Len(submitted) \in Nat
      BY <3>1, <3>2, LenProperties
    <3> QED BY <3>1, <3>3, SeqDef
  <2>4. Waits => Len(delivered) = Len(submitted)
    BY <2>1, <2>2, WaitsForNothing
  <2> QED BY <2>2, <2>3, <2>4, BeginsIsPrefix
<1> QED BY <1>1, AlwaysSpaced, TypeCorrect, PTL

(* A line on which no byte was lost or garbled implements LossyChannel,    *)
(* however much is printed on it and whenever the reader gives up: what is *)
(* thrown away costs packets, and never the order of the others.           *)
THEOREM OrderKept == Spec /\ [](faults = 0) => KeepsOrder
<1>1. Init => Lossy!LossyInit
  BY DEF Init, Lossy!LossyInit
<1>2. TypeOK /\ TypeOK' /\ Spaced /\ [Next]_vars /\ (faults = 0)'
        => [Lossy!Submits \/ Lossy!Delivers]_Lossy!lossyVars
  BY SpacedKeeps
<1> QED BY <1>1, <1>2, AlwaysSpaced, TypeCorrect, PTL DEF Spec, KeepsOrder, Lossy!LossySpec
=============================================================================
