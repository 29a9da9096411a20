------------------------ MODULE ChunkTransferProofs ------------------------
(***************************************************************************)
(* ChunkTransfer implements FrameChannel for every chunk size and every    *)
(* set of packets.                                                         *)
(***************************************************************************)
EXTENDS ChunkTransfer, SequenceTheorems, TLAPS

-----------------------------------------------------------------------------
(* Sequences.                                                              *)

(* The first element and the rest.                                         *)
LEMMA TailFacts ==
    ASSUME NEW S, NEW s \in Seq(S), s # <<>>
    PROVE  /\ Len(s) \in Nat \ {0}
           /\ Head(s) = s[1] /\ Head(s) \in S
           /\ Tail(s) \in Seq(S) /\ Len(Tail(s)) = Len(s) - 1
           /\ \A i \in 1..Len(Tail(s)) : Tail(s)[i] = s[i + 1]
<1>1. Len(s) \in Nat \ {0}
  BY EmptySeq
<1> QED BY <1>1

(* A piece of a sequence.                                                  *)
LEMMA Piece ==
    ASSUME NEW S, NEW s \in Seq(S), NEW m \in Nat, NEW n \in Nat,
           m <= n, n <= Len(s)
    PROVE  /\ SubSeq(s, m + 1, n) \in Seq(S)
           /\ Len(SubSeq(s, m + 1, n)) = n - m
           /\ \A i \in 1..(n - m) : SubSeq(s, m + 1, n)[i] = s[m + i]
BY SubSeqProperties

(* Two adjacent pieces make one.                                           *)
LEMMA PiecesJoin ==
    ASSUME NEW S, NEW s \in Seq(S), NEW m \in Nat, NEW n \in Nat,
           m <= n, n <= Len(s)
    PROVE  SubSeq(s, 1, m) \o SubSeq(s, m + 1, n) = SubSeq(s, 1, n)
<1> DEFINE a == SubSeq(s, 1, m)
           b == SubSeq(s, m + 1, n)
           c == SubSeq(s, 1, n)
<1>0. Len(s) \in Nat /\ m <= Len(s)
  OBVIOUS
<1>1. a \in Seq(S) /\ Len(a) = m /\ \A i \in 1..m : a[i] = s[i]
  BY <1>0, Piece
<1>2. b \in Seq(S) /\ Len(b) = n - m /\ \A i \in 1..(n - m) : b[i] = s[m + i]
  BY <1>0, Piece
<1>3. c \in Seq(S) /\ Len(c) = n /\ \A i \in 1..n : c[i] = s[i]
  BY <1>0, Piece
<1> HIDE DEF a, b, c
<1>4. a \o b \in Seq(S) /\ Len(a \o b) = n
  <2>1. a \o b \in Seq(S) /\ Len(a \o b) = Len(a) + Len(b)
    BY <1>1, <1>2, ConcatProperties
  <2> QED BY <1>1, <1>2, <2>1
<1>5. ASSUME NEW i \in 1..n PROVE (a \o b)[i] = c[i]
  <2>1. i \in 1..(Len(a) + Len(b))
    BY <1>1, <1>2
  <2>2. (a \o b)[i] = IF i <= Len(a) THEN a[i] ELSE b[i - Len(a)]
    BY <1>1, <1>2, <2>1, ConcatProperties
  <2>3. CASE i <= m
    <3>1. (a \o b)[i] = a[i] /\ i \in 1..m
      BY <1>1, <2>2, <2>3
    <3> QED BY <1>1, <1>3, <3>1
  <2>4. CASE ~(i <= m)
    <3>1. (a \o b)[i] = b[i - m] /\ i - m \in 1..(n - m) /\ m + (i - m) = i
      BY <1>1, <2>2, <2>4
    <3>2. b[i - m] = s[m + (i - m)]
      BY <1>2, <3>1
    <3> QED BY <1>3, <3>1, <3>2
  <2> QED BY <2>3, <2>4
<1>6. a \o b = c
  BY <1>3, <1>4, <1>5, SeqEqual
<1> QED BY <1>6 DEF a, b, c

(* The whole sequence is a piece.                                          *)
LEMMA PieceWhole == ASSUME NEW S, NEW s \in Seq(S) PROVE SubSeq(s, 1, Len(s)) = s
<1>1. Len(s) \in Nat
  OBVIOUS
<1>2. /\ SubSeq(s, 1, Len(s)) \in Seq(S) /\ Len(SubSeq(s, 1, Len(s))) = Len(s)
      /\ \A i \in 1..Len(s) : SubSeq(s, 1, Len(s))[i] = s[i]
  BY <1>1, Piece
<1> QED BY <1>2, SeqEqual

-----------------------------------------------------------------------------
(* The invariant.                                                          *)

Inv == TypeOK /\ PiecesFit

(* What a packet that was sent is.                                         *)
LEMMA SubmittedFacts ==
    ASSUME TypeOK, NEW k \in 1..Len(submitted)
    PROVE  submitted[k] \in Seq(Byte) /\ submitted[k] # <<>> /\ submitted[k] \in Frames
BY ChunkAssumption DEF TypeOK

(* The fields of a chunk.                                                  *)
LEMMA RecordIsChunk ==
    ASSUME NEW b \in BOOLEAN, NEW p \in Seq(Byte), NEW k \in Nat, NEW m \in Nat
    PROVE  [final |-> b, payload |-> p, of |-> k, from |-> m] \in Chunk
BY DEF Chunk

LEMMA SendStep == ASSUME Inv, SendFrame PROVE Inv'
<1> USE DEF Inv
<1>1. PICK f \in Frames : submitted' = Append(submitted, f) /\ data' = f
  BY DEF SendFrame
<1>2. /\ data = <<>> /\ offset' = 0
      /\ UNCHANGED <<wire, rxBuf, delivered>>
  BY DEF SendFrame
<1>3. f \in Seq(Byte) /\ f # <<>> /\ Len(f) \in Nat \ {0}
  <2>1. f \in Seq(Byte) /\ f # <<>>
    BY ChunkAssumption
  <2> QED BY <2>1, EmptySeq
<1>4. TypeOK'
  BY <1>1, <1>2, <1>3 DEF TypeOK
<1>5. /\ Len(submitted') = Len(submitted) + 1 /\ Len(submitted) \in Nat
      /\ submitted'[Len(submitted) + 1] = f
      /\ \A k \in 1..Len(submitted) : submitted'[k] = submitted[k]
  BY <1>1 DEF TypeOK
<1>6. EncoderFits'
  BY <1>1, <1>2, <1>3, <1>5 DEF EncoderFits
<1>7. ASSUME NEW i \in 1..(Len(wire) + 1)
      PROVE  PosOf(i)' = PosOf(i) /\ PosFrom(i)' = PosFrom(i)
  BY <1>1, <1>2, <1>3, <1>5 DEF PosOf, PosFrom
<1>8. Len(wire) \in Nat
  BY DEF TypeOK
<1>9. WireFits'
  <2> SUFFICES ASSUME NEW i \in 1..Len(wire)
               PROVE  /\ IsPiece(wire[i])'
                      /\ PosOf(i + 1)' = (IF wire[i].final THEN wire[i].of + 1 ELSE wire[i].of)
                      /\ PosFrom(i + 1)' = (IF wire[i].final THEN 0 ELSE PieceEnd(wire[i])')
    BY <1>2 DEF WireFits
  <2>1. IsPiece(wire[i])
    BY DEF PiecesFit, WireFits
  <2>2. submitted'[wire[i].of] = submitted[wire[i].of]
    BY <1>5, <2>1 DEF IsPiece
  <2>3. PieceEnd(wire[i])' = PieceEnd(wire[i])
    BY <1>2, <2>2 DEF PieceEnd
  <2>4. IsPiece(wire[i])'
    BY <1>2, <1>5, <2>1, <2>2, <2>3 DEF IsPiece
  <2>5. i + 1 \in 1..(Len(wire) + 1)
    BY <1>8
  <2> QED BY <1>7, <2>3, <2>4, <2>5 DEF PiecesFit, WireFits
<1>10. ReceiverFits'
  <2>1. PosOf(1)' = PosOf(1) /\ PosFrom(1)' = PosFrom(1)
    BY <1>7, <1>8
  <2>2. rxBuf # <<>> => submitted'[PosOf(1)] = submitted[PosOf(1)]
    <3>1. CASE wire = <<>>
      <4>1. PosFrom(1) = 0
        BY <1>2, <3>1 DEF PosFrom
      <4>2. Len(rxBuf) = 0
        BY <4>1 DEF PiecesFit, ReceiverFits
      <4> QED BY <4>2, EmptySeq DEF TypeOK
    <3>2. CASE wire # <<>>
      <4>1. 1 \in 1..Len(wire)
        BY <3>2, TailFacts DEF TypeOK
      <4>2. PosOf(1) \in 1..Len(submitted)
        BY <4>1 DEF PosOf, PiecesFit, WireFits, IsPiece
      <4> QED BY <1>5, <4>2
    <3> QED BY <3>1, <3>2
  <2> QED BY <1>2, <2>1, <2>2 DEF PiecesFit, ReceiverFits
<1>11. DeliveredFits'
  <2>1. Len(delivered) \in Nat
    BY DEF TypeOK
  <2> QED BY <1>2, <1>5, <2>1 DEF PiecesFit, DeliveredFits
<1> QED BY <1>4, <1>6, <1>9, <1>10, <1>11 DEF PiecesFit

LEMMA EncodeStep == ASSUME Inv, EncodeChunk PROVE Inv'
<1> USE DEF Inv
<1> DEFINE S == Len(submitted)
           W == Len(wire)
           c == NewChunk
<1>1. /\ data # <<>> /\ wire' = Append(wire, c)
      /\ UNCHANGED <<submitted, rxBuf, delivered>>
  BY DEF EncodeChunk
<1>2. /\ End < Len(data) => offset' = End /\ data' = data
      /\ ~(End < Len(data)) => offset' = 0 /\ data' = <<>>
  BY DEF EncodeChunk, MoreBytes
<1>3. /\ S \in Nat \ {0} /\ data = submitted[S] /\ offset < Len(data)
      /\ data \in Seq(Byte) /\ offset \in Nat /\ Len(data) \in Nat /\ W \in Nat
  BY <1>1 DEF PiecesFit, EncoderFits, TypeOK
<1>4. End \in Nat /\ offset < End /\ End <= Len(data) /\ End - offset <= ChunkSize
  BY <1>3, ChunkAssumption DEF End
<1>5. /\ c.of = S /\ c.from = offset /\ (c.final <=> End = Len(data))
      /\ c.payload = SubSeq(data, offset + 1, End)
  BY DEF NewChunk, IsFinal
<1>6. c.payload \in Seq(Byte) /\ Len(c.payload) = End - offset
  BY <1>3, <1>4, <1>5, Piece
<1>7. c \in Chunk
  <2>1. c = [final |-> End = Len(data), payload |-> c.payload, of |-> S, from |-> offset]
    BY DEF NewChunk, IsFinal
  <2> HIDE DEF c
  <2>2. CASE End = Len(data)
    <3>1. c = [final |-> TRUE, payload |-> c.payload, of |-> S, from |-> offset]
      BY Zenon, <2>1, <2>2
    <3> QED BY RecordIsChunk, <1>3, <1>6, <3>1
  <2>3. CASE End # Len(data)
    <3>1. c = [final |-> FALSE, payload |-> c.payload, of |-> S, from |-> offset]
      BY Zenon, <2>1, <2>3
    <3> QED BY RecordIsChunk, <1>3, <1>6, <3>1
  <2> QED BY <2>2, <2>3
<1> HIDE DEF c
<1>8. /\ Len(wire') = W + 1 /\ wire' \in Seq(Chunk) /\ wire'[W + 1] = c
      /\ \A i \in 1..W : wire'[i] = wire[i]
  BY <1>1, <1>7 DEF TypeOK
<1>9. TypeOK'
  <2>1. \A i \in 1..Len(wire') : Len(wire'[i].payload) \in 1..ChunkSize
    <3> SUFFICES ASSUME NEW i \in 1..Len(wire')
                 PROVE  Len(wire'[i].payload) \in 1..ChunkSize
      OBVIOUS
    <3>1. CASE i = W + 1
      BY <1>3, <1>4, <1>6, <1>8, <3>1, ChunkAssumption
    <3>2. CASE i # W + 1
      <4>1. i \in 1..W
        BY <1>3, <1>8, <3>2
      <4>2. wire'[i] = wire[i]
        BY <1>8, <4>1
      <4> QED BY <4>1, <4>2 DEF TypeOK
    <3> QED BY <3>1, <3>2
  <2>2. data' \in Seq(Byte) /\ offset' \in Nat
    <3>1. <<>> \in Seq(Byte)
      OBVIOUS
    <3>2. CASE End < Len(data)
      BY <1>2, <1>3, <1>4, <3>2
    <3>3. CASE ~(End < Len(data))
      BY <1>2, <3>1, <3>3
    <3> QED BY <3>2, <3>3
  <2> QED BY <1>1, <1>8, <2>1, <2>2 DEF TypeOK
<1>10. EncoderFits'
  BY <1>1, <1>2, <1>3, <1>4 DEF EncoderFits
<1>11. \A x : PieceEnd(x)' = PieceEnd(x) /\ (IsPiece(x)' <=> IsPiece(x))
  BY <1>1 DEF PieceEnd, IsPiece
<1>12. ASSUME NEW i \in 1..(W + 1) PROVE PosOf(i)' = PosOf(i) /\ PosFrom(i)' = PosFrom(i)
  BY <1>1, <1>3, <1>5, <1>8 DEF PosOf, PosFrom
<1>13. PieceEnd(c) = End /\ IsPiece(c)
  <2>1. PieceEnd(c) = End
    BY <1>3, <1>5 DEF PieceEnd, End
  <2> QED BY <1>3, <1>5, <2>1 DEF IsPiece
<1>14. ASSUME NEW k \in Nat, k = W + 2
       PROVE  /\ PosOf(k)' = IF c.final THEN S + 1 ELSE S
              /\ PosFrom(k)' = IF c.final THEN 0 ELSE End
  <2>1. ~(k <= Len(wire'))
    BY <1>3, <1>8, <1>14
  <2>2. CASE c.final
    BY <1>1, <1>2, <1>4, <1>5, <2>1, <2>2 DEF PosOf, PosFrom
  <2>3. CASE ~c.final
    <3>1. End < Len(data)
      BY <1>3, <1>4, <1>5, <2>3
    <3> QED BY <1>1, <1>2, <2>1, <2>3, <3>1 DEF PosOf, PosFrom
  <2> QED BY <2>2, <2>3
<1>15. WireFits'
  <2> SUFFICES ASSUME NEW i \in 1..Len(wire')
               PROVE  /\ IsPiece(wire'[i])
                      /\ PosOf(i + 1)' = (IF wire'[i].final THEN wire'[i].of + 1 ELSE wire'[i].of)
                      /\ PosFrom(i + 1)' = (IF wire'[i].final THEN 0 ELSE PieceEnd(wire'[i]))
    BY <1>1 DEF WireFits, IsPiece, PieceEnd
  <2>1. CASE i \in 1..W
    <3>1. i + 1 \in 1..(W + 1) /\ wire'[i] = wire[i]
      BY <1>3, <1>8, <2>1
    <3> QED BY <1>12, <2>1, <3>1 DEF PiecesFit, WireFits
  <2>2. CASE i = W + 1
    <3>1. wire'[i] = c /\ i + 1 = W + 2
      BY <1>3, <1>8, <2>2
    <3>2. IsPiece(wire'[i]) /\ PieceEnd(wire'[i]) = End
      BY Zenon, <1>13, <3>1
    <3>5. /\ PosOf(i + 1)' = (IF c.final THEN S + 1 ELSE S)
          /\ PosFrom(i + 1)' = (IF c.final THEN 0 ELSE End)
      <4>1. i + 1 \in Nat /\ i + 1 = W + 2
        BY <1>3, <3>1
      <4> QED BY <1>14, <4>1
    <3>3. PosOf(i + 1)' = (IF wire'[i].final THEN wire'[i].of + 1 ELSE wire'[i].of)
      BY Zenon, <1>5, <3>1, <3>5
    <3>4. PosFrom(i + 1)' = (IF wire'[i].final THEN 0 ELSE End)
      BY Zenon, <3>1, <3>5
    <3> QED BY Zenon, <3>2, <3>3, <3>4
  <2> QED BY <1>3, <1>8, <2>1, <2>2
<1>16. ReceiverFits'
  <2>1. PosOf(1)' = PosOf(1) /\ PosFrom(1)' = PosFrom(1)
    BY <1>3, <1>12
  <2> QED BY <1>1, <2>1 DEF PiecesFit, ReceiverFits
<1>17. DeliveredFits'
  BY <1>1 DEF PiecesFit, DeliveredFits
<1> QED BY <1>9, <1>10, <1>15, <1>16, <1>17 DEF PiecesFit

(* What a step of the receiver starts from: the first chunk is the piece   *)
(* that follows the bytes in the buffer.                                   *)
LEMMA FirstChunk ==
    ASSUME Inv, data = <<>>, wire # <<>>
    PROVE  LET h == Head(wire)
               f == submitted[h.of]
           IN  /\ h = wire[1] /\ h \in Chunk /\ IsPiece(h)
               /\ h.of = Len(delivered) + 1 /\ h.of \in 1..Len(submitted)
               /\ f \in Seq(Byte) /\ f # <<>>
               /\ h.from \in Nat /\ PieceEnd(h) \in Nat
               /\ h.from < PieceEnd(h) /\ PieceEnd(h) <= Len(f)
               /\ rxBuf = SubSeq(f, 1, h.from)
               /\ rxBuf \o h.payload = SubSeq(f, 1, PieceEnd(h))
               /\ PosOf(2) = IF h.final THEN h.of + 1 ELSE h.of
               /\ PosFrom(2) = IF h.final THEN 0 ELSE PieceEnd(h)
<1> USE DEF Inv
<1> DEFINE h == Head(wire)
           f == submitted[h.of]
<1>1. h = wire[1] /\ h \in Chunk /\ 1 \in 1..Len(wire) /\ Len(wire) \in Nat
  BY TailFacts DEF TypeOK
<1>2. /\ IsPiece(wire[1])
      /\ PosOf(2) = IF wire[1].final THEN wire[1].of + 1 ELSE wire[1].of
      /\ PosFrom(2) = IF wire[1].final THEN 0 ELSE PieceEnd(wire[1])
  BY <1>1 DEF PiecesFit, WireFits
<1>3. PosOf(1) = h.of /\ PosFrom(1) = h.from
  BY <1>1 DEF PosOf, PosFrom
<1>4. h.from \in Nat
  BY <1>1 DEF Chunk
<1> HIDE DEF h
<1>5. IsPiece(h) /\ h.of \in 1..Len(submitted)
  BY <1>1, <1>2 DEF IsPiece
<1>6. f \in Seq(Byte) /\ f # <<>>
  BY <1>5, SubmittedFacts
<1> HIDE DEF f
<1>7. /\ h.from < Len(f) /\ h.payload = SubSeq(f, h.from + 1, PieceEnd(h))
      /\ PieceEnd(h) = IF h.from + ChunkSize <= Len(f) THEN h.from + ChunkSize ELSE Len(f)
  BY <1>5 DEF IsPiece, PieceEnd, f
<1>8. /\ PieceEnd(h) \in Nat /\ h.from < PieceEnd(h) /\ PieceEnd(h) <= Len(f)
      /\ h.from <= PieceEnd(h) /\ h.from <= Len(f) /\ Len(f) \in Nat
  BY <1>4, <1>6, <1>7, ChunkAssumption
<1>9. /\ h.of = Len(delivered) + 1 /\ Len(rxBuf) = h.from
      /\ rxBuf # <<>> => rxBuf = SubSeq(f, 1, h.from)
  BY <1>3 DEF PiecesFit, ReceiverFits, f
<1>10. rxBuf = SubSeq(f, 1, h.from)
  <2>1. CASE rxBuf = <<>>
    <3>1. h.from = 0
      BY <1>9, <2>1
    <3> QED BY <2>1, <3>1, <1>6
  <2> QED BY <1>9, <2>1
<1>11. rxBuf \o h.payload = SubSeq(f, 1, PieceEnd(h))
  <2>1. SubSeq(f, 1, h.from) \o SubSeq(f, h.from + 1, PieceEnd(h)) = SubSeq(f, 1, PieceEnd(h))
    BY <1>4, <1>6, <1>8, PiecesJoin
  <2> QED BY <1>7, <1>10, <2>1
<1> QED BY Zenon, <1>1, <1>2, <1>4, <1>5, <1>6, <1>8, <1>9, <1>10, <1>11 DEF h, f

(* Taking the first chunk off the wire.                                    *)
LEMMA TakeChunk ==
    ASSUME Inv, data = <<>>, wire # <<>>, wire' = Tail(wire),
           UNCHANGED <<submitted, data, offset>>
    PROVE  /\ wire' \in Seq(Chunk)
           /\ \A i \in 1..Len(wire') : Len(wire'[i].payload) \in 1..ChunkSize
           /\ EncoderFits' /\ WireFits'
           /\ PosOf(1)' = PosOf(2) /\ PosFrom(1)' = PosFrom(2)
<1> USE DEF Inv
<1>1. /\ wire' \in Seq(Chunk) /\ Len(wire') = Len(wire) - 1 /\ Len(wire) \in Nat \ {0}
      /\ \A i \in 1..Len(wire') : wire'[i] = wire[i + 1]
  BY TailFacts DEF TypeOK
<1>2. \A i \in 1..Len(wire') : i + 1 \in 1..Len(wire)
  BY <1>1
<1>3. \A i \in 1..Len(wire') : Len(wire'[i].payload) \in 1..ChunkSize
  BY <1>1, <1>2 DEF TypeOK
<1>4. EncoderFits'
  BY DEF EncoderFits
<1>5. ASSUME NEW i \in 1..(Len(wire') + 1)
      PROVE  PosOf(i)' = PosOf(i + 1) /\ PosFrom(i)' = PosFrom(i + 1)
  <2>1. CASE i <= Len(wire')
    <3>1. i \in 1..Len(wire') /\ i + 1 <= Len(wire)
      BY <1>1, <2>1
    <3>2. wire'[i] = wire[i + 1]
      BY <1>1, <3>1
    <3> QED BY <2>1, <3>1, <3>2 DEF PosOf, PosFrom
  <2>2. CASE ~(i <= Len(wire'))
    <3>1. ~(i + 1 <= Len(wire))
      BY <1>1, <2>2
    <3> QED BY <2>2, <3>1 DEF PosOf, PosFrom
  <2> QED BY <2>1, <2>2
<1>6. WireFits'
  <2> SUFFICES ASSUME NEW i \in 1..Len(wire')
               PROVE  /\ IsPiece(wire'[i])
                      /\ PosOf(i + 1)' = (IF wire'[i].final THEN wire'[i].of + 1 ELSE wire'[i].of)
                      /\ PosFrom(i + 1)' = (IF wire'[i].final THEN 0 ELSE PieceEnd(wire'[i]))
    BY DEF WireFits, IsPiece, PieceEnd
  <2>1. wire'[i] = wire[i + 1] /\ i + 1 \in 1..Len(wire)
    BY <1>1, <1>2
  <2>2. /\ IsPiece(wire[i + 1])
        /\ PosOf((i + 1) + 1) = (IF wire[i + 1].final THEN wire[i + 1].of + 1 ELSE wire[i + 1].of)
        /\ PosFrom((i + 1) + 1) = (IF wire[i + 1].final THEN 0 ELSE PieceEnd(wire[i + 1]))
    BY <2>1 DEF PiecesFit, WireFits
  <2>3. i + 1 \in 1..(Len(wire') + 1)
    BY <1>1
  <2>4. PosOf(i + 1)' = PosOf((i + 1) + 1) /\ PosFrom(i + 1)' = PosFrom((i + 1) + 1)
    BY <1>5, <2>3
  <2> QED BY Zenon, <2>1, <2>2, <2>4
<1>7. 1 \in 1..(Len(wire') + 1)
  BY <1>1
<1>8. PosOf(1)' = PosOf(1 + 1) /\ PosFrom(1)' = PosFrom(1 + 1)
  BY <1>5, <1>7
<1> QED BY <1>1, <1>3, <1>4, <1>6, <1>8

LEMMA ContinueStep == ASSUME Inv, WriteContinues PROVE Inv'
<1> USE DEF Inv
<1> DEFINE h == Head(wire)
           f == submitted[h.of]
<1>1. /\ data = <<>> /\ wire # <<>> /\ ~h.final /\ rxBuf' = rxBuf \o h.payload
      /\ wire' = Tail(wire) /\ UNCHANGED <<submitted, data, offset, delivered>>
  BY DEF WriteContinues
<1>2. /\ h \in Chunk /\ h.of = Len(delivered) + 1 /\ f \in Seq(Byte)
      /\ PieceEnd(h) \in Nat /\ PieceEnd(h) <= Len(f)
      /\ rxBuf' = SubSeq(f, 1, PieceEnd(h))
      /\ PosOf(2) = h.of /\ PosFrom(2) = PieceEnd(h)
  BY <1>1, FirstChunk
<1>3. /\ wire' \in Seq(Chunk)
      /\ \A i \in 1..Len(wire') : Len(wire'[i].payload) \in 1..ChunkSize
      /\ EncoderFits' /\ WireFits'
      /\ PosOf(1)' = PosOf(2) /\ PosFrom(1)' = PosFrom(2)
  BY <1>1, TakeChunk
<1> HIDE DEF h
<1>4. rxBuf' \in Seq(Byte) /\ Len(rxBuf') = PieceEnd(h)
  <2>1. 0 \in Nat /\ 0 <= PieceEnd(h) /\ 0 + 1 = 1 /\ PieceEnd(h) - 0 = PieceEnd(h)
    BY <1>2
  <2>2. SubSeq(f, 0 + 1, PieceEnd(h)) \in Seq(Byte) /\ Len(SubSeq(f, 0 + 1, PieceEnd(h))) = PieceEnd(h) - 0
    BY <1>2, <2>1, Piece
  <2> QED BY <1>2, <2>1, <2>2
<1>5. TypeOK'
  BY <1>1, <1>3, <1>4 DEF TypeOK
<1>6. ReceiverFits'
  BY <1>1, <1>2, <1>3, <1>4 DEF ReceiverFits
<1>7. DeliveredFits'
  BY <1>1 DEF PiecesFit, DeliveredFits
<1> QED BY <1>3, <1>5, <1>6, <1>7 DEF PiecesFit

(* A FINAL chunk completes its packet, so that what is handed over is the  *)
(* packet after the last one delivered.                                    *)
LEMMA HandsOverNext ==
    ASSUME Inv, WriteFinal
    PROVE  /\ Len(delivered) + 1 \in 1..Len(submitted)
           /\ delivered' = Append(delivered, submitted[Len(delivered) + 1])
<1> USE DEF Inv
<1> DEFINE h == Head(wire)
           f == submitted[h.of]
<1>1. /\ data = <<>> /\ wire # <<>> /\ h.final
      /\ delivered' = Append(delivered, rxBuf \o h.payload)
  BY DEF WriteFinal
<1>2. /\ h.of = Len(delivered) + 1 /\ h.of \in 1..Len(submitted) /\ f \in Seq(Byte)
      /\ IsPiece(h) /\ rxBuf \o h.payload = SubSeq(f, 1, PieceEnd(h))
  BY <1>1, FirstChunk
<1>3. PieceEnd(h) = Len(f)
  BY <1>1, <1>2 DEF IsPiece
<1>4. SubSeq(f, 1, Len(f)) = f
  BY <1>2, PieceWhole
<1> QED BY <1>1, <1>2, <1>3, <1>4

LEMMA FinalStep == ASSUME Inv, WriteFinal PROVE Inv'
<1> USE DEF Inv
<1> DEFINE d == Len(delivered)
<1>1. /\ data = <<>> /\ wire # <<>> /\ Head(wire).final /\ rxBuf' = <<>>
      /\ wire' = Tail(wire) /\ UNCHANGED <<submitted, data, offset>>
  BY DEF WriteFinal, RxCleared
<1>2. d + 1 \in 1..Len(submitted) /\ delivered' = Append(delivered, submitted[d + 1])
  BY HandsOverNext
<1>3. PosOf(2) = d + 2 /\ PosFrom(2) = 0 /\ d \in Nat
  <2>1. PosOf(2) = Head(wire).of + 1 /\ PosFrom(2) = 0 /\ Head(wire).of = d + 1
    BY <1>1, FirstChunk
  <2>2. d \in Nat
    BY DEF TypeOK
  <2> QED BY <2>1, <2>2
<1>4. /\ wire' \in Seq(Chunk)
      /\ \A i \in 1..Len(wire') : Len(wire'[i].payload) \in 1..ChunkSize
      /\ EncoderFits' /\ WireFits'
      /\ PosOf(1)' = PosOf(2) /\ PosFrom(1)' = PosFrom(2)
  BY <1>1, TakeChunk
<1>5. submitted[d + 1] \in Seq(Byte)
  BY <1>2, SubmittedFacts
<1>6. /\ delivered' \in Seq(Seq(Byte)) /\ Len(delivered') = d + 1
      /\ delivered'[d + 1] = submitted[d + 1]
      /\ \A i \in 1..d : delivered'[i] = delivered[i]
  BY <1>2, <1>5 DEF TypeOK
<1>7. TypeOK'
  BY <1>1, <1>4, <1>6 DEF TypeOK
<1>8. ReceiverFits'
  BY <1>1, <1>3, <1>4, <1>6 DEF ReceiverFits
<1>9. DeliveredFits'
  <2>1. \A i \in 1..d : delivered[i] = submitted[i]
    BY DEF PiecesFit, DeliveredFits
  <2>2. ASSUME NEW i \in 1..(d + 1) PROVE delivered'[i] = submitted[i]
    <3>1. CASE i = d + 1
      BY <1>6, <3>1
    <3>2. CASE i # d + 1
      <4>1. i \in 1..d
        BY <1>3, <3>2
      <4> QED BY <1>6, <2>1, <4>1
    <3> QED BY <3>1, <3>2
  <2> QED BY <1>1, <1>2, <1>3, <1>6, <2>2 DEF DeliveredFits
<1> QED BY <1>4, <1>7, <1>8, <1>9 DEF PiecesFit

LEMMA InitInv == Init => Inv
<1> SUFFICES ASSUME Init PROVE Inv
  OBVIOUS
<1>1. TypeOK
  BY DEF Init, TypeOK
<1>2. PiecesFit
  BY DEF Init, PiecesFit, EncoderFits, WireFits, ReceiverFits, DeliveredFits, PosOf, PosFrom
<1> QED BY <1>1, <1>2 DEF Inv

LEMMA StepInv == Inv /\ [Next]_vars => Inv'
<1> SUFFICES ASSUME Inv, [Next]_vars PROVE Inv'
  OBVIOUS
<1>1. CASE SendFrame
  BY <1>1, SendStep
<1>2. CASE EncodeChunk
  BY <1>2, EncodeStep
<1>3. CASE WriteContinues
  BY <1>3, ContinueStep
<1>4. CASE WriteFinal
  BY <1>4, FinalStep
<1>5. CASE UNCHANGED vars
  BY <1>5 DEF vars, Inv, TypeOK, PiecesFit, EncoderFits, WireFits, ReceiverFits,
              DeliveredFits, PosOf, PosFrom, IsPiece, PieceEnd
<1> QED BY <1>1, <1>2, <1>3, <1>4, <1>5 DEF Next

LEMMA Invariant == Spec => []Inv
<1>1. Init => Inv
  BY InitInv
<1>2. Inv /\ [Next]_vars => Inv'
  BY StepInv
<1> QED BY <1>1, <1>2, PTL DEF Spec

-----------------------------------------------------------------------------
(* For every chunk size and every set of packets: the variables have their *)
(* types, and no chunk is empty or longer than ChunkSize.                  *)
THEOREM ChunksTyped == Spec => []TypeOK
<1>1. Inv => TypeOK
  BY DEF Inv
<1> QED BY <1>1, Invariant, PTL

(* For every chunk size and every set of packets: the bytes in the         *)
(* encoder, on the wire and in the receiver's buffer are always adjacent   *)
(* pieces of the packets that were sent.                                   *)
THEOREM ChunksFit == Spec => []PiecesFit
<1>1. Inv => PiecesFit
  BY DEF Inv
<1> QED BY <1>1, Invariant, PTL

(* For every chunk size and every set of packets: cutting packets into     *)
(* chunks and putting them together again implements FrameChannel, which   *)
(* delivers packets whole, once each and in order.                         *)
THEOREM Implements == Spec => IsChannel
<1> USE DEF Channel!chanVars
<1>1. Init => Channel!ChanInit
  BY DEF Init, Channel!ChanInit
<1>2. Inv /\ [Next]_vars => [Channel!Submit \/ Channel!Deliver]_(Channel!chanVars)
  <2> SUFFICES ASSUME Inv, [Next]_vars
               PROVE  Channel!Submit \/ Channel!Deliver \/ UNCHANGED <<submitted, delivered>>
    OBVIOUS
  <2>1. CASE SendFrame
    BY <2>1 DEF SendFrame, Channel!Submit
  <2>2. CASE EncodeChunk
    BY <2>2 DEF EncodeChunk
  <2>3. CASE WriteContinues
    BY <2>3 DEF WriteContinues
  <2>4. CASE WriteFinal
    <3>1. Len(delivered) < Len(submitted)
      <4>1. Len(delivered) + 1 \in 1..Len(submitted)
        BY <2>4, HandsOverNext
      <4>2. Len(delivered) \in Nat /\ Len(submitted) \in Nat
        BY DEF Inv, TypeOK
      <4> QED BY <4>1, <4>2
    <3>2. delivered' = Append(delivered, submitted[Len(delivered) + 1])
      BY <2>4, HandsOverNext
    <3>3. UNCHANGED submitted
      BY <2>4 DEF WriteFinal
    <3> QED BY <3>1, <3>2, <3>3 DEF Channel!Deliver
  <2>5. CASE UNCHANGED vars
    BY <2>5 DEF vars
  <2> QED BY <2>1, <2>2, <2>3, <2>4, <2>5 DEF Next
<1> QED BY <1>1, <1>2, Invariant, PTL DEF Spec, IsChannel, Channel!ChanSpec
=============================================================================
