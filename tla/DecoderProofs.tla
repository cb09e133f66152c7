---------------------------- MODULE DecoderProofs ----------------------------
(***************************************************************************)
(* Theorems about Decoder, for every stream of bytes, every way TCP may    *)
(* cut it and either checksum.                                             *)
(***************************************************************************)
EXTENDS Decoder, SequenceLemmas

---------------------------------------------------------------------------
(* What findStartMarker and the parts of the buffer are.                   *)

\* The rest of a sequence, position by position.
LEMMA FromProperties ==
  ASSUME NEW s \in Seq(Byte), NEW i \in 1..Len(s) + 1
  PROVE  /\ From(s, i) \in Seq(Byte)
         /\ Len(From(s, i)) = Len(s) - i + 1
         /\ \A j \in 1..Len(s) - i + 1 : From(s, i)[j] = s[i + j - 1]
<1>1. Len(s) \in Nat /\ Len(s) \in 0..Len(s) /\ i \in Nat \ {0}
  BY LenProperties
<1>2. /\ SubSeq(s, i, Len(s)) \in Seq(Byte)
      /\ Len(SubSeq(s, i, Len(s))) = IF i <= Len(s) THEN Len(s) - i + 1 ELSE 0
      /\ \A j \in 1..Len(s) - i + 1 : SubSeq(s, i, Len(s))[j] = s[i + j - 1]
  BY <1>1, PartOf
<1> QED
  BY <1>1, <1>2 DEF From

\* A marker that is found is one, and two bytes of the buffer are left for it.
LEMMA MarkerFound ==
  ASSUME NEW b \in Seq(Byte), findStartMarker(b) # 0
  PROVE  /\ findStartMarker(b) \in 1..Len(b) - 1
         /\ b[findStartMarker(b)] = StartMarker1
         /\ b[findStartMarker(b) + 1] = StartMarker2
<1> DEFINE M == MarkersIn(b)
<1>1. Len(b) \in Nat
  BY LenProperties
<1>2. M \in SUBSET Nat
  BY <1>1 DEF MarkersIn
<1>3. M # {} /\ findStartMarker(b) = Min(M)
  BY DEF findStartMarker
<1>4. Min(M) \in M
  <2> HIDE DEF M
  <2> QED
    BY <1>2, <1>3, LeastNat
<1> QED
  BY <1>3, <1>4 DEF MarkersIn

---------------------------------------------------------------------------
(* The inductive invariant: the buffer is the end of what was fed, and the *)
(* frames delivered lie before it.                                         *)

Base == fed - Len(buf)

PacketSet ==
  [Command : Byte, Response : Byte, VIN : Seq(Byte), EncryptType : Byte,
   Data : Seq(Byte)]

\* Nothing is lost, doubled or moved between the socket and Decode.
BufIsStream == \A j \in 1..Len(buf) : buf[j] = stream[Base + j]

\* No byte of a frame that was delivered is looked at again.
EndsBehind == \A i \in 1..Len(ends) : ends[i] <= Base

IInv ==
  /\ TypeOK /\ packets \in Seq(PacketSet)
  /\ BufIsStream /\ EndsBehind
  /\ WaitsForBytes /\ RoundsConsume /\ PacketsAreFrames

\* The stream is a sequence of bytes, of which fed have been read.
LEMMA StreamType ==
  ASSUME TypeOK
  PROVE  /\ stream \in Seq(Byte) /\ Len(stream) \in Nat
         /\ fed \in Nat /\ fed <= Len(stream)
         /\ buf \in Seq(Byte) /\ Len(buf) \in Nat
         /\ Base \in Nat /\ Base + Len(buf) = fed
<1>1. stream \in Seq(Byte)
  BY InputsAssumption DEF TypeOK, stream
<1>2. Len(stream) \in Nat
  BY <1>1, LenProperties
<1>3. buf \in Seq(Byte) /\ Len(buf) <= fed
  BY DEF TypeOK
<1>4. Len(buf) \in Nat
  BY <1>3, LenProperties
<1> QED
  BY <1>1, <1>2, <1>3, <1>4 DEF TypeOK, Base

\* What Decode sees once it has found a marker: the end of the buffer, which
\* is the end of what was fed.
LEMMA MarkedProperties ==
  ASSUME IInv, HasMarker
  PROVE  /\ Marked \in Seq(Byte)
         /\ Len(Marked) \in 2..Len(buf)
         /\ Marked[1] = StartMarker1 /\ Marked[2] = StartMarker2
         /\ \A j \in 1..Len(Marked) : Marked[j] = stream[fed - Len(Marked) + j]
<1> DEFINE m == findStartMarker(buf)
<1>0. /\ buf \in Seq(Byte) /\ Len(buf) \in Nat /\ Base \in Nat
      /\ fed \in Nat /\ Base + Len(buf) = fed
  BY StreamType DEF IInv
<1>1. m \in 1..Len(buf) - 1 /\ buf[m] = StartMarker1 /\ buf[m + 1] = StartMarker2
  BY <1>0, MarkerFound DEF HasMarker
<1> HIDE DEF m
<1>2. /\ Marked = From(buf, m)
      /\ m \in 1..Len(buf) + 1
  BY <1>0, <1>1 DEF Marked, m
<1>3. /\ Marked \in Seq(Byte)
      /\ Len(Marked) = Len(buf) - m + 1
      /\ \A j \in 1..Len(buf) - m + 1 : Marked[j] = buf[m + j - 1]
  BY <1>0, <1>2, FromProperties
<1>4. Marked[1] = buf[m] /\ Marked[2] = buf[m + 1]
  <2>1. 1 \in 1..Len(buf) - m + 1 /\ 2 \in 1..Len(buf) - m + 1
    BY <1>0, <1>1
  <2>2. m + 1 - 1 = m /\ m + 2 - 1 = m + 1
    BY <1>1
  <2> QED
    BY <1>3, <2>1, <2>2
<1>5. ASSUME NEW j \in 1..Len(Marked)
      PROVE  Marked[j] = stream[fed - Len(Marked) + j]
  <2>1. j \in 1..Len(buf) - m + 1 /\ m + j - 1 \in 1..Len(buf)
    BY <1>0, <1>1, <1>3
  <2>2. Marked[j] = stream[Base + (m + j - 1)]
    BY <1>3, <2>1 DEF IInv, BufIsStream
  <2>3. Base + (m + j - 1) = fed - Len(Marked) + j
    <3>1. Len(Marked) = Len(buf) - m + 1 /\ m \in Int /\ j \in Int
      BY <1>1, <1>3, <2>1
    <3> QED
      BY <1>0, <3>1
  <2> QED
    BY <2>2, <2>3
<1>6. Len(Marked) \in 2..Len(buf)
  BY <1>0, <1>1, <1>3
<1> QED
  BY <1>1, <1>3, <1>4, <1>5, <1>6

\* A complete frame: its size is what its header says.
LEMMA FrameProperties ==
  ASSUME IInv, AtFrame
  PROVE  /\ DataLength(Marked) \in Nat
         /\ FrameSize(Marked) \in Nat /\ FrameSize(Marked) >= HeaderSize + 1
         /\ FrameSize(Marked) <= Len(Marked)
         /\ Marked \in Seq(Byte) /\ Len(Marked) \in Nat
         /\ Frame \in Seq(Byte) /\ Len(Frame) = FrameSize(Marked)
<1>1. Marked \in Seq(Byte)
  BY MarkedProperties DEF AtFrame
<1>2. Len(Marked) \in Nat
  BY <1>1, LenProperties
<1>3. Len(Marked) >= 24
  BY <1>2 DEF AtFrame, HasData, HeaderSize
<1>4. Marked[23] \in Byte /\ Marked[24] \in Byte
  BY <1>1, <1>2, <1>3, ElementOfSeq
<1>5. DataLength(Marked) \in Nat
  <2>1. \A x, y \in 0..255 : 256 * x + y \in Nat
    OBVIOUS
  <2> QED
    BY <1>4, <2>1 DEF DataLength, Byte
<1>6. /\ FrameSize(Marked) \in Nat /\ FrameSize(Marked) >= 25
      /\ FrameSize(Marked) <= Len(Marked)
  BY <1>2, <1>5 DEF FrameSize, AtFrame, HeaderSize
<1>7. Frame \in Seq(Byte) /\ Len(Frame) = FrameSize(Marked)
  <2> DEFINE n == FrameSize(Marked)
  <2>1. n \in 0..Len(Marked) /\ 1 \in Nat \ {0} /\ 1 <= n
    BY <1>2, <1>6
  <2> HIDE DEF n
  <2>2. /\ SubSeq(Marked, 1, n) \in Seq(Byte)
        /\ Len(SubSeq(Marked, 1, n)) = n - 1 + 1
    BY <1>1, <2>1, PartOf
  <2> QED
    BY <1>2, <2>1, <2>2 DEF Frame, n
<1> QED
  BY <1>1, <1>2, <1>5, <1>6, <1>7 DEF HeaderSize

---------------------------------------------------------------------------
(* Every action preserves the invariant.                                   *)

\* The connection is new and nothing was read.
LEMMA DecoderInit == Init => IInv
<1> SUFFICES ASSUME Init PROVE IInv
  OBVIOUS
<1>1. /\ <<>> \in Seq(Byte) /\ <<>> \in Seq(0..fed)
      /\ <<>> \in Seq(PacketSet) /\ Len(<<>>) = 0
  BY EmptySeq
<1>2. stream \in Seq(Byte) /\ Len(stream) \in Nat
  BY InputsAssumption, LenProperties DEF Init, stream
<1>3. TypeOK /\ packets \in Seq(PacketSet)
  <2>1. fed = 0 /\ fed \in 0..Len(stream)
    BY <1>2 DEF Init
  <2>2. buf = <<>> /\ packets = <<>> /\ ends = <<>>
    BY DEF Init
  <2>3. buf \in Seq(Byte) /\ Len(buf) <= fed /\ ends \in Seq(0..fed)
    BY <1>1, <2>1, <2>2
  <2>4. Len(packets) = Len(ends) /\ packets \in Seq(PacketSet)
    BY <1>1, <2>2
  <2> QED
    BY <2>1, <2>3, <2>4 DEF Init, TypeOK
<1>4. BufIsStream /\ EndsBehind /\ WaitsForBytes /\ RoundsConsume
        /\ PacketsAreFrames
  BY <1>1 DEF Init, BufIsStream, EndsBehind, WaitsForBytes, RoundsConsume,
     PacketsAreFrames
<1> QED
  BY <1>3, <1>4 DEF IInv

\* The frames delivered so far stay what they are while nothing is delivered.
LEMMA FramesStay ==
  ASSUME PacketsAreFrames, UNCHANGED <<input, packets, ends>>
  PROVE  PacketsAreFrames'
  BY DEF PacketsAreFrames, FrameStart, stream

\* Feed appends the next bytes of the stream.
LEMMA FeedKeeps ==
  ASSUME IInv, Feed
  PROVE  IInv'
<1>0. /\ stream \in Seq(Byte) /\ Len(stream) \in Nat
      /\ fed \in Nat /\ fed <= Len(stream)
      /\ buf \in Seq(Byte) /\ Len(buf) \in Nat
      /\ Base \in Nat /\ Base + Len(buf) = fed
  BY StreamType DEF IInv
<1>1. PICK n \in 1..readBufSize :
        /\ fed + n <= Len(stream)
        /\ buf' = buf \o SubSeq(stream, fed + 1, fed + n)
        /\ fed' = fed + n
  BY DEF Feed
<1>2. n \in Nat /\ n >= 1
  BY DEF readBufSize
<1> DEFINE new == SubSeq(stream, fed + 1, fed + n)
<1>3. /\ new \in Seq(Byte) /\ Len(new) = n
      /\ \A i \in 1..n : new[i] = stream[fed + i]
  <2>1. fed + 1 \in Nat \ {0} /\ fed + n \in 0..Len(stream)
    BY <1>0, <1>1, <1>2
  <2>2. /\ new \in Seq(Byte)
        /\ Len(new) = IF fed + 1 <= fed + n
                      THEN (fed + n) - (fed + 1) + 1 ELSE 0
        /\ \A i \in 1..(fed + n) - (fed + 1) + 1 : new[i] = stream[(fed + 1) + i - 1]
    BY <1>0, <2>1, PartOf
  <2> HIDE DEF new
  <2> QED
    BY <1>0, <1>2, <2>2
<1> HIDE DEF new
<1>4. /\ buf' \in Seq(Byte) /\ Len(buf') = Len(buf) + n
      /\ \A i \in 1..Len(buf) + n :
           buf'[i] = IF i <= Len(buf) THEN buf[i] ELSE new[i - Len(buf)]
  BY <1>0, <1>1, <1>3, ConcatProperties DEF new
<1>5. stream' = stream /\ Base' = Base
  BY <1>0, <1>1, <1>2, <1>4 DEF Feed, stream, Base
<1>6. TypeOK' /\ packets' \in Seq(PacketSet)
  <2>1. ends' \in Seq(0..fed')
    <3>1. ends \in Seq(0..fed) /\ ends' = ends
      BY DEF Feed, IInv, TypeOK
    <3>2. 0..fed \subseteq 0..fed'
      BY <1>0, <1>1, <1>2
    <3> QED
      BY <3>1, <3>2, SeqMonotonic
  <2>2. fed' \in 0..Len(stream') /\ Len(buf') <= fed'
    BY <1>0, <1>1, <1>2, <1>4, <1>5
  <2> QED
    BY <1>4, <2>1, <2>2 DEF Feed, IInv, TypeOK
<1>7. BufIsStream'
  <2> SUFFICES ASSUME NEW j \in 1..Len(buf')
               PROVE  buf'[j] = stream[Base + j]
    BY <1>5 DEF BufIsStream
  <2>1. CASE j <= Len(buf)
    <3>1. j \in 1..Len(buf) /\ j \in 1..Len(buf) + n
      BY <1>0, <1>2, <1>4, <2>1
    <3> QED
      BY <1>4, <2>1, <3>1 DEF IInv, BufIsStream
  <2>2. CASE ~(j <= Len(buf))
    <3>0. j \in 1..Len(buf) + n
      BY <1>4
    <3>1. j - Len(buf) \in 1..n /\ fed + (j - Len(buf)) = Base + j
      BY <1>0, <1>2, <2>2, <3>0
    <3> QED
      BY <1>3, <1>4, <2>2, <3>0, <3>1
  <2> QED
    BY <2>1, <2>2
<1>8. EndsBehind'
  BY <1>5 DEF Feed, IInv, EndsBehind
<1>9. WaitsForBytes'
  BY DEF Feed, WaitsForBytes
<1>10. RoundsConsume'
  <2>1. rounds \in Nat /\ rounds' = rounds /\ 2 * rounds + Len(buf) <= fed
    BY DEF Feed, IInv, TypeOK, RoundsConsume
  <2> QED
    BY <1>0, <1>1, <1>2, <1>4, <2>1 DEF RoundsConsume
<1>11. PacketsAreFrames'
  BY FramesStay DEF Feed, IInv
<1> QED
  BY <1>6, <1>7, <1>8, <1>9, <1>10, <1>11 DEF IInv

\* Decode moves d.pos forward from the marker: what is left is still the end
\* of what was fed, and it does not reach behind where it was.
LEMMA MarkedRest ==
  ASSUME IInv, HasMarker, NEW i \in 1..Len(Marked) + 1,
         buf' = From(Marked, i), UNCHANGED <<input, fed>>
  PROVE  /\ buf' \in Seq(Byte)
         /\ Len(buf') = Len(Marked) - i + 1 /\ Len(buf') <= Len(buf) - i + 1
         /\ Base' = fed - Len(Marked) + i - 1 /\ Base <= Base'
         /\ BufIsStream'
<1>0. /\ stream' = stream /\ fed' = fed
      /\ fed \in Nat /\ Len(buf) \in Nat /\ Base \in Nat
      /\ Base + Len(buf) = fed
  BY StreamType DEF IInv, stream
<1>1. /\ Marked \in Seq(Byte) /\ Len(Marked) \in 2..Len(buf)
      /\ \A j \in 1..Len(Marked) : Marked[j] = stream[fed - Len(Marked) + j]
  BY MarkedProperties
<1>2. Len(Marked) \in Nat /\ Len(Marked) <= Len(buf) /\ i \in Nat /\ i >= 1
  BY <1>0, <1>1
<1>3. /\ buf' \in Seq(Byte)
      /\ Len(buf') = Len(Marked) - i + 1
      /\ \A j \in 1..Len(Marked) - i + 1 : buf'[j] = Marked[i + j - 1]
  BY <1>1, FromProperties
<1>4. Base' = fed - Len(Marked) + i - 1
  BY <1>0, <1>2, <1>3 DEF Base
<1>5. Base <= Base' /\ Len(buf') <= Len(buf) - i + 1
  BY <1>0, <1>2, <1>3, <1>4
<1>6. ASSUME NEW j \in 1..Len(buf')
      PROVE  buf'[j] = stream'[Base' + j]
  <2>1. j \in 1..Len(Marked) - i + 1 /\ i + j - 1 \in 1..Len(Marked)
    BY <1>2, <1>3
  <2>2. fed - Len(Marked) + (i + j - 1) = Base' + j
    BY <1>0, <1>2, <1>4, <2>1
  <2> QED
    BY <1>0, <1>1, <1>3, <2>1, <2>2
<1> QED
  BY <1>3, <1>4, <1>5, <1>6 DEF BufIsStream

\* The steps of Decode that return nil or give a frame up.
LEMMA DecodeKeeps ==
  ASSUME IInv, DecodeReset \/ DecodeNil \/ DecodePanic \/ DecodeSkip
  PROVE  IInv'
<1>0. /\ fed \in Nat /\ Len(buf) \in Nat /\ Base \in Nat
      /\ Base + Len(buf) = fed /\ rounds \in Nat
      /\ 2 * rounds + Len(buf) <= fed
  BY StreamType DEF IInv, TypeOK, RoundsConsume
<1>1. UNCHANGED <<input, fed, packets, ends>>
  BY DEF DecodeReset, DecodeNil, DecodePanic, DecodeSkip
\* What is left of the buffer decides.
<1>2. ASSUME buf' \in Seq(Byte), Len(buf') <= Len(buf), Base <= Base',
             BufIsStream', WaitsForBytes', RoundsConsume',
             pc' \in {"read", "decode", "panic"}, cut' \in BOOLEAN,
             rounds' \in Nat
      PROVE  IInv'
  <2>1. stream' = stream
    BY <1>1 DEF stream
  <2>2. Len(buf') \in Nat /\ Len(buf') <= fed
    BY <1>0, <1>2, LenProperties
  <2>3. TypeOK' /\ packets' \in Seq(PacketSet)
    BY <1>1, <1>2, <2>1, <2>2 DEF IInv, TypeOK
  <2>4. EndsBehind'
    <3> SUFFICES ASSUME NEW i \in 1..Len(ends) PROVE ends[i] <= Base'
      BY <1>1 DEF EndsBehind
    <3>1. ends[i] \in 0..fed /\ ends[i] <= Base
      BY ElementOfSeq DEF IInv, TypeOK, EndsBehind
    <3>2. Base' \in Int
      BY <1>0, <1>1, <2>2 DEF Base
    <3> QED
      BY <1>0, <1>2, <3>1, <3>2
  <2>5. PacketsAreFrames'
    BY <1>1, FramesStay DEF IInv
  <2> QED
    BY <1>2, <2>3, <2>4, <2>5 DEF IInv
<1>3. CASE DecodeReset
  <2>1. buf' = <<>> /\ Len(buf') = 0 /\ buf' \in Seq(Byte)
    BY <1>3, EmptySeq DEF DecodeReset
  <2>2. Base <= Base'
    BY <1>0, <1>1, <2>1 DEF Base
  <2>3. BufIsStream' /\ WaitsForBytes'
    BY <2>1 DEF BufIsStream, WaitsForBytes
  <2>4. RoundsConsume' /\ rounds' \in Nat
    BY <1>0, <1>1, <1>3, <2>1 DEF DecodeReset, RoundsConsume
  <2>5. cut' \in BOOLEAN /\ pc' = "read"
    BY <1>3 DEF DecodeReset, IInv, TypeOK
  <2> QED
    BY <1>0, <1>2, <2>1, <2>2, <2>3, <2>4, <2>5
<1>4. CASE DecodeNil
  <2>1. /\ Marked \in Seq(Byte) /\ Len(Marked) \in 2..Len(buf)
        /\ Marked[1] = StartMarker1 /\ Marked[2] = StartMarker2
    BY <1>4, MarkedProperties DEF DecodeNil
  <2>2. Len(Marked) \in Nat /\ 1 \in 1..Len(Marked) + 1
    BY <1>0, <2>1
  <2>3. Marked = From(Marked, 1)
    <3>1. /\ From(Marked, 1) \in Seq(Byte)
          /\ Len(From(Marked, 1)) = Len(Marked) - 1 + 1
          /\ \A j \in 1..Len(Marked) - 1 + 1 : From(Marked, 1)[j] = Marked[1 + j - 1]
      BY <2>1, <2>2, FromProperties
    <3>2. Len(From(Marked, 1)) = Len(Marked)
      BY <2>2, <3>1
    <3>3. \A j \in 1..Len(Marked) : From(Marked, 1)[j] = Marked[j]
      BY <2>2, <3>1
    <3> QED
      BY <2>1, <3>1, <3>2, <3>3, SeqEqual
  <2>4. buf' = Marked
    BY <1>4 DEF DecodeNil
  <2>5. buf' \in Seq(Byte) /\ Base <= Base' /\ BufIsStream'
    BY <1>1, <1>4, <2>2, <2>3, <2>4, MarkedRest DEF DecodeNil
  <2>6. WaitsForBytes'
    BY <1>4, <2>1, <2>4 DEF DecodeNil, WaitsForBytes
  <2>7. Len(buf') <= Len(buf) /\ RoundsConsume' /\ rounds' \in Nat
    BY <1>0, <1>1, <1>4, <2>1, <2>4 DEF DecodeNil, RoundsConsume
  <2>8. cut' \in BOOLEAN /\ pc' = "read"
    BY <1>4 DEF DecodeNil, IInv, TypeOK
  <2> QED
    BY <1>2, <2>5, <2>6, <2>7, <2>8
<1>5. CASE DecodePanic
  <2>1. UNCHANGED <<buf, cut, rounds>> /\ pc' = "panic"
    BY <1>5 DEF DecodePanic
  <2>2. stream' = stream /\ Base' = Base
    BY <1>1, <2>1 DEF stream, Base
  <2>3. BufIsStream' /\ WaitsForBytes' /\ RoundsConsume'
    BY <1>1, <2>1, <2>2 DEF IInv, BufIsStream, WaitsForBytes, RoundsConsume
  <2> QED
    BY <1>0, <1>2, <2>1, <2>2, <2>3 DEF IInv, TypeOK
<1>6. CASE DecodeSkip
  <2>1. Len(Marked) \in 2..Len(buf) /\ HasMarker
    BY <1>6, MarkedProperties DEF DecodeSkip, AtFrame
  <2>2. Len(Marked) \in Nat /\ 3 \in 1..Len(Marked) + 1
    BY <1>0, <2>1
  <2>3. /\ buf' \in Seq(Byte) /\ Base <= Base' /\ BufIsStream'
        /\ Len(buf') <= Len(buf) - 3 + 1
    BY <1>1, <1>6, <2>1, <2>2, MarkedRest DEF DecodeSkip
  <2>4. Len(buf') \in Nat
    BY <2>3, LenProperties
  <2>5. rounds' = rounds + 1 /\ UNCHANGED <<pc, cut>> /\ pc = "decode"
    BY <1>6 DEF DecodeSkip, AtFrame
  <2>6. Len(buf') <= Len(buf) /\ RoundsConsume' /\ rounds' \in Nat
    BY <1>0, <1>1, <2>3, <2>4, <2>5 DEF RoundsConsume
  <2>7. WaitsForBytes'
    BY <2>5 DEF WaitsForBytes
  <2> QED
    BY <1>2, <2>3, <2>5, <2>6, <2>7 DEF IInv, TypeOK
<1> QED
  BY <1>3, <1>4, <1>5, <1>6

\* What Decode returns has the types of a Packet.
LEMMA PacketType ==
  ASSUME NEW f \in Seq(Byte), Len(f) >= HeaderSize + 1
  PROVE  /\ Packet(f) \in PacketSet
         /\ Len(Packet(f).Data) = Len(f) - (HeaderSize + 1)
<1> DEFINE n == Len(f)
<1>1. n \in Nat /\ n >= 25
  BY LenProperties DEF HeaderSize
<1>2. f[3] \in Byte /\ f[4] \in Byte /\ f[22] \in Byte
  BY <1>1, ElementOfSeq
<1>3. SubSeq(f, 5, 21) \in Seq(Byte)
  <2>1. 5 \in Nat \ {0} /\ 21 \in 0..Len(f)
    BY <1>1
  <2> QED
    BY <2>1, PartOf
<1>4. /\ SubSeq(f, 25, n - 1) \in Seq(Byte)
      /\ Len(SubSeq(f, 25, n - 1)) = n - 25
  <2> DEFINE d == SubSeq(f, 25, n - 1)
  <2>1. 25 \in Nat \ {0} /\ n - 1 \in 0..Len(f)
    BY <1>1
  <2>2. d \in Seq(Byte) /\ Len(d) = IF 25 <= n - 1 THEN (n - 1) - 25 + 1 ELSE 0
    BY <2>1, PartOf
  <2> HIDE DEF d, n
  <2>3. d \in Seq(Byte) /\ Len(d) = n - 25
    BY <1>1, <2>2
  <2> QED
    BY <2>3 DEF d
<1> QED
  BY <1>1, <1>2, <1>3, <1>4 DEF Packet, PacketSet, HeaderSize

\* The frame that is delivered is the part of the stream before Base'.
LEMMA FrameInStream ==
  ASSUME IInv, DecodePacket
  PROVE  /\ Base' = fed - Len(Marked) + FrameSize(Marked)
         /\ Base <= fed - Len(Marked) /\ fed - Len(Marked) \in Nat
         /\ Base' \in 0..fed
         /\ Frame = SubSeq(stream, (fed - Len(Marked)) + 1, Base')
         /\ Frame[1] = StartMarker1 /\ Frame[2] = StartMarker2
         /\ buf' \in Seq(Byte) /\ BufIsStream'
         /\ Len(buf') <= Len(buf) - FrameSize(Marked)
<1> DEFINE k == fed - Len(Marked)
           n == FrameSize(Marked)
<1>0. /\ stream \in Seq(Byte) /\ Len(stream) \in Nat
      /\ fed \in Nat /\ fed <= Len(stream)
      /\ Len(buf) \in Nat /\ Base \in Nat /\ Base + Len(buf) = fed
  BY StreamType DEF IInv
<1>1. HasMarker /\ AtFrame /\ UNCHANGED <<input, fed>>
  BY DEF DecodePacket, AtFrame
<1>2. /\ Marked \in Seq(Byte) /\ Len(Marked) \in 2..Len(buf)
      /\ Marked[1] = StartMarker1 /\ Marked[2] = StartMarker2
      /\ \A j \in 1..Len(Marked) : Marked[j] = stream[k + j]
  BY <1>1, MarkedProperties
<1>3. n \in Nat /\ n >= 25 /\ n <= Len(Marked) /\ Len(Marked) \in Nat
  BY <1>1, FrameProperties DEF HeaderSize
<1>4. k \in Nat /\ Base <= k /\ k + n <= fed
  BY <1>0, <1>2, <1>3
<1>5. /\ buf' \in Seq(Byte) /\ BufIsStream'
      /\ Len(buf') <= Len(buf) - (n + 1) + 1
      /\ Base' = k + (n + 1) - 1
  <2>1. n + 1 \in 1..Len(Marked) + 1
    BY <1>3
  <2>2. buf' = From(Marked, n + 1)
    BY DEF DecodePacket
  <2> HIDE DEF n
  <2> QED
    BY <1>1, <2>1, <2>2, MarkedRest
<1>6. SubSeq(Marked, 0 + 1, 0 + n) = SubSeq(stream, k + 1, k + n)
  <2>1. \A i \in 1..n : Marked[0 + i] = stream[k + i]
    <3> SUFFICES ASSUME NEW i \in 1..n PROVE Marked[i] = stream[k + i]
      OBVIOUS
    <3>1. i \in 1..Len(Marked)
      BY <1>3
    <3> QED
      BY <1>2, <3>1
  <2> HIDE DEF k, n
  <2>2. 0 + n <= Len(Marked) /\ k + n <= Len(stream) /\ 0 \in Nat
    BY <1>0, <1>3, <1>4
  <2> QED
    BY <1>0, <1>2, <1>3, <1>4, <2>1, <2>2, EqualParts
<1> HIDE DEF k, n
<1>7. Base' = k + n
  BY <1>3, <1>4, <1>5
<1>8. Frame = SubSeq(stream, k + 1, Base')
  <2>1. 0 + n = n /\ 0 + 1 = 1
    BY <1>3
  <2> QED
    BY <1>6, <1>7, <2>1 DEF Frame, n
<1>9. Frame[1] = Marked[1] /\ Frame[2] = Marked[2]
  <2>1. n \in 0..Len(Marked) /\ 1 \in Nat \ {0} /\ n - 1 + 1 = n
    BY <1>3
  <2> DEFINE a == SubSeq(Marked, 1, n)
  <2>2. \A i \in 1..n - 1 + 1 : a[i] = Marked[1 + i - 1]
    BY <1>2, <2>1, PartOf
  <2> HIDE DEF a
  <2>3. a[1] = Marked[1] /\ a[2] = Marked[2]
    BY <1>3, <2>2
  <2> QED
    BY <2>3 DEF Frame, a, n
<1>10. Base' \in 0..fed /\ Len(buf') <= Len(buf) - n
  <2>1. Len(buf') \in Nat
    BY <1>5, LenProperties
  <2> QED
    BY <1>0, <1>3, <1>4, <1>5, <1>7, <2>1
<1> QED
  BY <1>2, <1>4, <1>5, <1>7, <1>8, <1>9, <1>10 DEF k, n

\* Decode returns a packet: its frame follows the ones before it.
LEMMA PacketKeeps ==
  ASSUME IInv, DecodePacket
  PROVE  IInv'
<1> DEFINE k == fed - Len(Marked)
           n == FrameSize(Marked)
           last == Len(packets) + 1
<1>0. /\ fed \in Nat /\ Len(buf) \in Nat /\ Base \in Nat
      /\ Base + Len(buf) = fed /\ rounds \in Nat
      /\ 2 * rounds + Len(buf) <= fed
  BY StreamType DEF IInv, TypeOK, RoundsConsume
<1>1. /\ UNCHANGED <<input, fed, pc, cut>> /\ pc = "decode"
      /\ stream' = stream /\ verifyBCC(Frame)
      /\ packets' = Append(packets, Packet(Frame))
      /\ ends' = Append(ends, Base') /\ rounds' = rounds + 1
  BY DEF DecodePacket, AtFrame, stream, Base
<1>2. /\ Base' = k + n /\ Base <= k /\ k \in Nat /\ Base' \in 0..fed
      /\ Frame = SubSeq(stream, k + 1, Base')
      /\ Frame[1] = StartMarker1 /\ Frame[2] = StartMarker2
      /\ buf' \in Seq(Byte) /\ BufIsStream' /\ Len(buf') <= Len(buf) - n
  BY FrameInStream
<1>3. /\ n \in Nat /\ n >= 25 /\ Frame \in Seq(Byte) /\ Len(Frame) = n
  BY FrameProperties DEF DecodePacket, HeaderSize
<1>4. Packet(Frame) \in PacketSet /\ Len(Packet(Frame).Data) = n - 25
  <2> HIDE DEF n
  <2>1. Len(Frame) >= HeaderSize + 1
    BY <1>3 DEF HeaderSize
  <2>2. /\ Packet(Frame) \in PacketSet
        /\ Len(Packet(Frame).Data) = Len(Frame) - (HeaderSize + 1)
    BY <1>3, <2>1, PacketType
  <2> QED
    BY <1>3, <2>2 DEF HeaderSize
<1> HIDE DEF k, n
<1>5. /\ packets \in Seq(PacketSet) /\ Len(packets) \in Nat
      /\ ends \in Seq(0..fed) /\ Len(ends) = Len(packets)
  BY LenProperties DEF IInv, TypeOK
<1>6. /\ packets' \in Seq(PacketSet) /\ Len(packets') = last
      /\ packets'[last] = Packet(Frame)
      /\ \A i \in 1..Len(packets) : packets'[i] = packets[i]
  BY <1>1, <1>4, <1>5, AppendProperties
<1>7. /\ ends' \in Seq(0..fed) /\ Len(ends') = last
      /\ ends'[last] = Base'
      /\ \A i \in 1..Len(packets) : ends'[i] = ends[i]
  <2>1. PICK x \in 0..fed : x = Base'
    BY <1>2
  <2>2. ends' = Append(ends, x)
    BY <1>1, <2>1
  <2>3. /\ Append(ends, x) \in Seq(0..fed)
        /\ Len(Append(ends, x)) = Len(ends) + 1
        /\ Append(ends, x)[Len(ends) + 1] = x
        /\ \A i \in 1..Len(ends) : Append(ends, x)[i] = ends[i]
    BY <1>5, AppendProperties
  <2> QED
    BY <1>5, <2>1, <2>2, <2>3
<1> HIDE DEF last
<1>8. Len(buf') \in Nat /\ Len(buf') <= fed
  BY <1>0, <1>2, <1>3, LenProperties
<1>9. TypeOK' /\ packets' \in Seq(PacketSet)
  <2>1. rounds' \in Nat
    BY <1>0, <1>1
  <2> QED
    BY <1>1, <1>2, <1>6, <1>7, <1>8, <2>1 DEF IInv, TypeOK
<1>10. ASSUME NEW i \in 1..Len(packets)
       PROVE  ends[i] \in Nat /\ ends[i] <= Base
  <2>1. i \in 1..Len(ends)
    BY <1>5
  <2>2. ends[i] \in 0..fed
    BY <1>5, <2>1, ElementOfSeq
  <2> QED
    BY <1>0, <2>1, <2>2 DEF IInv, EndsBehind
<1>11. EndsBehind'
  <2> SUFFICES ASSUME NEW i \in 1..Len(ends') PROVE ends'[i] <= Base'
    BY DEF EndsBehind
  <2>1. CASE i = last
    BY <1>2, <1>7, <2>1
  <2>2. CASE i # last
    <3>1. i \in 1..Len(packets)
      BY <1>5, <1>7, <2>2 DEF last
    <3>2. ends'[i] \in Nat /\ ends'[i] <= Base
      BY <1>7, <1>10, <3>1
    <3>3. Base <= Base' /\ Base' \in Nat
      BY <1>0, <1>2, <1>3
    <3> QED
      BY <1>0, <3>2, <3>3
  <2> QED
    BY <2>1, <2>2
<1>12. WaitsForBytes'
  BY <1>1 DEF WaitsForBytes
<1>13. RoundsConsume'
  BY <1>0, <1>1, <1>2, <1>3, <1>8 DEF RoundsConsume
<1>14. PacketsAreFrames'
  <2> SUFFICES ASSUME NEW i \in 1..Len(packets')
               PROVE  LET start == FrameStart(i)'
                          frame == SubSeq(stream', start, ends'[i]) IN
                      /\ start > (IF i = 1 THEN 0 ELSE ends'[i - 1])
                      /\ frame[1] = StartMarker1 /\ frame[2] = StartMarker2
                      /\ verifyBCC(frame) /\ packets'[i] = Packet(frame)
    BY DEF PacketsAreFrames
  <2>1. CASE i = last
    <3>1. FrameStart(i)' = k + 1
      <4>1. Len(packets'[i].Data) = n - 25 /\ ends'[i] = k + n
        BY <1>2, <1>4, <1>6, <1>7, <2>1
      <4> QED
        BY <1>2, <1>3, <4>1 DEF FrameStart, HeaderSize
    <3>2. k + 1 > (IF i = 1 THEN 0 ELSE ends'[i - 1])
      <4>1. CASE i = 1
        BY <1>2, <4>1
      <4>2. CASE i # 1
        <5>1. i - 1 \in 1..Len(packets)
          BY <1>5, <2>1, <4>2 DEF last
        <5>2. ends'[i - 1] \in Nat /\ ends'[i - 1] <= Base
          BY <1>7, <1>10, <5>1
        <5>3. k + 1 > ends'[i - 1]
          <6>1. k \in Nat /\ Base <= k
            BY <1>2
          <6> HIDE DEF k
          <6> QED
            BY <1>0, <5>2, <6>1
        <5> QED
          BY <4>2, <5>3
      <4> QED
        BY <4>1, <4>2
    <3>3. SubSeq(stream', FrameStart(i)', ends'[i]) = Frame
      BY <1>1, <1>2, <1>7, <2>1, <3>1
    <3> QED
      BY <1>1, <1>2, <1>6, <2>1, <3>1, <3>2, <3>3
  <2>2. CASE i # last
    <3>1. i \in 1..Len(packets)
      BY <1>5, <1>6, <2>2 DEF last
    <3>2. packets'[i] = packets[i] /\ ends'[i] = ends[i]
      BY <1>6, <1>7, <3>1
    <3>3. i # 1 => ends'[i - 1] = ends[i - 1]
      <4> SUFFICES ASSUME i # 1 PROVE i - 1 \in 1..Len(packets)
        BY <1>7
      <4> QED
        BY <1>5, <3>1
    <3>4. FrameStart(i)' = FrameStart(i)
      BY <3>2 DEF FrameStart
    <3>5. LET frame == SubSeq(stream, FrameStart(i), ends[i]) IN
          /\ FrameStart(i) > (IF i = 1 THEN 0 ELSE ends[i - 1])
          /\ frame[1] = StartMarker1 /\ frame[2] = StartMarker2
          /\ verifyBCC(frame) /\ packets[i] = Packet(frame)
      BY <3>1 DEF IInv, PacketsAreFrames
    <3> QED
      BY <1>1, <3>2, <3>3, <3>4, <3>5
  <2> QED
    BY <2>1, <2>2
<1> QED
  BY <1>2, <1>9, <1>11, <1>12, <1>13, <1>14 DEF IInv

\* IInv is inductive.
LEMMA DecoderStep == IInv /\ [Next]_vars => IInv'
<1> SUFFICES ASSUME IInv, [Next]_vars PROVE IInv'
  OBVIOUS
<1>1. CASE Feed
  BY <1>1, FeedKeeps
<1>2. CASE DecodeReset \/ DecodeNil \/ DecodePanic \/ DecodeSkip
  BY <1>2, DecodeKeeps
<1>3. CASE DecodePacket
  BY <1>3, PacketKeeps
<1>4. CASE UNCHANGED vars
  BY <1>4, FramesStay DEF vars, IInv, TypeOK, BufIsStream, EndsBehind, Base,
     WaitsForBytes, RoundsConsume, stream
<1> QED
  BY <1>1, <1>2, <1>3, <1>4 DEF Next, Decode

---------------------------------------------------------------------------
(* The answers sent arrive in order.                                       *)

\* f is a frame of these parts.
MadeOf(f, S, start, head, vin, mid, d, last, body) ==
  /\ start \in Seq(S) /\ head \in Seq(S) /\ vin \in Seq(S) /\ mid \in Seq(S)
  /\ d \in Seq(S) /\ last \in Seq(S)
  /\ Len(start) = 2 /\ Len(head) = 2 /\ Len(vin) = 17 /\ Len(mid) = 3
  /\ Len(last) = 1
  /\ body = head \o vin \o mid \o d /\ f = start \o body \o last

\* Where the parts of a frame lie.
Layout(f, S, start, head, vin, mid, d, last, body) ==
  /\ body \in Seq(S) /\ Len(body) = 22 + Len(d)
  /\ f \in Seq(S) /\ Len(f) = 25 + Len(d)
  /\ Holds(f, 0, start) /\ Holds(f, 2, body) /\ Holds(f, 2, head)
  /\ Holds(f, 4, vin) /\ Holds(f, 21, mid) /\ Holds(f, 24, d)
  /\ Holds(f, 24 + Len(d), last)

LEMMA FrameLaid ==
  ASSUME NEW f, NEW S, NEW start, NEW head, NEW vin, NEW mid, NEW d, NEW last,
         NEW body, MadeOf(f, S, start, head, vin, mid, d, last, body)
  PROVE  Layout(f, S, start, head, vin, mid, d, last, body)
<1> USE DEF MadeOf
<1>0. Len(d) \in Nat
  BY LenProperties
<1> DEFINE Join(s, t) == /\ s \o t \in Seq(S)
                         /\ Len(s \o t) = Len(s) + Len(t)
                         /\ Holds(s \o t, 0, s) /\ Holds(s \o t, Len(s), t)
<1>j. \A s, t \in Seq(S) : Join(s, t)
  BY BothHeld
<1> HIDE DEF Join
<1>1. PICK a : a = head \o vin
  OBVIOUS
<1>2. a \in Seq(S) /\ Len(a) = 19 /\ Holds(a, 0, head) /\ Holds(a, 2, vin)
  <2>1. /\ a \in Seq(S) /\ Len(a) = 2 + Len(vin)
        /\ Holds(a, 0, head) /\ Holds(a, 2, vin)
    <3>1. Join(head, vin)
      BY <1>j
    <3> QED
      BY <1>1, <3>1 DEF Join
  <2> QED
    BY <2>1
<1>3. PICK b : b = a \o mid
  OBVIOUS
<1>4. b \in Seq(S) /\ Len(b) = 22 /\ Holds(b, 0, a) /\ Holds(b, 19, mid)
  <2>1. /\ b \in Seq(S) /\ Len(b) = 19 + Len(mid)
        /\ Holds(b, 0, a) /\ Holds(b, 19, mid)
    <3>1. Join(a, mid)
      BY <1>2, <1>j
    <3> QED
      BY <1>2, <1>3, <3>1 DEF Join
  <2> QED
    BY <2>1
<1>5. /\ body \in Seq(S) /\ Len(body) = 22 + Len(d)
      /\ Holds(body, 0, b) /\ Holds(body, 22, d)
  <2>1. body = b \o d
    BY <1>1, <1>3
  <2> QED
    <3>1. Join(b, d)
      BY <1>4, <1>j
    <3> QED
      BY <1>4, <2>1, <3>1 DEF Join
<1>6. PICK g : g = start \o body
  OBVIOUS
<1>7. /\ g \in Seq(S) /\ Len(g) = 24 + Len(d)
      /\ Holds(g, 0, start) /\ Holds(g, 2, body)
  <2>1. g \in Seq(S) /\ Len(g) = 2 + Len(body)
        /\ Holds(g, 0, start) /\ Holds(g, 2, body)
    <3>1. Join(start, body)
      BY <1>5, <1>j
    <3> QED
      BY <1>5, <1>6, <3>1 DEF Join
  <2> QED
    BY <1>0, <1>5, <2>1
<1>8. /\ f \in Seq(S) /\ Len(f) = 25 + Len(d)
      /\ Holds(f, 0, g) /\ Holds(f, 24 + Len(d), last)
  <2>1. f = g \o last
    BY <1>6
  <2>2. /\ f \in Seq(S) /\ Len(f) = (24 + Len(d)) + Len(last)
        /\ Holds(f, 0, g) /\ Holds(f, 24 + Len(d), last)
    <3>1. Join(g, last)
      BY <1>7, <1>j
    <3> QED
      BY <1>7, <2>1, <3>1 DEF Join
  <2> QED
    BY <1>0, <2>2
\* Parts of parts.
<1>9. Holds(f, 0, start) /\ Holds(f, 2, body)
  <2>1. 0 \in Nat /\ 2 \in Nat /\ 0 + 2 = 2 /\ 0 + 0 = 0
        /\ 0 + Len(start) <= Len(g) /\ 2 + Len(body) <= Len(g)
    BY <1>0, <1>5, <1>7
  <2>2. Holds(f, 0 + 0, start)
    BY <1>7, <1>8, <2>1, HoldsWithin
  <2>3. Holds(f, 0 + 2, body)
    BY <1>5, <1>7, <1>8, <2>1, HoldsWithin
  <2> QED
    BY <2>1, <2>2, <2>3
<1>10. Holds(f, 2, b) /\ Holds(f, 24, d)
  <2>1. 0 \in Nat /\ 2 \in Nat /\ 22 \in Nat /\ 2 + 0 = 2 /\ 2 + 22 = 24
        /\ 0 + Len(b) <= Len(body) /\ 22 + Len(d) <= Len(body)
    BY <1>0, <1>4, <1>5
  <2>2. Holds(f, 2 + 0, b)
    BY <1>4, <1>5, <1>9, <2>1, HoldsWithin
  <2>3. Holds(f, 2 + 22, d)
    BY <1>5, <1>9, <2>1, HoldsWithin
  <2> QED
    BY <2>1, <2>2, <2>3
<1>11. Holds(f, 2, a) /\ Holds(f, 21, mid)
  <2>1. 0 \in Nat /\ 2 \in Nat /\ 19 \in Nat /\ 2 + 0 = 2 /\ 2 + 19 = 21
        /\ 0 + Len(a) <= Len(b) /\ 19 + Len(mid) <= Len(b)
    BY <1>2, <1>4
  <2>2. Holds(f, 2 + 0, a)
    BY <1>2, <1>4, <1>10, <2>1, HoldsWithin
  <2>3. Holds(f, 2 + 19, mid)
    BY <1>4, <1>10, <2>1, HoldsWithin
  <2> QED
    BY <2>1, <2>2, <2>3
<1>12. Holds(f, 2, head) /\ Holds(f, 4, vin)
  <2>1. 0 \in Nat /\ 2 \in Nat /\ 2 + 0 = 2 /\ 2 + 2 = 4
        /\ 0 + Len(head) <= Len(a) /\ 2 + Len(vin) <= Len(a)
    BY <1>2
  <2>2. Holds(f, 2 + 0, head)
    BY <1>2, <1>11, <2>1, HoldsWithin
  <2>3. Holds(f, 2 + 2, vin)
    BY <1>2, <1>11, <2>1, HoldsWithin
  <2> QED
    BY <2>1, <2>2, <2>3
<1> QED
  BY <1>5, <1>8, <1>9, <1>10, <1>11, <1>12 DEF Layout

\* The two bytes of a length.
LEMMA LengthBytes ==
  ASSUME NEW n \in Nat, n < LengthValues
  PROVE  /\ n % LengthValues = n
         /\ n \div 256 \in Byte /\ n % 256 \in Byte
         /\ 256 * (n \div 256) + (n % 256) = n
<1>1. n % LengthValues = n
  BY SMT DEF LengthValues
<1> DEFINE x == n \div 256
           y == n % 256
<1>2. x \in Int /\ x >= 0 /\ x <= 255
  BY SMT DEF LengthValues
<1>3. y \in Int /\ y >= 0 /\ y <= 255
  OBVIOUS
<1>4. 256 * x + y = n
  OBVIOUS
<1> HIDE DEF x, y
<1>5. x \in Byte /\ y \in Byte
  BY <1>2, <1>3 DEF Byte
<1> QED
  BY <1>1, <1>4, <1>5 DEF x, y

\* What EncodeResponse writes: Decode reads its size from the header, accepts
\* its checksum and returns what was encoded.
LEMMA AnswerDecodes ==
  ASSUME NEW p \in Answers, NEW f, f = Encoded(p)
  PROVE  /\ Len(f) = HeaderSize + Len(p.Data) + 1
         /\ f[1] = StartMarker1 /\ f[2] = StartMarker2
         /\ DataLength(f) = Len(p.Data)
         /\ verifyBCC(f) /\ Packet(f) = p
<1>1. PICK d, vin, n : d = p.Data /\ vin = p.VIN /\ n = Len(d)
  OBVIOUS
<1>2. /\ d \in Seq(Byte) /\ vin \in Seq(Byte) /\ Len(vin) = 17
      /\ n \in Nat /\ n < LengthValues
      /\ p.Command \in Byte /\ p.EncryptType \in Byte /\ p.EncryptType # 0
      /\ p.Response = 254
  BY <1>1, LenProperties DEF Answers, VINLength, RespSuccess
<1>3. p = [Command |-> p.Command, Response |-> p.Response, VIN |-> p.VIN,
           EncryptType |-> p.EncryptType, Data |-> p.Data]
  BY DEF Answers
<1>4. n % LengthValues = n /\ n \div 256 \in Byte /\ n % 256 \in Byte
      /\ 256 * (n \div 256) + (n % 256) = n
  BY <1>2, LengthBytes
<1>5. PICK head, mid : /\ head = <<p.Command, RespSuccess>>
                       /\ mid = <<p.EncryptType, n \div 256, n % 256>>
  OBVIOUS
<1>6. PICK body : body = head \o vin \o mid \o d
  OBVIOUS
<1>7. PICK start, last, bcc : /\ start = <<StartMarker1, StartMarker2>>
                              /\ last = <<bcc>> /\ bcc = calculateBCC(body)
  OBVIOUS
<1>8. f = start \o body \o last
  <2>1. f = EncodeResponse(p.Command, vin, p.EncryptType, d)
    BY <1>1 DEF Encoded
  <2>2. Len(d) % LengthValues = n /\ p.EncryptType # 0
    BY <1>1, <1>2, <1>4, Zenon
  <2> QED
    BY <1>5, <1>6, <1>7, <2>1, <2>2, ZenonT(40) DEF EncodeResponse
<1>9. PICK S : S = Byte \cup {bcc}
  OBVIOUS
<1>10. Byte \subseteq S /\ bcc \in S /\ 35 \in S /\ 254 \in S
  BY <1>9 DEF Byte
<1>11. d \in Seq(S) /\ vin \in Seq(S)
  BY <1>2, <1>10, SeqMonotonic
<1>12. head \in Seq(S) /\ Len(head) = 2 /\ head[1] = p.Command /\ head[2] = 254
  BY <1>2, <1>5, <1>10 DEF RespSuccess
<1>13. /\ mid \in Seq(S) /\ Len(mid) = 3 /\ mid[1] = p.EncryptType
       /\ mid[2] = n \div 256 /\ mid[3] = n % 256
  <2>1. p.EncryptType \in S /\ n \div 256 \in S /\ n % 256 \in S
    BY <1>2, <1>4, <1>10
  <2> QED
    BY <1>5, <2>1
<1>14. start \in Seq(S) /\ Len(start) = 2 /\ start[1] = 35 /\ start[2] = 35
  BY <1>7, <1>10 DEF StartMarker1, StartMarker2
<1>15. last \in Seq(S) /\ Len(last) = 1 /\ last[1] = bcc
  BY <1>7, <1>10
<1>16. /\ body \in Seq(S) /\ Len(body) = 22 + n
       /\ f \in Seq(S) /\ Len(f) = 25 + n
       /\ Holds(f, 0, start) /\ Holds(f, 2, body) /\ Holds(f, 2, head)
       /\ Holds(f, 4, vin) /\ Holds(f, 21, mid) /\ Holds(f, 24, d)
       /\ Holds(f, 24 + n, last)
  <2>1. MadeOf(f, S, start, head, vin, mid, d, last, body)
    BY <1>2, <1>6, <1>8, <1>11, <1>12, <1>13, <1>14, <1>15 DEF MadeOf
  <2>2. Layout(f, S, start, head, vin, mid, d, last, body)
    BY <2>1, FrameLaid
  <2> QED
    BY <1>1, <2>2 DEF Layout
<1>17. f[1] = 35 /\ f[2] = 35
  <2>1. f[0 + 1] = start[1] /\ f[0 + 2] = start[2]
    BY <1>14, <1>16 DEF Holds
  <2> QED
    BY <1>14, <2>1
<1>18. f[3] = p.Command /\ f[4] = 254
  <2>1. f[2 + 1] = head[1] /\ f[2 + 2] = head[2]
    BY <1>12, <1>16 DEF Holds
  <2> QED
    BY <1>12, <2>1
<1>19. f[22] = p.EncryptType /\ f[23] = n \div 256 /\ f[24] = n % 256
  <2>1. f[21 + 1] = mid[1] /\ f[21 + 2] = mid[2] /\ f[21 + 3] = mid[3]
    BY <1>13, <1>16 DEF Holds
  <2>2. 21 + 1 = 22 /\ 21 + 2 = 23 /\ 21 + 3 = 24
    OBVIOUS
  <2> QED
    BY <1>13, <2>1, <2>2
<1>20. f[25 + n] = bcc
  <2>1. f[(24 + n) + 1] = last[1]
    BY <1>15, <1>16 DEF Holds
  <2>2. (24 + n) + 1 = 25 + n
    BY <1>2
  <2> QED
    BY <1>15, <2>1, <2>2
<1>21. SubSeq(f, 5, 21) = vin
  <2>1. 4 \in Nat /\ 4 + Len(vin) <= Len(f) /\ 4 + 1 = 5 /\ 4 + Len(vin) = 21
    BY <1>2, <1>16
  <2>2. SubSeq(f, 4 + 1, 4 + Len(vin)) = vin
    BY <1>11, <1>16, <2>1, HeldPart
  <2> QED
    BY <2>1, <2>2
<1>22. SubSeq(f, 25, Len(f) - 1) = d
  <2>1. 24 \in Nat /\ 24 + Len(d) <= Len(f) /\ 24 + 1 = 25
        /\ 24 + Len(d) = Len(f) - 1
    BY <1>1, <1>2, <1>16
  <2>2. SubSeq(f, 24 + 1, 24 + Len(d)) = d
    BY <1>11, <1>16, <2>1, HeldPart
  <2> QED
    BY <2>1, <2>2
<1>23. SubSeq(f, 3, Len(f) - 1) = body
  <2>1. 2 \in Nat /\ 2 + Len(body) <= Len(f) /\ 2 + 1 = 3
        /\ 2 + Len(body) = Len(f) - 1
    BY <1>2, <1>16
  <2>2. SubSeq(f, 2 + 1, 2 + Len(body)) = body
    BY <1>16, <2>1, HeldPart
  <2> QED
    BY <2>1, <2>2
<1>24. verifyBCC(f)
  <2>1. calculateBCC(SubSeq(f, 3, Len(f) - 1)) = f[Len(f)]
    BY <1>7, <1>16, <1>20, <1>23
  <2> QED
    BY <2>1 DEF verifyBCC
<1>25. Packet(f) = p
  BY <1>1, <1>2, <1>3, <1>18, <1>19, <1>21, <1>22 DEF Packet
<1>26. DataLength(f) = n
  BY <1>4, <1>19 DEF DataLength
<1>27. Len(f) = HeaderSize + n + 1
  BY <1>2, <1>16 DEF HeaderSize
<1>28. f[1] = StartMarker1 /\ f[2] = StartMarker2
  BY <1>17 DEF StartMarker1, StartMarker2
<1> QED
  BY <1>1, <1>24, <1>25, <1>26, <1>27, <1>28

\* Where in the stream Decode has found a marker.
Found == fed - Len(Marked) + 1

\* A stretch of the stream that is one of the buffer too.
LEMMA SameStretch ==
  ASSUME IInv, HasMarker
  PROVE  /\ Found \in Nat \ {0} /\ Base < Found /\ Found < fed
         /\ Found \in MarkersIn(stream)
         /\ Found + Len(Marked) = fed + 1
         /\ From(stream, Found) \in Seq(Byte)
         /\ Len(From(stream, Found)) = Len(stream) - Found + 1
         /\ Len(Marked) <= Len(From(stream, Found))
         /\ \A j \in 1..Len(Marked) : Marked[j] = From(stream, Found)[j]
<1>0. /\ stream \in Seq(Byte) /\ Len(stream) \in Nat
      /\ fed \in Nat /\ fed <= Len(stream)
      /\ buf \in Seq(Byte) /\ Len(buf) \in Nat
      /\ Base \in Nat /\ Base + Len(buf) = fed
  BY StreamType DEF IInv
<1>1. /\ Marked \in Seq(Byte)
      /\ Len(Marked) \in 2..Len(buf)
      /\ Marked[1] = StartMarker1 /\ Marked[2] = StartMarker2
      /\ \A j \in 1..Len(Marked) : Marked[j] = stream[fed - Len(Marked) + j]
  BY MarkedProperties
<1>2. /\ Found \in Nat \ {0} /\ Base < Found /\ Found < fed
      /\ Found + Len(Marked) = fed + 1 /\ Len(Marked) \in Nat
  BY <1>0, <1>1 DEF Found
<1>3. ASSUME NEW j \in 1..Len(Marked) PROVE Marked[j] = stream[Found + j - 1]
  <2>1. fed - Len(Marked) + j = Found + j - 1
    BY <1>0, <1>2 DEF Found
  <2> QED
    BY <1>1, <2>1
<1>4. Found \in 1..Len(stream) + 1
  BY <1>0, <1>2
<1>5. /\ From(stream, Found) \in Seq(Byte)
      /\ Len(From(stream, Found)) = Len(stream) - Found + 1
      /\ \A j \in 1..Len(stream) - Found + 1 :
           From(stream, Found)[j] = stream[Found + j - 1]
  BY <1>0, <1>4, FromProperties
<1>6. Len(Marked) <= Len(stream) - Found + 1
  BY <1>0, <1>2
<1>7. ASSUME NEW j \in 1..Len(Marked)
      PROVE  Marked[j] = From(stream, Found)[j]
  <2>1. j \in 1..Len(stream) - Found + 1
    BY <1>0, <1>2, <1>6
  <2> QED
    BY <1>3, <1>5, <2>1
<1>8. Found \in MarkersIn(stream)
  <2>1. 1 \in 1..Len(Marked) /\ 2 \in 1..Len(Marked)
    BY <1>1, <1>2
  <2>2. Found + 1 - 1 = Found /\ Found + 2 - 1 = Found + 1
    BY <1>2
  <2>3. stream[Found] = StartMarker1 /\ stream[Found + 1] = StartMarker2
    BY <1>1, <1>3, <2>1, <2>2
  <2>4. Found \in 1..Len(stream) - 1
    BY <1>0, <1>2
  <2> QED
    BY <2>3, <2>4 DEF MarkersIn
<1> QED
  BY <1>2, <1>5, <1>6, <1>7, <1>8

\* Decode finds the first marker of what is unread.
LEMMA FirstMarker ==
  ASSUME IInv, NEW x \in MarkersIn(stream), Base < x, x < fed
  PROVE  HasMarker /\ Found <= x
<1>0. /\ stream \in Seq(Byte) /\ Len(stream) \in Nat
      /\ fed \in Nat /\ fed <= Len(stream)
      /\ buf \in Seq(Byte) /\ Len(buf) \in Nat
      /\ Base \in Nat /\ Base + Len(buf) = fed
  BY StreamType DEF IInv
<1>1. /\ x \in Nat /\ stream[x] = StartMarker1 /\ stream[x + 1] = StartMarker2
  BY <1>0 DEF MarkersIn
<1>2. PICK y : y = x - Base
  OBVIOUS
<1>3. /\ y \in Nat /\ y \in 1..Len(buf) - 1 /\ y \in 1..Len(buf)
      /\ y + 1 \in 1..Len(buf) /\ Base + y = x /\ Base + (y + 1) = x + 1
  BY <1>0, <1>1, <1>2
<1>4. buf[y] = StartMarker1 /\ buf[y + 1] = StartMarker2
  <2>1. buf[y] = stream[Base + y] /\ buf[y + 1] = stream[Base + (y + 1)]
    BY <1>3 DEF IInv, BufIsStream
  <2> QED
    BY <1>1, <1>3, <2>1
<1>5. PICK M : M = MarkersIn(buf)
  OBVIOUS
<1>6. y \in M /\ M \in SUBSET Nat
  BY <1>0, <1>3, <1>4, <1>5 DEF MarkersIn
<1>7. Min(M) \in M /\ Min(M) <= y
  BY <1>6, LeastNat
<1>8. findStartMarker(buf) = Min(M) /\ findStartMarker(buf) # 0
  <2>1. findStartMarker(buf) = Min(M)
    BY <1>5, <1>6 DEF findStartMarker
  <2>2. \A z \in M : z # 0
    BY <1>0, <1>5 DEF MarkersIn
  <2> QED
    BY <1>7, <2>1, <2>2
<1>9. PICK m : m = findStartMarker(buf)
  OBVIOUS
<1>10. m \in 1..Len(buf) - 1 /\ m <= y
  BY <1>0, <1>7, <1>8, <1>9, MarkerFound
<1>11. Len(Marked) = Len(buf) - m + 1
  <2>1. m \in 1..Len(buf) + 1
    BY <1>0, <1>10
  <2>2. Len(From(buf, m)) = Len(buf) - m + 1
    BY <1>0, <2>1, FromProperties
  <2> QED
    BY <1>9, <2>2 DEF Marked
<1>12. Found <= x
  BY <1>0, <1>3, <1>10, <1>11 DEF Found
<1> QED
  BY <1>8, <1>12 DEF HasMarker

\* A frame that Decode tries, as a part of the stream.
LEMMA TriedFrame ==
  ASSUME IInv, AtFrame
  PROVE  LET rest == From(stream, Found) IN
         /\ FrameSize(Marked) = FrameSize(rest)
         /\ Frame = SubSeq(rest, 1, FrameSize(rest))
<1>1. PICK rest : rest = From(stream, Found)
  OBVIOUS
<1>2. HasMarker
  BY DEF AtFrame
<1>3. /\ rest \in Seq(Byte) /\ Len(Marked) <= Len(rest)
      /\ \A j \in 1..Len(Marked) : Marked[j] = rest[j]
  BY <1>1, <1>2, SameStretch
<1>4. /\ FrameSize(Marked) \in Nat /\ FrameSize(Marked) >= 25
      /\ FrameSize(Marked) <= Len(Marked)
      /\ Marked \in Seq(Byte) /\ Len(Marked) \in Nat
  BY FrameProperties DEF HeaderSize
<1>5. Marked[23] = rest[23] /\ Marked[24] = rest[24]
  <2>1. 23 \in 1..Len(Marked) /\ 24 \in 1..Len(Marked)
    BY <1>4
  <2> QED
    BY <1>3, <2>1
<1>6. FrameSize(Marked) = FrameSize(rest)
  BY <1>5 DEF FrameSize, DataLength
<1>7. PICK n : n = FrameSize(Marked)
  OBVIOUS
<1>8. /\ n \in Nat /\ 0 + n <= Len(Marked) /\ 0 + n <= Len(rest) /\ 0 \in Nat
      /\ 0 + 1 = 1 /\ 0 + n = n
  BY <1>3, <1>4, <1>7, LenProperties
<1>9. \A i \in 1..n : Marked[0 + i] = rest[0 + i]
  BY <1>3, <1>4, <1>8
<1>10. SubSeq(Marked, 0 + 1, 0 + n) = SubSeq(rest, 0 + 1, 0 + n)
  BY <1>3, <1>4, <1>8, <1>9, EqualParts
<1> QED
  BY <1>1, <1>6, <1>7, <1>8, <1>10 DEF Frame

\* The frame of an answer where it lies in the stream: what Decode reads
\* there is complete, is accepted and is what was sent.
LEMMA SentFrame ==
  ASSUME NEW b \in Seq(Byte), NEW sent \in Seq(Answers), NEW at,
         Placed(b, sent, at), NEW i \in 1..Len(sent)
  PROVE  LET rest == From(b, at[i])
             f == SubSeq(rest, 1, FrameSize(rest)) IN
         /\ at[i] \in MarkersIn(b) /\ at[i] \in Nat
         /\ HasData(rest) /\ FrameSize(rest) \in Nat /\ FrameSize(rest) >= 25
         /\ FrameSize(rest) <= Len(rest)
         /\ Behind(at[i], sent[i]) = at[i] + FrameSize(rest)
         /\ verifyBCC(f) /\ Packet(f) = sent[i]
<1>1. PICK k, p, e : k = at[i] /\ p = sent[i] /\ e = Behind(k, p)
  OBVIOUS
<1>2. /\ p \in Answers /\ Len(p.Data) \in Nat /\ Len(b) \in Nat
  <2>1. p \in Answers /\ Len(b) \in Nat
    BY <1>1, ElementOfSeq, LenProperties
  <2> QED
    BY <2>1, LenProperties DEF Answers
<1>3. k \in Nat \ {0} /\ e <= Len(b) + 1 /\ SubSeq(b, k, e - 1) = Encoded(p)
  <2>1. /\ at[i] \in Nat \ {0} /\ Behind(at[i], sent[i]) <= Len(b) + 1
        /\ SubSeq(b, at[i], Behind(at[i], sent[i]) - 1) = Encoded(sent[i])
    BY DEF Placed
  <2> QED
    BY <1>1, <2>1
<1>4. PICK n : n = Len(p.Data)
  OBVIOUS
<1>5. n \in Nat /\ e = k + 25 + n /\ e \in Nat /\ k + 24 + n <= Len(b)
      /\ k \in 1..Len(b) + 1
  <2>1. e = k + 24 + n + 1
    BY <1>1, <1>4 DEF Behind, HeaderSize
  <2>2. n \in Nat /\ k \in Nat /\ k # 0 /\ Len(b) \in Nat /\ e <= Len(b) + 1
    BY <1>2, <1>3, <1>4
  <2> QED
    BY <2>1, <2>2
<1>6. PICK rest : rest = From(b, k)
  OBVIOUS
<1>7. /\ rest \in Seq(Byte) /\ Len(rest) = Len(b) - k + 1
      /\ \A j \in 1..Len(b) - k + 1 : rest[j] = b[k + j - 1]
  BY <1>5, <1>6, FromProperties
<1>8. Len(rest) \in Nat /\ 25 + n <= Len(rest)
  <2>1. \A l, x \in Nat : x + 24 + n <= l => 25 + n <= l - x + 1
    BY <1>5
  <2>2. k \in Nat /\ Len(b) \in Nat /\ Len(rest) \in Nat
    BY <1>2, <1>3, <1>7, LenProperties
  <2> QED
    BY <1>5, <1>7, <2>1, <2>2
<1>9. PICK f : f = SubSeq(rest, 1, 25 + n)
  OBVIOUS
<1>10. f = Encoded(p)
  <2>1. PICK l, m : l = k - 1 /\ m = 25 + n
    OBVIOUS
  <2>2. l \in Nat /\ m \in Nat /\ 0 \in Nat /\ l + m <= Len(b)
        /\ 0 + m <= Len(rest) /\ l + 1 = k /\ l + m = e - 1 /\ 0 + 1 = 1
        /\ 0 + m = m
    BY <1>2, <1>3, <1>5, <1>8, <2>1
  <2>3. \A j \in 1..m : rest[0 + j] = b[l + j]
    <3> SUFFICES ASSUME NEW j \in 1..m PROVE rest[j] = b[l + j]
      OBVIOUS
    <3>1. j \in 1..Len(b) - k + 1 /\ k + j - 1 = l + j
      BY <1>2, <1>3, <1>7, <1>8, <2>1, <2>2
    <3> QED
      BY <1>7, <3>1
  <2>4. SubSeq(rest, 0 + 1, 0 + m) = SubSeq(b, l + 1, l + m)
    BY <1>7, <2>2, <2>3, EqualParts
  <2> QED
    BY <1>3, <1>9, <2>1, <2>2, <2>4
<1>11. /\ Len(f) = 25 + n /\ f[1] = StartMarker1 /\ f[2] = StartMarker2
       /\ DataLength(f) = n /\ verifyBCC(f) /\ Packet(f) = p
  <2>1. /\ Len(f) = HeaderSize + n + 1
        /\ f[1] = StartMarker1 /\ f[2] = StartMarker2
        /\ DataLength(f) = n /\ verifyBCC(f) /\ Packet(f) = p
    BY <1>2, <1>4, <1>10, AnswerDecodes
  <2> QED
    BY <1>5, <2>1 DEF HeaderSize
<1>12. \A j \in 1..25 + n : f[j] = rest[j]
  <2>1. 1 \in Nat \ {0} /\ 25 + n \in 0..Len(rest)
    BY <1>5, <1>8
  <2>2. \A j \in 1..(25 + n) - 1 + 1 : f[j] = rest[1 + j - 1]
    BY <1>7, <1>9, <2>1, PartOf
  <2> QED
    BY <1>5, <2>2
<1>13. /\ rest[1] = StartMarker1 /\ rest[2] = StartMarker2
       /\ DataLength(rest) = n
  <2>1. 1 \in 1..25 + n /\ 2 \in 1..25 + n /\ 23 \in 1..25 + n
        /\ 24 \in 1..25 + n
    BY <1>5
  <2>2. f[1] = rest[1] /\ f[2] = rest[2] /\ f[23] = rest[23] /\ f[24] = rest[24]
    BY <1>12, <2>1
  <2> QED
    BY <1>11, <2>2 DEF DataLength
<1>14. k \in MarkersIn(b)
  <2>1. 1 \in 1..Len(b) - k + 1 /\ 2 \in 1..Len(b) - k + 1
        /\ k + 1 - 1 = k /\ k + 2 - 1 = k + 1
    BY <1>2, <1>3, <1>5
  <2>2. b[k] = StartMarker1 /\ b[k + 1] = StartMarker2
    BY <1>7, <1>13, <2>1
  <2>3. k \in 1..Len(b) - 1
    BY <1>2, <1>3, <1>5
  <2> QED
    BY <2>2, <2>3 DEF MarkersIn
<1>15. FrameSize(rest) = 25 + n /\ HasData(rest)
  BY <1>5, <1>8, <1>13 DEF FrameSize, HasData, HeaderSize
<1>16. e = k + FrameSize(rest) /\ FrameSize(rest) \in Nat
       /\ FrameSize(rest) >= 25 /\ FrameSize(rest) <= Len(rest)
  BY <1>3, <1>5, <1>8, <1>15
<1>17. f = SubSeq(rest, 1, FrameSize(rest))
  BY <1>9, <1>15
<1> QED
  BY <1>1, <1>3, <1>6, <1>11, <1>14, <1>15, <1>16, <1>17

LEMMA SentPlace ==
  ASSUME IInv, input.sent \in Seq(Answers), NEW at,
         Placed(stream, input.sent, at), NEW i \in 1..Len(input.sent)
  PROVE  /\ at[i] \in MarkersIn(stream) /\ at[i] \in Nat
         /\ at[i] + 25 <= Len(stream) + 1
<1>1. PICK k, fs : k = at[i] /\ fs = FrameSize(From(stream, k))
  OBVIOUS
<1>2. stream \in Seq(Byte) /\ Len(stream) \in Nat
  BY StreamType DEF IInv
<1>3. /\ k \in MarkersIn(stream) /\ k \in Nat /\ fs \in Nat /\ fs >= 25
      /\ Behind(k, input.sent[i]) = k + fs
  BY <1>1, <1>2, SentFrame
<1>4. Behind(k, input.sent[i]) <= Len(stream) + 1
  BY <1>1 DEF Placed
<1>5. k + 25 <= Len(stream) + 1
  BY <1>2, <1>3, <1>4
<1> QED
  BY <1>1, <1>3, <1>5

\* Decode stands behind the frames of the packets it delivered and not behind
\* the start of the next one.
Reached(at) ==
  LET k == Len(packets) IN
  /\ k <= Len(input.sent)
  /\ \A i \in 1..k : packets[i] = input.sent[i]
  /\ \A i \in 1..k : Behind(at[i], input.sent[i]) <= Base + 1
  /\ \A i \in k + 1..Len(input.sent) : Base < at[i]

InOrder ==
  /\ input.sent \in Seq(Answers)
  /\ \E at : /\ Placed(stream, input.sent, at)
             /\ cut \/ Reached(at)

\* The marker that Decode finds is the one of the next frame, or it lies in
\* front of that one and can be refuted.
LEMMA FoundWhere ==
  ASSUME IInv, HasMarker, input.sent \in Seq(Answers), NEW at,
         Placed(stream, input.sent, at), Reached(at)
  PROVE  LET k == Len(packets) + 1 IN
         \/ k <= Len(input.sent) /\ Found = at[k]
         \/ /\ Refuted(stream, Found)
            /\ \A i \in k..Len(input.sent) : Found + 1 < at[i]
<1>1. PICK k, sent, n : k = Len(packets) /\ sent = input.sent /\ n = Len(sent)
  OBVIOUS
<1>2. /\ k \in Nat /\ n \in Nat /\ k <= n /\ sent \in Seq(Answers)
      /\ Placed(stream, sent, at) /\ stream \in Seq(Byte)
      /\ \A i \in 1..k : Behind(at[i], sent[i]) <= Base + 1
      /\ \A i \in k + 1..n : Base < at[i]
  BY <1>1, LenProperties, StreamType DEF IInv, Reached
<1>3. /\ Found \in Nat /\ Base < Found /\ Found < fed /\ fed \in Nat
      /\ Found \in MarkersIn(stream) /\ Base \in Nat
  BY SameStretch, StreamType DEF IInv
<1>4. ASSUME NEW i \in 1..n
      PROVE  /\ at[i] \in Nat /\ at[i] \in MarkersIn(stream)
             /\ Behind(at[i], sent[i]) \in Nat
             /\ at[i] < Behind(at[i], sent[i])
  <2>1. PICK fs : fs = FrameSize(From(stream, at[i]))
    OBVIOUS
  <2>2. /\ at[i] \in MarkersIn(stream) /\ at[i] \in Nat /\ fs \in Nat
        /\ fs >= 25 /\ Behind(at[i], sent[i]) = at[i] + fs
    BY <1>1, <1>2, <2>1, SentFrame
  <2> QED
    BY <2>2
\* No frame that is still to come starts before the marker.
<1>5. ASSUME NEW i \in k + 1..n PROVE Found <= at[i]
  <2>1. i \in 1..n
    BY <1>2
  <2>2. CASE at[i] < fed
    BY <1>2, <1>4, <2>1, <2>2, FirstMarker
  <2>3. CASE ~(at[i] < fed)
    BY <1>3, <1>4, <2>1, <2>3
  <2> QED
    BY <2>2, <2>3
<1>6. CASE \E i \in 1..n : at[i] <= Found /\ Found < Behind(at[i], sent[i])
  <2>1. PICK i \in 1..n : at[i] <= Found /\ Found < Behind(at[i], sent[i])
    BY <1>6
  <2>2. ~(i \in 1..k)
    BY <1>2, <1>3, <1>4, <2>1
  <2>3. i \in k + 1..n /\ i \in Nat
    BY <1>2, <2>1, <2>2
  <2>4. Found = at[i]
    BY <1>3, <1>4, <1>5, <2>1, <2>3
  <2>5. i = k + 1
    <3> SUFFICES ASSUME i # k + 1 PROVE FALSE
      OBVIOUS
    <3>1. k + 1 \in 1..n /\ k + 1 < i /\ k + 1 \in k + 1..n
      BY <1>2, <2>3
    <3>2. Behind(at[k + 1], sent[k + 1]) <= at[i]
      BY <1>1, <1>2, <2>1, <3>1 DEF Placed
    <3>3. Found <= at[k + 1]
      BY <1>5, <3>1
    <3> QED
      BY <1>3, <1>4, <2>1, <2>4, <3>1, <3>2, <3>3
  <2> QED
    BY <1>1, <1>2, <2>3, <2>4, <2>5
<1>7. CASE /\ Refuted(stream, Found)
           /\ \A i \in 1..n : Found + 1 # at[i]
           /\ ~\E i \in 1..n : at[i] <= Found /\ Found < Behind(at[i], sent[i])
  <2>1. ASSUME NEW i \in k + 1..n PROVE Found + 1 < at[i]
    <3>1. i \in 1..n
      BY <1>2
    <3>2. Found <= at[i] /\ Found + 1 # at[i]
      BY <1>5, <1>7, <3>1
    <3>3. Found # at[i]
      BY <1>3, <1>4, <1>7, <3>1
    <3> QED
      BY <1>3, <1>4, <3>1, <3>2, <3>3
  <2> QED
    BY <1>1, <1>7, <2>1
<1>8. \/ \E i \in 1..n : at[i] <= Found /\ Found < Behind(at[i], sent[i])
      \/ Refuted(stream, Found) /\ \A i \in 1..n : Found + 1 # at[i]
  BY <1>1, <1>2, <1>3 DEF Placed
<1> QED
  BY <1>6, <1>7, <1>8

\* The connection is new: every frame is still to come.
LEMMA InOrderInit ==
  ASSUME Init, \A in \in Inputs : Framed(in)
  PROVE  InOrder
<1>1. input.sent \in Seq(Answers) /\ \E at : Placed(stream, input.sent, at)
  BY DEF Init, Framed, stream
<1>2. PICK at : Placed(stream, input.sent, at)
  BY <1>1
<1>3. Len(packets) = 0 /\ Base = 0
  <2>1. fed = 0 /\ buf = <<>> /\ packets = <<>>
    BY DEF Init
  <2>2. Len(<<>>) = 0
    OBVIOUS
  <2>3. Base = 0 - 0 /\ Len(packets) = 0
    BY <2>1, <2>2 DEF Base
  <2> QED
    BY <2>3
<1>4. Len(input.sent) \in Nat
  BY <1>1, LenProperties
<1>5. \A i \in 1..Len(input.sent) : at[i] \in Nat \ {0}
  BY <1>2 DEF Placed
<1>6. \A i \in 0 + 1..Len(input.sent) : 0 < at[i]
  BY <1>4, <1>5
<1>7. Reached(at)
  BY <1>3, <1>4, <1>6 DEF Reached
<1> QED
  BY <1>1, <1>2, <1>7 DEF InOrder

LEMMA NextBase ==
  ASSUME IInv'
  PROVE  Base' \in Nat /\ Len(buf') \in Nat /\ Base' + Len(buf') = fed'
<1>1. /\ buf' \in Seq(Byte) /\ Len(buf') <= fed' /\ fed' \in 0..Len(stream')
      /\ input' \in Inputs
  BY DEF IInv, TypeOK
<1>2. Len(buf') \in Nat
  BY <1>1, LenProperties
<1>3. Len(stream') \in Nat
  BY <1>1, InputsAssumption, LenProperties DEF stream
<1> QED
  BY <1>1, <1>2, <1>3 DEF Base

\* While nothing is delivered, only the place that Decode has reached counts.
LEMMA ReachedStays ==
  ASSUME IInv, IInv', UNCHANGED <<input, packets>>, NEW at, Reached(at),
         Base <= Base',
         \A i \in Len(packets) + 1..Len(input.sent) : Base' < at[i],
         Placed(stream, input.sent, at), input.sent \in Seq(Answers)
  PROVE  Reached(at)'
<1>1. Base \in Nat /\ Base' \in Nat /\ Len(packets) \in Nat
      /\ Len(input.sent) \in Nat
  <2>1. Base \in Nat /\ Base' \in Nat
    BY StreamType, NextBase DEF IInv
  <2> QED
    BY <2>1, LenProperties DEF IInv
<1>2. Len(packets) <= Len(input.sent)
  BY DEF Reached
<1>3. ASSUME NEW i \in 1..Len(packets)
      PROVE  Behind(at[i], input.sent[i]) <= Base' + 1
  <2>1. Behind(at[i], input.sent[i]) <= Base + 1
    BY DEF Reached
  <2>2. i \in 1..Len(input.sent)
    BY <1>1, <1>2
  <2>3. PICK e, fs : /\ fs = FrameSize(From(stream, at[i]))
                     /\ e = Behind(at[i], input.sent[i])
    OBVIOUS
  <2>4. e = at[i] + fs /\ at[i] \in Nat /\ fs \in Nat
    BY <2>2, <2>3, SentFrame, StreamType DEF IInv
  <2> QED
    BY <1>1, <2>1, <2>3, <2>4
<1> QED
  BY <1>1, <1>2, <1>3 DEF Reached

\* Feed and the steps of Decode that deliver nothing lose no frame, unless
\* Reset drops the first half of a start marker.
LEMMA InOrderKept ==
  ASSUME IInv, IInv', InOrder, Feed \/ DecodeReset \/ DecodeNil \/ DecodePanic
                                 \/ DecodeSkip
  PROVE  InOrder'
<1>0. UNCHANGED <<input, packets>> /\ stream' = stream /\ (cut => cut')
  <2>1. UNCHANGED <<input, packets>> /\ (DecodeReset \/ cut' = cut)
    BY DEF Feed, DecodeReset, DecodeNil, DecodePanic, DecodeSkip
  <2>2. DecodeReset => (cut => cut')
    BY DEF DecodeReset
  <2> QED
    BY <2>1, <2>2 DEF stream
<1>1. input.sent \in Seq(Answers)
  BY DEF InOrder
<1>2. PICK at : Placed(stream, input.sent, at) /\ (cut \/ Reached(at))
  BY DEF InOrder
<1>3. CASE cut
  BY <1>0, <1>1, <1>2, <1>3 DEF InOrder
<1> SUFFICES ASSUME Reached(at)
             PROVE  cut' \/ Reached(at)'
  BY <1>0, <1>1, <1>2, <1>3 DEF InOrder
<1>4. ASSUME Base <= Base',
             \A i \in Len(packets) + 1..Len(input.sent) : Base' < at[i]
      PROVE  Reached(at)'
  BY <1>0, <1>1, <1>2, <1>4, ReachedStays
<1>5. /\ stream \in Seq(Byte) /\ Len(stream) \in Nat
      /\ fed \in Nat /\ fed <= Len(stream)
      /\ buf \in Seq(Byte) /\ Len(buf) \in Nat
      /\ Base \in Nat /\ Base + Len(buf) = fed
      /\ Base' \in Nat /\ Len(buf') \in Nat /\ Base' + Len(buf') = fed'
  BY StreamType, NextBase DEF IInv
<1>6. ASSUME NEW i \in Len(packets) + 1..Len(input.sent)
      PROVE  /\ Base < at[i] /\ at[i] \in Nat /\ at[i] \in MarkersIn(stream)
             /\ at[i] + 25 <= Len(stream) + 1
  <2>1. i \in 1..Len(input.sent)
    BY LenProperties DEF IInv
  <2>2. /\ at[i] \in MarkersIn(stream) /\ at[i] \in Nat
        /\ at[i] + 25 <= Len(stream) + 1
    BY <1>1, <1>2, <2>1, SentPlace
  <2>3. Base < at[i]
    BY DEF Reached
  <2> QED
    BY <2>2, <2>3
<1>7. CASE Feed \/ DecodePanic
  <2>1. Base' = Base
    <3>1. CASE DecodePanic
      BY <3>1 DEF DecodePanic, Base
    <3>2. CASE Feed
      <4>1. PICK n \in 1..readBufSize :
              /\ fed + n <= Len(stream)
              /\ buf' = buf \o SubSeq(stream, fed + 1, fed + n)
              /\ fed' = fed + n
        BY <3>2 DEF Feed
      <4>2. n \in Nat /\ n >= 1
        BY DEF readBufSize
      <4>3. PICK new : new = SubSeq(stream, fed + 1, fed + n)
        OBVIOUS
      <4>4. new \in Seq(Byte) /\ Len(new) = n
        <5>1. PICK a, b : a = fed + 1 /\ b = fed + n
          OBVIOUS
        <5>2. a \in Nat \ {0} /\ b \in 0..Len(stream) /\ a <= b /\ b - a + 1 = n
          BY <1>5, <4>1, <4>2, <5>1
        <5>3. new \in Seq(Byte) /\ Len(new) = IF a <= b THEN b - a + 1 ELSE 0
          BY <1>5, <4>3, <5>1, <5>2, PartOf
        <5> QED
          BY <5>2, <5>3
      <4>5. Len(buf') = Len(buf) + n
        BY <1>5, <4>1, <4>3, <4>4, ConcatProperties
      <4> QED
        BY <1>5, <4>1, <4>2, <4>5
    <3> QED
      BY <1>7, <3>1, <3>2
  <2> QED
    BY <1>4, <1>5, <1>6, <2>1
<1>8. CASE DecodeReset
  <2>1. buf' = <<>> /\ fed' = fed /\ ~HasMarker
    BY <1>8 DEF DecodeReset
  <2>2. Base' = fed
    <3>1. Len(<<>>) = 0
      OBVIOUS
    <3>2. Base' = fed - 0
      BY <2>1, <3>1 DEF Base
    <3> QED
      BY <1>5, <3>2
  <2>3. CASE \A i \in Len(packets) + 1..Len(input.sent) : fed < at[i]
    BY <1>4, <1>5, <2>2, <2>3
  <2>4. CASE \E i \in Len(packets) + 1..Len(input.sent) : ~(fed < at[i])
    <3>1. PICK i \in Len(packets) + 1..Len(input.sent) : ~(fed < at[i])
      BY <2>4
    <3>2. at[i] = fed
      <4>1. ~(at[i] < fed)
        BY <1>6, <2>1, FirstMarker
      <4>2. at[i] \in Nat
        BY <1>6
      <4> QED
        BY <1>5, <3>1, <4>1, <4>2
    <3>3. /\ fed < Len(stream) /\ stream[fed] = StartMarker1
          /\ stream[fed + 1] = StartMarker2
      <4>1. fed \in MarkersIn(stream) /\ fed + 25 <= Len(stream) + 1
        BY <1>6, <3>2
      <4> QED
        BY <1>5, <4>1 DEF MarkersIn
    <3>4. Len(buf) \in 1..Len(buf) /\ Base + Len(buf) = fed
      BY <1>5, <1>6, <3>1, <3>2
    <3>5. buf[Len(buf)] = StartMarker1 /\ buf # <<>>
      <4>1. buf[Len(buf)] = stream[Base + Len(buf)]
        BY <3>4 DEF IInv, BufIsStream
      <4> QED
        BY <3>3, <3>4, <4>1
    <3>6. Last(buf) = StartMarker1
      BY <3>5 DEF Last
    <3> QED
      BY <1>8, <3>3, <3>5, <3>6 DEF DecodeReset
  <2> QED
    BY <2>3, <2>4
<1>9. CASE DecodeNil \/ DecodeSkip
  <2>1. HasMarker /\ fed' = fed /\ UNCHANGED <<input, fed>>
    BY <1>9 DEF DecodeNil, DecodeSkip, AtFrame
  <2>2. PICK k : k = Len(packets) + 1
    OBVIOUS
  <2>3. \/ k <= Len(input.sent) /\ Found = at[k]
        \/ /\ Refuted(stream, Found)
           /\ \A i \in k..Len(input.sent) : Found + 1 < at[i]
    BY <1>1, <1>2, <2>1, <2>2, FoundWhere
  <2>4. /\ Found \in Nat /\ Base < Found /\ Found + Len(Marked) = fed + 1
        /\ Len(Marked) \in 2..Len(buf) /\ Len(Marked) \in Nat
    <3>1. Found \in Nat /\ Base < Found /\ Found + Len(Marked) = fed + 1
      BY <2>1, SameStretch
    <3>2. Len(Marked) \in 2..Len(buf)
      BY <2>1, MarkedProperties
    <3> QED
      BY <1>5, <3>1, <3>2
  <2>5. k \in Nat /\ Len(input.sent) \in Nat
    BY <1>1, <2>2, LenProperties DEF IInv
  \* The first frame to come is before the others.
  <2>6. ASSUME NEW i \in k..Len(input.sent), k <= Len(input.sent), Found = at[k]
        PROVE  Found <= at[i]
    <3>1. k \in 1..Len(input.sent) /\ i \in 1..Len(input.sent)
          /\ k \in Len(packets) + 1..Len(input.sent)
          /\ (i = k \/ k < i)
      BY <2>2, <2>5, <2>6, LenProperties DEF IInv
    <3>2. CASE i = k
      BY <1>6, <2>6, <3>1, <3>2
    <3>3. CASE k < i
      <4>1. Behind(at[k], input.sent[k]) <= at[i]
        BY <1>2, <3>1, <3>3 DEF Placed
      <4>2. PICK fs : fs = FrameSize(From(stream, at[k]))
        OBVIOUS
      <4>3. at[k] \in Nat /\ fs \in Nat /\ Behind(at[k], input.sent[k]) = at[k] + fs
        BY <1>1, <1>2, <1>5, <3>1, <4>2, SentFrame
      <4>4. at[i] \in Nat
        BY <1>6, <2>2
      <4> QED
        BY <2>6, <4>1, <4>3, <4>4
    <3> QED
      BY <3>1, <3>2, <3>3
  <2>7. CASE DecodeNil
    <3>1. Base' = Found - 1
      <4>1. buf' = Marked
        BY <2>7 DEF DecodeNil
      <4> QED
        BY <1>5, <2>1, <2>4, <4>1
    <3>2. ASSUME NEW i \in Len(packets) + 1..Len(input.sent)
          PROVE  Base' < at[i]
      <4>1. i \in k..Len(input.sent)
        BY <2>2
      <4>2. Found <= at[i]
        BY <1>6, <2>3, <2>4, <2>6, <4>1
      <4> QED
        BY <1>6, <2>4, <3>1, <4>2
    <3> QED
      BY <1>4, <1>5, <2>4, <3>1, <3>2
  <2>8. CASE DecodeSkip
    <3>1. AtFrame /\ ~verifyBCC(Frame) /\ buf' = From(Marked, 3)
      BY <2>8 DEF DecodeSkip
    <3>2. 3 \in 1..Len(Marked) + 1
      BY <2>4
    <3>3. Base' = fed - Len(Marked) + 3 - 1
      BY <2>1, <3>1, <3>2, MarkedRest
    <3>4. Base' = Found + 1
      BY <1>5, <2>4, <3>3
    <3>5. ~(k <= Len(input.sent) /\ Found = at[k])
      <4> SUFFICES ASSUME k <= Len(input.sent), Found = at[k] PROVE FALSE
        OBVIOUS
      <4>1. k \in 1..Len(input.sent)
        BY <2>2, <2>5, LenProperties DEF IInv
      <4>2. PICK rest : rest = From(stream, Found)
        OBVIOUS
      <4>3. verifyBCC(SubSeq(rest, 1, FrameSize(rest)))
        BY <1>1, <1>2, <1>5, <4>1, <4>2, SentFrame
      <4>4. Frame = SubSeq(rest, 1, FrameSize(rest))
        BY <3>1, <4>2, TriedFrame
      <4> QED
        BY <3>1, <4>3, <4>4
    <3>6. \A i \in Len(packets) + 1..Len(input.sent) : Base' < at[i]
      BY <2>2, <2>3, <3>4, <3>5
    <3> QED
      BY <1>4, <1>5, <2>4, <3>4, <3>6
  <2> QED
    BY <1>9, <2>7, <2>8
<1> QED
  BY <1>7, <1>8, <1>9

\* A packet is delivered: it is the next answer.
LEMMA InOrderDelivers ==
  ASSUME IInv, IInv', InOrder, DecodePacket
  PROVE  InOrder'
<1>0. UNCHANGED <<input, fed, cut>> /\ stream' = stream
  BY DEF DecodePacket, stream
<1>1. input.sent \in Seq(Answers) /\ Len(input.sent) \in Nat
  BY LenProperties DEF InOrder
<1>2. PICK at : Placed(stream, input.sent, at) /\ (cut \/ Reached(at))
  BY DEF InOrder
<1>3. CASE cut
  BY <1>0, <1>1, <1>2, <1>3 DEF InOrder
<1> SUFFICES ASSUME Reached(at)
             PROVE  Reached(at)'
  BY <1>0, <1>1, <1>2, <1>3 DEF InOrder
<1>4. PICK k, n, rest, fs :
        /\ k = Len(packets) + 1 /\ n = Len(input.sent)
        /\ rest = From(stream, Found) /\ fs = FrameSize(rest)
  OBVIOUS
<1>5. /\ AtFrame /\ HasMarker /\ verifyBCC(Frame)
      /\ packets' = Append(packets, Packet(Frame))
  BY DEF DecodePacket, AtFrame
<1>6. FrameSize(Marked) = fs /\ Frame = SubSeq(rest, 1, fs)
  BY <1>4, <1>5, TriedFrame
<1>7. ~Refuted(stream, Found)
  BY <1>4, <1>5, <1>6 DEF Refuted
<1>8. k <= n /\ Found = at[k]
  BY <1>1, <1>2, <1>4, <1>5, <1>7, FoundWhere
<1>9. /\ packets \in Seq(PacketSet) /\ Len(packets) \in Nat
      /\ k \in 1..n /\ k \in Nat /\ n \in Nat
  BY <1>1, <1>4, <1>8, LenProperties DEF IInv
<1>10. /\ Packet(Frame) = input.sent[k] /\ fs \in Nat /\ fs >= 25
       /\ at[k] \in Nat /\ Behind(at[k], input.sent[k]) = at[k] + fs
  <2>1. stream \in Seq(Byte)
    BY StreamType DEF IInv
  <2>2. /\ Packet(SubSeq(rest, 1, fs)) = input.sent[k] /\ fs \in Nat
        /\ fs >= 25 /\ at[k] \in Nat
        /\ Behind(at[k], input.sent[k]) = at[k] + fs
    BY <1>1, <1>2, <1>4, <1>8, <1>9, <2>1, SentFrame
  <2> QED
    BY <1>6, <2>2
<1>11. Base' = Found + fs - 1 /\ Base <= Base' /\ Base \in Nat /\ Base' \in Nat
  <2>1. /\ Base' = fed - Len(Marked) + FrameSize(Marked)
        /\ Base <= fed - Len(Marked) /\ fed - Len(Marked) \in Nat
    BY FrameInStream
  <2>2. Base \in Nat /\ fed \in Nat /\ Base' \in Nat
    BY StreamType, NextBase DEF IInv
  <2>3. Len(Marked) \in Nat
    BY <1>5, FrameProperties
  <2> QED
    BY <1>6, <1>10, <2>1, <2>2, <2>3 DEF Found
<1>12. Behind(at[k], input.sent[k]) = Base' + 1
  BY <1>8, <1>10, <1>11
<1>13. /\ Len(packets') = k /\ packets'[k] = input.sent[k]
       /\ \A i \in 1..k - 1 : packets'[i] = packets[i]
  <2>1. Packet(Frame) \in PacketSet
    <3>1. Frame \in Seq(Byte) /\ Len(Frame) >= HeaderSize + 1
      BY <1>5, FrameProperties
    <3> QED
      BY <3>1, PacketType
  <2>2. /\ Len(packets') = Len(packets) + 1
        /\ packets'[Len(packets) + 1] = Packet(Frame)
        /\ \A i \in 1..Len(packets) : packets'[i] = packets[i]
    BY <1>5, <1>9, <2>1, AppendProperties
  <2>3. k - 1 = Len(packets)
    BY <1>4, <1>9
  <2> QED
    BY <1>4, <1>10, <2>2, <2>3
<1>14. ASSUME NEW i \in 1..k
       PROVE  /\ packets'[i] = input.sent[i]
              /\ Behind(at[i], input.sent[i]) <= Base' + 1
  <2>1. CASE i = k
    BY <1>11, <1>12, <1>13, <2>1
  <2>2. CASE i # k
    <3>1. i \in 1..k - 1 /\ i \in 1..Len(packets) /\ i \in 1..n
      BY <1>4, <1>9, <2>2
    <3>2. packets'[i] = input.sent[i]
      BY <1>13, <3>1 DEF Reached
    <3>3. Behind(at[i], input.sent[i]) <= Base + 1
      BY <3>1 DEF Reached
    <3>4. PICK gs, e : /\ gs = FrameSize(From(stream, at[i]))
                       /\ e = Behind(at[i], input.sent[i])
      OBVIOUS
    <3>5. gs \in Nat /\ at[i] \in Nat /\ e = at[i] + gs
      BY <1>1, <1>2, <1>4, <3>1, <3>4, SentFrame, StreamType DEF IInv
    <3> QED
      BY <1>11, <3>2, <3>3, <3>4, <3>5
  <2> QED
    BY <2>1, <2>2
<1>15. ASSUME NEW i \in k + 1..n
       PROVE  Base' < at[i]
  <2>1. i \in 1..n /\ k < i
    BY <1>9
  <2>2. Behind(at[k], input.sent[k]) <= at[i]
    BY <1>2, <1>4, <1>9, <2>1 DEF Placed
  <2>3. at[i] \in Nat
    BY <1>2, <1>4, <2>1 DEF Placed
  <2> QED
    BY <1>11, <1>12, <2>2, <2>3
<1>16. input' = input
  BY <1>0
<1> QED
  BY <1>4, <1>8, <1>13, <1>14, <1>15, <1>16 DEF Reached

LEMMA InOrderStep ==
  ASSUME IInv, IInv', InOrder, [Next]_vars
  PROVE  InOrder'
<1>1. CASE Feed \/ DecodeReset \/ DecodeNil \/ DecodePanic \/ DecodeSkip
  BY <1>1, InOrderKept
<1>2. CASE DecodePacket
  BY <1>2, InOrderDelivers
<1>3. CASE UNCHANGED vars
  BY <1>3 DEF vars, InOrder, Reached, Base, stream
<1> QED
  BY <1>1, <1>2, <1>3 DEF Next, Decode

\* Nothing is left in the decoder once everything has arrived.
LEMMA InOrderDone ==
  ASSUME IInv, InOrder
  PROVE  DeliversInOrder
<1> SUFFICES ASSUME ~cut
             PROVE  /\ IsPrefix(packets, input.sent)
                    /\ fed = Len(stream) /\ pc = "read" => packets = input.sent
  BY DEF DeliversInOrder
<1>1. PICK at : Placed(stream, input.sent, at) /\ Reached(at)
  BY DEF InOrder
<1>2. PICK k, sent, n : k = Len(packets) /\ sent = input.sent /\ n = Len(sent)
  OBVIOUS
<1>3. /\ sent \in Seq(Answers) /\ packets \in Seq(PacketSet)
      /\ k \in Nat /\ n \in Nat /\ k <= n
      /\ \A i \in 1..k : packets[i] = sent[i]
  BY <1>1, <1>2, LenProperties DEF InOrder, IInv, Reached
<1>4. PICK S : S = PacketSet \cup Answers
  OBVIOUS
<1>5. sent \in Seq(S) /\ packets \in Seq(S)
  BY <1>3, <1>4, SeqMonotonic
<1>6. SubSeq(sent, 1, k) = packets
  <2>1. SubSeq(packets, 0 + 1, 0 + k) = SubSeq(sent, 0 + 1, 0 + k)
    <3>1. 0 \in Nat /\ 0 + k <= Len(packets) /\ 0 + k <= Len(sent)
      BY <1>2, <1>3
    <3>2. \A i \in 1..k : packets[0 + i] = sent[0 + i]
      BY <1>3
    <3> QED
      BY <1>3, <1>5, <3>1, <3>2, EqualParts
  <2>2. SubSeq(packets, 1, k) = packets
    BY <1>2, <1>3, SubSeqFull
  <2>3. 0 + 1 = 1 /\ 0 + k = k
    BY <1>3
  <2> QED
    BY <2>1, <2>2, <2>3
<1>7. IsPrefix(packets, sent)
  BY <1>2, <1>3, <1>6 DEF IsPrefix
<1>8. ASSUME fed = Len(stream), pc = "read" PROVE packets = sent
  <2>1. /\ stream \in Seq(Byte) /\ Len(stream) \in Nat
        /\ buf \in Seq(Byte) /\ Len(buf) \in Nat
        /\ Base \in Nat /\ Base + Len(buf) = fed
    BY StreamType DEF IInv
  <2>2. buf = <<>>
    <3> SUFFICES ASSUME buf # <<>> PROVE FALSE
      OBVIOUS
    <3>1. /\ Len(buf) >= 2 /\ buf[1] = StartMarker1 /\ buf[2] = StartMarker2
          /\ ~HasData(buf)
      BY <1>8 DEF IInv, WaitsForBytes
    \* What is left starts with the marker.
    <3>2. PICK x : x = Base + 1
      OBVIOUS
    <3>3. x \in MarkersIn(stream) /\ Base < x /\ x < fed /\ x \in Nat
      <4>1. 1 \in 1..Len(buf) /\ 2 \in 1..Len(buf) /\ Base + 2 = x + 1
        BY <2>1, <3>1, <3>2
      <4>2. buf[1] = stream[Base + 1] /\ buf[2] = stream[Base + 2]
        BY <4>1 DEF IInv, BufIsStream
      <4>3. x \in 1..Len(stream) - 1 /\ Base < x /\ x < fed
        BY <1>8, <2>1, <3>1, <3>2
      <4> QED
        BY <3>1, <3>2, <4>1, <4>2, <4>3 DEF MarkersIn
    <3>4. HasMarker /\ Found <= x
      BY <3>3, FirstMarker
    <3>5. /\ Found \in Nat /\ Base < Found /\ Found + Len(Marked) = fed + 1
          /\ From(stream, Found) \in Seq(Byte)
          /\ Len(From(stream, Found)) = Len(stream) - Found + 1
          /\ \A j \in 1..Len(Marked) : Marked[j] = From(stream, Found)[j]
      BY <3>4, SameStretch
    <3>6. Found = x
      BY <2>1, <3>2, <3>3, <3>4, <3>5
    <3>7. PICK rest : rest = From(stream, Found)
      OBVIOUS
    <3>8. rest = buf
      <4>1. rest \in Seq(Byte) /\ Len(rest) = Len(buf)
        BY <1>8, <2>1, <3>2, <3>5, <3>6, <3>7
      <4>2. ASSUME NEW j \in 1..Len(buf) PROVE rest[j] = buf[j]
        <5>1. x \in 1..Len(stream) + 1 /\ j \in 1..Len(stream) - x + 1
              /\ x + j - 1 = Base + j
          BY <1>8, <2>1, <3>2, <3>3
        <5>2. rest[j] = stream[x + j - 1]
          BY <2>1, <3>6, <3>7, <5>1, FromProperties
        <5> QED
          BY <5>1, <5>2 DEF IInv, BufIsStream
      <4> QED
        BY <2>1, <4>1, <4>2, SeqEqual
    <3>9. \/ k + 1 <= n /\ Found = at[k + 1]
          \/ Refuted(stream, Found)
      BY <1>1, <1>2, <1>3, <3>4, FoundWhere
    <3>10. CASE Refuted(stream, Found)
      BY <3>1, <3>7, <3>8, <3>10 DEF Refuted
    <3>11. CASE k + 1 <= n /\ Found = at[k + 1]
      <4>1. k + 1 \in 1..n
        BY <1>3, <3>11
      <4>2. HasData(rest)
        BY <1>1, <1>2, <1>3, <2>1, <3>7, <3>11, <4>1, SentFrame
      <4> QED
        BY <3>1, <3>8, <4>2
    <3> QED
      BY <3>9, <3>10, <3>11
  <2>3. Base = Len(stream)
    <3>1. Len(<<>>) = 0
      OBVIOUS
    <3>2. Base = fed - 0
      BY <2>2, <3>1 DEF Base
    <3> QED
      BY <1>8, <2>1, <3>2
  <2>4. k = n
    <3> SUFFICES ASSUME k # n PROVE FALSE
      OBVIOUS
    <3>1. k + 1 \in 1..n /\ k + 1 \in k + 1..n
      BY <1>3
    <3>2. at[k + 1] \in Nat /\ at[k + 1] + 25 <= Len(stream) + 1
      BY <1>1, <1>2, <1>3, <3>1, SentPlace
    <3>3. Base < at[k + 1]
      BY <1>1, <1>2, <3>1 DEF Reached
    <3> QED
      BY <2>1, <2>3, <3>2, <3>3
  <2> QED
    BY <1>2, <1>3, <1>6, <2>4, SubSeqFull
<1> QED
  BY <1>2, <1>7, <1>8

---------------------------------------------------------------------------
(* The theorems.                                                           *)

\* d.pos and d.limit stay within what was fed, whatever the peer sends.
THEOREM DecoderTypes == Spec => []TypeOK
<1>1. IInv => TypeOK
  BY DEF IInv
<1> QED
  BY <1>1, DecoderInit, DecoderStep, PTL DEF Spec

\* Decode, for every stream and every way of cutting it: a packet is the
\* decoding of a contiguous, checksummed frame of the stream, and the frames
\* neither overlap nor change places.
THEOREM DecodesFrames == Spec => []PacketsAreFrames
<1>1. IInv => PacketsAreFrames
  BY DEF IInv
<1> QED
  BY <1>1, DecoderInit, DecoderStep, PTL DEF Spec

\* Decode returns nil only for want of bytes: run goes back to Read with an
\* empty buffer or with the beginning of one incomplete frame.
THEOREM NilMeansIncomplete == Spec => []WaitsForBytes
<1>1. IInv => WaitsForBytes
  BY DEF IInv
<1> QED
  BY <1>1, DecoderInit, DecoderStep, PTL DEF Spec

\* The loop of processPackets: every frame that Decode tries takes at least
\* two of the bytes that were fed, so it is tried at most fed \div 2 times.
THEOREM EveryRoundConsumes == Spec => []RoundsConsume
<1>1. IInv => RoundsConsume
  BY DEF IInv
<1> QED
  BY <1>1, DecoderInit, DecoderStep, PTL DEF Spec

\* EncodeResponse and Decode: what the peer encoded is delivered in order
\* and, once everything has arrived, completely, however TCP cuts the stream
\* and whatever damaged frames lie between the answers, as long as Decode can
\* tell them from frames and no read ends inside a start marker.
THEOREM AnswersArrive ==
  (\A in \in Inputs : Framed(in)) => (Spec => []DeliversInOrder)
<1> SUFFICES ASSUME \A in \in Inputs : Framed(in) PROVE Spec => []DeliversInOrder
  OBVIOUS
<1>1. Init => IInv /\ InOrder
  BY DecoderInit, InOrderInit
<1>2. IInv /\ InOrder /\ [Next]_vars => IInv' /\ InOrder'
  BY DecoderStep, InOrderStep
<1>3. IInv /\ InOrder => DeliversInOrder
  BY InOrderDone
<1> QED
  BY <1>1, <1>2, <1>3, PTL DEF Spec
============================================================================
