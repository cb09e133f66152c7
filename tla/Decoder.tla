------------------------------ MODULE Decoder ------------------------------
(***************************************************************************)
(* The frame decoder of a connection (decoder.go): run feeds it what Read  *)
(* returned and then calls Decode until it has no more packets.  TCP cuts  *)
(* the peer's byte stream into fragments of any size, so the question is   *)
(* what Decode returns for every way of cutting.                           *)
(*                                                                         *)
(* buf is the unread part of the Go buffer, d.buf[d.pos:d.limit]; the Go   *)
(* code never looks at the bytes before d.pos again, and limit is always   *)
(* the length of d.buf.  Positions here count from 1, in the code from 0.  *)
(***************************************************************************)
EXTENDS Integers, FiniteSets, SequencesExt

CONSTANTS Inputs,           \* what peers send: records [bytes, sent]
          bccIncludeStart   \* the option WithBCCIncludeStart

StartMarker1 == 35          \* 0x23
StartMarker2 == 35
HeaderSize == 24
VINLength == 17
RespSuccess == 254
EncNone == 1
readBufSize == 4096
LengthValues == 65536       \* the length field has 16 bits

Byte == 0..255

ASSUME InputsAssumption == \A in \in Inputs : in.bytes \in Seq(Byte)
ASSUME IncludeStartAssumption == bccIncludeStart \in BOOLEAN

---------------------------------------------------------------------------
(* Checksum and frame layout.                                              *)

BitSet(x, k) == (x \div 2^k) % 2 = 1

\* The exclusive or of all bytes: bit k is set when an odd number of them
\* have it.
calculateBCC(bytes) ==
  LET odd == {k \in 0..7 : Cardinality({i \in DOMAIN bytes :
                                          BitSet(bytes[i], k)}) % 2 = 1}
  IN SumSet({2^k : k \in odd})

From(s, i) == SubSeq(s, i, Len(s))

\* The two length bytes of a header, big endian.
DataLength(b) == 256 * b[23] + b[24]

\* Header, data and checksum byte.
FrameSize(b) == HeaderSize + DataLength(b) + 1

\* The standard checksum starts at the command byte, the compatible one at
\* the start marker.
verifyBCC(frame) ==
  LET n == Len(frame) IN
  \/ calculateBCC(SubSeq(frame, 3, n - 1)) = frame[n]
  \/ bccIncludeStart /\ calculateBCC(SubSeq(frame, 1, n - 1)) = frame[n]

Packet(frame) ==
  [Command |-> frame[3], Response |-> frame[4], VIN |-> SubSeq(frame, 5, 21),
   EncryptType |-> frame[22], Data |-> SubSeq(frame, 25, Len(frame) - 1)]

\* EncodeResponse for a VIN of VINLength bytes; the length is cut to 16 bits.
EncodeResponse(command, vin, encryptType, data) ==
  LET n == Len(data) % LengthValues
      enc == IF encryptType = 0 THEN EncNone ELSE encryptType
      body == <<command, RespSuccess>> \o vin
                \o <<enc, n \div 256, n % 256>> \o data
  IN <<StartMarker1, StartMarker2>> \o body \o <<calculateBCC(body)>>

---------------------------------------------------------------------------
VARIABLES input,     \* the peer's input
          fed,       \* bytes of it that Read has delivered
          buf,       \* the decoder's unread bytes
          pc,        \* "read", "decode" (inside processPackets) or "panic"
          packets,   \* history: the packets handed to handlePacket
          ends,      \* history: where in the stream each of them ends
          cut,       \* history: a start marker was cut by the end of a read
          rounds     \* history: how many frames Decode has tried

vars == <<input, fed, buf, pc, packets, ends, cut, rounds>>

stream == input.bytes

Init ==
  /\ input \in Inputs
  /\ fed = 0 /\ buf = <<>> /\ pc = "read"
  /\ packets = <<>> /\ ends = <<>> /\ cut = FALSE /\ rounds = 0

\* Mutant: the bytes a read returned are fed again.
FeedAgain ==
  /\ pc = "read"
  /\ \E n \in 1..readBufSize :
       /\ fed + n <= Len(stream)
       /\ buf' = buf \o SubSeq(stream, fed + 1, fed + n)
  /\ pc' = "decode"
  /\ UNCHANGED <<input, fed, packets, ends, cut, rounds>>

\* Read returns n > 0 bytes and Feed appends them to what is unread.
Feed ==
  /\ pc = "read"
  /\ \E n \in 1..readBufSize :
       /\ fed + n <= Len(stream)
       /\ buf' = buf \o SubSeq(stream, fed + 1, fed + n)
       /\ fed' = fed + n
  /\ pc' = "decode"
  /\ UNCHANGED <<input, packets, ends, cut, rounds>>

MarkersIn(b) ==
  {i \in 1..(Len(b) - 1) : b[i] = StartMarker1 /\ b[i + 1] = StartMarker2}

\* The first marker; 0 (the code's -1) when there is none.
findStartMarker(b) == IF MarkersIn(b) = {} THEN 0 ELSE Min(MarkersIn(b))

\* Decode from the marker on: what the loop body sees after d.pos = startIdx.
Marked == From(buf, findStartMarker(buf))

HasMarker == findStartMarker(buf) # 0

\* The header is complete, and dataLength <= d.limit-d.pos after it.
HasData(b) ==
  Len(b) >= HeaderSize /\ DataLength(b) <= Len(b) - HeaderSize

\* No marker: Reset drops everything, a first half of a marker included.
DecodeReset ==
  /\ pc = "decode" /\ ~HasMarker
  /\ buf' = <<>>
  /\ pc' = "read"
  /\ cut' = (cut \/ (buf # <<>> /\ Last(buf) = StartMarker1
                       /\ fed < Len(stream) /\ stream[fed + 1] = StartMarker2))
  /\ UNCHANGED <<input, fed, packets, ends, rounds>>

\* Mutant: the bytes before the marker are kept.
DecodeNilKeeps ==
  /\ pc = "decode" /\ HasMarker /\ ~HasData(Marked)
  /\ pc' = "read"
  /\ UNCHANGED <<input, fed, buf, packets, ends, cut, rounds>>

DecodeNil ==
  /\ pc = "decode" /\ HasMarker /\ ~HasData(Marked)
  /\ buf' = Marked
  /\ pc' = "read"
  /\ UNCHANGED <<input, fed, packets, ends, cut, rounds>>

\* d.buf[d.pos] when the data is complete and the checksum has not arrived.
DecodePanic ==
  /\ pc = "decode" /\ HasMarker /\ HasData(Marked)
  /\ Len(Marked) < FrameSize(Marked)
  /\ pc' = "panic"
  /\ UNCHANGED <<input, fed, buf, packets, ends, cut, rounds>>

AtFrame ==
  /\ pc = "decode" /\ HasMarker /\ HasData(Marked)
  /\ Len(Marked) >= FrameSize(Marked)

Frame == SubSeq(Marked, 1, FrameSize(Marked))

\* Mutant: a frame with a bad checksum is dropped whole.
DecodeSkipFrame ==
  /\ AtFrame /\ ~verifyBCC(Frame)
  /\ buf' = From(Marked, FrameSize(Marked) + 1)
  /\ rounds' = rounds + 1
  /\ UNCHANGED <<input, fed, pc, packets, ends, cut>>

\* Mutant: the search goes on at the marker itself.
DecodeSkipNothing ==
  /\ AtFrame /\ ~verifyBCC(Frame)
  /\ buf' = Marked
  /\ rounds' = rounds + 1
  /\ UNCHANGED <<input, fed, pc, packets, ends, cut>>

\* A bad checksum: go on two bytes after the marker.
DecodeSkip ==
  /\ AtFrame /\ ~verifyBCC(Frame)
  /\ buf' = From(Marked, 3)
  /\ rounds' = rounds + 1
  /\ UNCHANGED <<input, fed, pc, packets, ends, cut>>

\* Mutant: the checksum byte is not consumed.
DecodePacketLeaves ==
  /\ AtFrame /\ verifyBCC(Frame)
  /\ buf' = From(Marked, FrameSize(Marked))
  /\ packets' = Append(packets, Packet(Frame))
  /\ ends' = Append(ends, fed - Len(buf'))
  /\ rounds' = rounds + 1
  /\ UNCHANGED <<input, fed, pc, cut>>

DecodePacket ==
  /\ AtFrame /\ verifyBCC(Frame)
  /\ buf' = From(Marked, FrameSize(Marked) + 1)
  /\ packets' = Append(packets, Packet(Frame))
  /\ ends' = Append(ends, fed - Len(buf'))
  /\ rounds' = rounds + 1
  /\ UNCHANGED <<input, fed, pc, cut>>

Decode ==
  DecodeReset \/ DecodeNil \/ DecodePanic \/ DecodeSkip \/ DecodePacket

Next == Feed \/ Decode

Spec == Init /\ [][Next]_vars

---------------------------------------------------------------------------
(* Properties.                                                             *)

\* The unread bytes are never more than what was fed.
TypeOK ==
  /\ input \in Inputs
  /\ fed \in 0..Len(stream)
  /\ buf \in Seq(Byte) /\ Len(buf) <= fed
  /\ pc \in {"read", "decode", "panic"}
  /\ Len(packets) = Len(ends) /\ ends \in Seq(0..fed)
  /\ cut \in BOOLEAN /\ rounds \in Nat

FrameStart(i) == ends[i] - (HeaderSize + Len(packets[i].Data) + 1) + 1

\* Feed and Decode: however the stream was cut, every packet is the decoding
\* of a contiguous, checksummed frame of the stream, and frames neither
\* overlap nor change places.
PacketsAreFrames ==
  \A i \in 1..Len(packets) :
    LET frame == SubSeq(stream, FrameStart(i), ends[i]) IN
    /\ FrameStart(i) > (IF i = 1 THEN 0 ELSE ends[i - 1])
    /\ frame[1] = StartMarker1 /\ frame[2] = StartMarker2
    /\ verifyBCC(frame) /\ packets[i] = Packet(frame)

\* Decode returns nil only for want of bytes: when run goes back to Read the
\* decoder holds nothing, or the beginning of one frame that is not complete.
WaitsForBytes ==
  pc = "read" =>
    \/ buf = <<>>
    \/ /\ Len(buf) >= 2 /\ buf[1] = StartMarker1 /\ buf[2] = StartMarker2
       /\ ~HasData(buf)

\* What EncodeResponse is given when its length field can hold the length.
Answers ==
  {p \in [Command : Byte, Response : {RespSuccess}, VIN : Seq(Byte),
          EncryptType : Byte \ {0}, Data : Seq(Byte)] :
     Len(p.VIN) = VINLength /\ Len(p.Data) < LengthValues}

Encoded(p) == EncodeResponse(p.Command, p.VIN, p.EncryptType, p.Data)

\* Behind the last byte of the frame of p that starts at i.
Behind(i, p) == i + HeaderSize + Len(p.Data) + 1

\* Decode can tell that no frame starts at the marker m: its length says how
\* far to read, that much is there, and the checksum is wrong.
Refuted(b, m) ==
  LET rest == From(b, m) IN
  /\ HasData(rest) /\ FrameSize(rest) <= Len(rest)
  /\ ~verifyBCC(SubSeq(rest, 1, FrameSize(rest)))

\* The answers sent lie at the positions at, one behind the other, and each
\* start marker in front of, between or behind them can be refuted.  A byte
\* 0x23 directly in front of a frame makes a marker that takes the first byte
\* of the frame away: Decode goes on two bytes after it.
Placed(bytes, sent, at) ==
  /\ \A i \in 1..Len(sent) :
       /\ at[i] \in Nat \ {0} /\ Behind(at[i], sent[i]) <= Len(bytes) + 1
       /\ SubSeq(bytes, at[i], Behind(at[i], sent[i]) - 1) = Encoded(sent[i])
       /\ \A j \in 1..Len(sent) : i < j => Behind(at[i], sent[i]) <= at[j]
  /\ \A m \in MarkersIn(bytes) :
       \/ \E i \in 1..Len(sent) : at[i] <= m /\ m < Behind(at[i], sent[i])
       \/ /\ Refuted(bytes, m)
          /\ \A i \in 1..Len(sent) : m + 1 # at[i]

Framed(in) ==
  /\ in.sent \in Seq(Answers)
  /\ \E at \in [1..Len(in.sent) -> 1..Len(in.bytes)] :
       Placed(in.bytes, in.sent, at)

\* The decoder delivers what the peer encoded with EncodeResponse, in order
\* and, once everything has arrived, completely, unless the end of a read
\* cut a start marker in two.
DeliversInOrder ==
  ~cut =>
    /\ IsPrefix(packets, input.sent)
    /\ fed = Len(stream) /\ pc = "read" => packets = input.sent

\* processPackets ends: every frame that Decode tries, delivered or given up,
\* takes at least its start marker out of the buffer for good, so that no
\* bytes can keep the goroutine from returning to Read.
RoundsConsume == 2 * rounds + Len(buf) <= fed

\* decoder_test.go:134, of a part of a frame: "should be nil with partial data".
\* Decode never indexes beyond the bytes it holds.
NoPanic == pc # "panic"

\* decoder_test.go:143, after both parts of a frame are fed: "pkt is nil after
\* full data" is a failure, whatever the place of the cut.
DeliversAll ==
  fed = Len(stream) /\ pc = "read" => packets = input.sent
============================================================================
