-------------------------------- MODULE Wire --------------------------------
(***************************************************************************)
(* Bytes, numbers and times as every body of the protocol holds them, and  *)
(* the padding of encrypted bodies (decoder.go, crypto.go).                *)
(*                                                                         *)
(* Offsets start at 0 as in the code: data[p] there is d[p + 1] here.      *)
(***************************************************************************)
EXTENDS Integers, FiniteSets, SequencesExt

Byte == 0..255

\* data[from:to]
Slice(d, from, to) == SubSeq(d, from + 1, to)

\* binary.BigEndian.Uint16 at p, and binaryUint32
U16(d, p) == 256 * d[p + 1] + d[p + 2]
U32(d, p) == 65536 * U16(d, p) + U16(d, p + 2)

\* A number of one, two or four bytes.
Uint(d, p, w) ==
  CASE w = 1 -> d[p + 1]
    [] w = 2 -> U16(d, p)
    [] w = 4 -> U32(d, p)

\* binary.BigEndian.PutUint16, and the one, two or four bytes of n.
PutU16(n) == <<(n \div 256) % 256, n % 256>>
PutUint(n, w) ==
  CASE w = 1 -> <<n % 256>>
    [] w = 2 -> PutU16(n)
    [] w = 4 -> PutU16(n \div 65536) \o PutU16(n)

\* Numbers of the given widths, one after the other.
Struct(d, p, widths) ==
  LET offset(i) == FoldLeft(LAMBDA n, w : n + w, 0, SubSeq(widths, 1, i - 1))
  IN [i \in DOMAIN widths |-> Uint(d, p + offset(i), widths[i])]

\* What a decoder returns: a value, or an error.
Decoded(value) == [err |-> FALSE, value |-> value]
Malformed == [err |-> TRUE, value |-> <<>>]

---------------------------------------------------------------------------
(* Times.  A time is the six numbers handed to time.Date, which keeps      *)
(* those of a valid time as they are.                                      *)

Century(i) == IF i = 1 THEN 2000 ELSE 0

parseBCDTime6(b) ==
  [i \in 1..6 |-> Century(i) + 10 * (b[i] \div 16) + (b[i] % 16)]
parseBinaryTime6(b) == [i \in 1..6 |-> Century(i) + b[i]]

encodeBCDTime(t) ==
  [i \in 1..6 |-> LET n == t[i] - Century(i) IN 16 * (n \div 10) + (n % 10)]

encodeTime6(t) == encodeBCDTime(t)

encodeBinaryTime6(t) == [i \in 1..6 |-> t[i] % (IF i = 1 THEN 100 ELSE 256)]

\* The package functions DecodeLoginData, DecodeRealtimeData and so on, which
\* handlePacket calls, use this decoder and not the one of the connection:
\* the option WithTimeCodec does not reach them.
defaultDecoder == "BCD"

decodeTime6(b) ==
  IF defaultDecoder = "Binary" THEN parseBinaryTime6(b) ELSE parseBCDTime6(b)

---------------------------------------------------------------------------
(* Encryption.  AES in CBC mode is a library: under the right key it gives *)
(* back the padded text, and the blocks of a text cut short as far as they *)
(* arrived.  So a sealed body is its padded text.                          *)

BlockSize == 16

pkcs7Pad(d) ==
  LET n == BlockSize - (Len(d) % BlockSize) IN d \o [i \in 1..n |-> n]

\* Mutant: a padding of a whole block is taken for a wrong one.
pkcs7UnpadFull(d) ==
  IF d = <<>> THEN Malformed
  ELSE LET n == Last(d) IN
       IF n > Len(d) \/ n = 0 \/ n >= BlockSize THEN Malformed
       ELSE Decoded(Slice(d, 0, Len(d) - n))

\* Only the last byte of a padding is looked at.
pkcs7Unpad(d) ==
  IF d = <<>> THEN Malformed
  ELSE LET n == Last(d) IN
       IF n > Len(d) \/ n = 0 \/ n > BlockSize THEN Malformed
       ELSE Decoded(Slice(d, 0, Len(d) - n))

EncryptAES128(d) == pkcs7Pad(d)

DecryptAES128(d) ==
  IF Len(d) % BlockSize # 0 THEN Malformed ELSE pkcs7Unpad(d)
============================================================================
