----------------------------- MODULE MCDecoder -----------------------------
(***************************************************************************)
(* Byte streams for Decoder: frames of EncodeResponse, among them one with *)
(* a start marker in its data, mixed with what a decoder has to survive.   *)
(***************************************************************************)
EXTENDS Decoder

Vin == [i \in 1..VINLength |-> 65]

Pkt(command, encryptType, data) ==
  [Command |-> command, Response |-> RespSuccess, VIN |-> Vin,
   EncryptType |-> encryptType, Data |-> data]

Heartbeat == Pkt(7, EncNone, <<>>)
Marker == Pkt(2, 3, <<35, 35, 9>>)

\* A frame whose checksum was damaged, a frame that breaks off after its
\* header, and bytes that are no frame.  A damaged frame with a marker in its
\* data is left out: the decoder takes what follows for a header and may wait
\* for up to 65535 bytes before it finds the next frame.
Damaged == [Encoded(Heartbeat) EXCEPT ![25] = (@ + 1) % 256]
BrokenOff == SubSeq(Encoded(Marker), 1, HeaderSize)
Noise == <<35, 0, 1>>

MCInputs ==
  {[bytes |-> Encoded(Heartbeat) \o Encoded(Marker),
    sent |-> <<Heartbeat, Marker>>],
   [bytes |-> Noise \o Damaged \o Encoded(Marker), sent |-> <<Marker>>],
   [bytes |-> BrokenOff \o Encoded(Heartbeat) \o Noise \o Encoded(Heartbeat),
    sent |-> <<Heartbeat, Heartbeat>>]}

\* The streams are of the kind the theorem AnswersArrive is about.
ASSUME MCInputsFramed == \A in \in MCInputs : Framed(in)
============================================================================
