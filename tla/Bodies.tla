------------------------------- MODULE Bodies -------------------------------
(***************************************************************************)
(* The bodies of the login, logout, platform and parameter commands        *)
(* (decoder.go, conn.go): the encoders of the Send methods and the         *)
(* decoders that handlePacket calls.                                       *)
(***************************************************************************)
EXTENDS Wire

CONSTANT TimeCodec  \* the codec of the terminals, named with WithTimeCodec

ASSUME TimeCodecAssumption == TimeCodec \in {"BCD", "Binary"}

\* What bodies hold: times of this century, whose parts have two digits,
\* strings and lists whose length fits its byte, 32-bit identifiers.
Times ==
  {t \in [1..6 -> Nat] : t[1] \in 2000..2099 /\ \A i \in 2..6 : t[i] <= 99}
Strings == {s \in Seq(Byte) : Len(s) <= 255}
Word == {n \in Nat : n < 65536}
LongWord == {n \in Nat : n \div 65536 \in Word}
ParamLists(ids) ==
  {l \in Seq([id : ids, value : Strings]) : Len(l) <= 255}

\* A string with its length in one byte.
EncodeParamString(s) == <<Len(s) % 256>> \o s

\* The string at p and the bytes it takes; one that does not fit is empty and
\* takes none.
decodeParamString(d, p) ==
  IF Len(d) - p < 1 \/ p + 1 + d[p + 1] > Len(d) THEN [s |-> <<>>, n |-> 0]
  ELSE [s |-> Slice(d, p + 1, p + 1 + d[p + 1]), n |-> 1 + d[p + 1]]

\* Mutant: a value that does not fit is filled up with zeros.
TLVsFilled(d, p, count, head) ==
  LET fits(q) == q + head <= Len(d)
      start[i \in 1..count] ==
        IF i = 1 THEN p
        ELSE LET q == start[i - 1] IN
             IF fits(q) THEN q + head + d[q + head] ELSE q
      byte(q) == IF q <= Len(d) THEN d[q] ELSE 0
  IN [i \in {j \in 1..count : fits(start[j])} |->
        LET q == start[i] IN
        [id |-> Uint(d, q, head - 1),
         value |-> [j \in 1..d[q + head] |-> byte(q + head + j)]]]

\* Items of an identifier, a length byte and a value, from p on.  The loop
\* stops at the first that does not fit, where all later ones would start.
TLVs(d, p, count, head) ==
  LET fits(q) == q + head <= Len(d) /\ q + head + d[q + head] <= Len(d)
      start[i \in 1..count] ==
        IF i = 1 THEN p
        ELSE LET q == start[i - 1] IN
             IF fits(q) THEN q + head + d[q + head] ELSE q
  IN [i \in {j \in 1..count : fits(start[j])} |->
        LET q == start[i] IN
        [id |-> Uint(d, q, head - 1),
         value |-> Slice(d, q + head, q + head + d[q + head])]]

EncodeTLVs(items, w) ==
  FlattenSeq([i \in DOMAIN items |->
                PutUint(items[i].id, w) \o EncodeParamString(items[i].value)])

---------------------------------------------------------------------------
(* Decoders.                                                               *)

DecodeLoginData(d) ==
  IF Len(d) < 9 \/ 9 + d[9] > Len(d) THEN Malformed
  ELSE LET p == 9 + d[9]
           count == IF p < Len(d) THEN d[p + 1] ELSE 0
       IN Decoded([time |-> decodeTime6(Slice(d, 0, 6)), seq |-> U16(d, 6),
                   iccid |-> Slice(d, 9, p), count |-> count,
                   list |-> TLVs(d, p + 1, count, 2)])

DecodeLogoutData(d) ==
  IF Len(d) < 8 THEN Malformed
  ELSE Decoded([time |-> decodeTime6(Slice(d, 0, 6)), seq |-> U16(d, 6)])

DecodePlatLogoutResponse(d) == DecodeLogoutData(d)

\* Mutant: the length byte of the user name is not counted.
DecodePlatLoginShift(d) ==
  IF Len(d) < 8 THEN Malformed
  ELSE LET user == decodeParamString(d, 8)
           password == decodeParamString(d, 8 + Len(user.s))
       IN Decoded([time |-> decodeTime6(Slice(d, 0, 6)), seq |-> U16(d, 6),
                   user |-> user.s, password |-> password.s])

DecodePlatLoginResponse(d) ==
  IF Len(d) < 8 THEN Malformed
  ELSE LET user == decodeParamString(d, 8)
           password == decodeParamString(d, 8 + user.n)
       IN Decoded([time |-> decodeTime6(Slice(d, 0, 6)), seq |-> U16(d, 6),
                   user |-> user.s, password |-> password.s])

DecodeParamQueryData(d) ==
  IF Len(d) < 7 THEN Malformed
  ELSE Decoded([time |-> decodeTime6(Slice(d, 0, 6)), count |-> d[7],
                ids |-> [i \in 1..Min({d[7], (Len(d) - 7) \div 4}) |->
                           U32(d, 4 * i + 3)]])

DecodeParamSettingData(d) ==
  IF Len(d) < 7 THEN Malformed
  ELSE Decoded([time |-> decodeTime6(Slice(d, 0, 6)), count |-> d[7],
                list |-> TLVs(d, 7, d[7], 5)])

---------------------------------------------------------------------------
(* Encoders.  b is the record that the decoder of the body is to give.     *)

SendPlatLogin(b) ==
  encodeTime6(b.time) \o <<0, 0>>
    \o EncodeParamString(b.user) \o EncodeParamString(b.password)

SendPlatLogout(b) == encodeTime6(b.time) \o <<0, 0>>

SendParamQuery(b) ==
  encodeTime6(b.time) \o <<Len(b.ids) % 256>>
    \o FlattenSeq([i \in DOMAIN b.ids |-> PutUint(b.ids[i], 4)])

SendParamSetting(b) ==
  encodeTime6(b.time) \o <<Len(b.list) % 256>> \o EncodeTLVs(b.list, 4)

\* The count is the handler's, not the length of its list.
sendParamQueryResponse(b) == <<b.count>> \o EncodeTLVs(b.list, 4)

EncodeLoginResponse(b) ==
  encodeTime6(b.time) \o PutUint(b.seq, 2) \o <<b.result>> \o b.token

\* A terminal reads a parameter answer, and a login response, whose token is
\* the rest of it.
ReadParamAnswer(d) ==
  IF Len(d) < 1 THEN Malformed
  ELSE Decoded([count |-> d[1], list |-> TLVs(d, 1, d[1], 5)])

ReadLoginResponse(d) ==
  IF Len(d) < 9 THEN Malformed
  ELSE Decoded([time |-> parseBCDTime6(Slice(d, 0, 6)), seq |-> U16(d, 6),
                result |-> d[9], token |-> Slice(d, 9, Len(d))])

\* A terminal's times, login and logout.
EncodeTime(t) ==
  IF TimeCodec = "Binary" THEN encodeBinaryTime6(t) ELSE encodeBCDTime(t)

EncodeLogin(b) ==
  EncodeTime(b.time) \o PutUint(b.seq, 2) \o EncodeParamString(b.iccid)
    \o <<Len(b.list)>> \o EncodeTLVs(b.list, 1)

EncodeLogout(b) == EncodeTime(b.time) \o PutUint(b.seq, 2)

BodyKinds == {"login", "logout", "platlogin", "platlogout", "paramquery",
              "paramsetting", "paramanswer", "loginresponse"}

\* The bodies a sender may send.  An answer to a parameter query counts its
\* list right.
BodiesOf(kind) ==
  CASE kind = "login" ->
         {b \in [time : Times, seq : Word, iccid : Strings, count : Byte,
                 list : ParamLists(Byte)] : b.count = Len(b.list)}
    [] kind = "logout" -> [time : Times, seq : Word]
    [] kind = "platlogin" ->
         [time : Times, seq : {0}, user : Strings, password : Strings]
    [] kind = "platlogout" -> [time : Times, seq : {0}]
    [] kind = "paramquery" ->
         {b \in [time : Times, count : Byte, ids : Seq(LongWord)] :
            b.count = Len(b.ids)}
    [] kind = "paramsetting" ->
         {b \in [time : Times, count : Byte, list : ParamLists(LongWord)] :
            b.count = Len(b.list)}
    [] kind = "paramanswer" ->
         {b \in [count : Byte, list : ParamLists(LongWord)] :
            b.count = Len(b.list)}
    [] kind = "loginresponse" ->
         [time : Times, seq : Word, result : Byte, token : Seq(Byte)]

EncodeBody(kind, b) ==
  CASE kind = "login" -> EncodeLogin(b)
    [] kind = "logout" -> EncodeLogout(b)
    [] kind = "platlogin" -> SendPlatLogin(b)
    [] kind = "platlogout" -> SendPlatLogout(b)
    [] kind = "paramquery" -> SendParamQuery(b)
    [] kind = "paramsetting" -> SendParamSetting(b)
    [] kind = "paramanswer" -> sendParamQueryResponse(b)
    [] kind = "loginresponse" -> EncodeLoginResponse(b)

\* The decoder that handlePacket calls for the command; a parameter answer and
\* a login response are the server's, and their reader is the terminal.
\* handlePacket reads CmdParamQueryResp like CmdParamQuery, as "paramquery".
DecodeBody(kind, d) ==
  CASE kind = "login" -> DecodeLoginData(d)
    [] kind = "logout" -> DecodeLogoutData(d)
    [] kind = "platlogout" -> DecodePlatLogoutResponse(d)
    [] kind = "platlogin" -> DecodePlatLoginResponse(d)
    [] kind = "paramquery" -> DecodeParamQueryData(d)
    [] kind = "paramsetting" -> DecodeParamSettingData(d)
    [] kind = "paramanswer" -> ReadParamAnswer(d)
    [] kind = "loginresponse" -> ReadLoginResponse(d)

============================================================================
