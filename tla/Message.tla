------------------------------ MODULE Message ------------------------------
(***************************************************************************)
(* What handlePacket makes of the data of a packet: decryption, and the    *)
(* parsing of the body.  Most bodies are decoded in one step (Bodies).     *)
(* Realtime and reissue messages (message.go, codec/) take many: a message *)
(* is a time followed by fields, each an identifier byte and a body whose  *)
(* length findFieldEnd works out from counts inside it; reissue puts       *)
(* several such items one after the other with nothing between them.  Two  *)
(* pieces of code must agree on every length: findFieldEnd, which cuts,    *)
(* and the decoders of codec, which read.                                  *)
(*                                                                         *)
(* A decoded struct is the sequence of the numbers of its fields in the    *)
(* order of their declaration.                                             *)
(***************************************************************************)
EXTENDS Bodies

CONSTANT Messages   \* the messages sent: [kind, items] or [kind, body]

FieldVehicle == 1
FieldMotor == 2
FieldFuelCell == 3
FieldEngine == 4
FieldPosition == 5
FieldExtreme == 6
FieldAlarm == 7
FieldVoltage == 8
FieldTemperature == 9

FieldIDs == 1..9

\* An item has a time and fields, with any identifiers and any bytes.
IsItem(it) ==
  /\ it.time \in Times
  /\ it.fields \in Seq(ToSet(it.fields))
  /\ \A j \in DOMAIN it.fields :
       it.fields[j].id \in Byte /\ it.fields[j].body \in Seq(Byte)

ASSUME MessagesAssumption ==
  \A m \in Messages :
    \/ m.kind \in BodyKinds /\ m.body \in BodiesOf(m.kind)
    \/ /\ m.kind \in {"realtime", "reissue"}
       /\ Len(m.items) \in (IF m.kind = "realtime" THEN {1} ELSE Word \ {0})
       /\ DOMAIN m.items = 1..Len(m.items)
       /\ \A i \in DOMAIN m.items : IsItem(m.items[i])

---------------------------------------------------------------------------
(* The decoders of codec.                                                  *)

DecodeVehicleData(b) ==
  IF Len(b) < 20 THEN Malformed
  ELSE Decoded(Struct(b, 0, <<1, 1, 1, 2, 4, 2, 2, 1, 1, 1, 2, 2>>))

\* A motor that is announced and not there is all zeros.
DecodeMotorData(b) ==
  IF Len(b) < 1 THEN Malformed
  ELSE Decoded([i \in 1..b[1] |->
                  IF 1 + 12 * i <= Len(b)
                  THEN Struct(b, 12 * i - 11, <<1, 1, 1, 2, 2, 1, 2, 2>>)
                  ELSE [j \in 1..8 |-> 0]])

DecodeFuelCellData(b) ==
  IF Len(b) < 8 \/ Len(b) < 8 + U16(b, 6) + 13 THEN Malformed
  ELSE LET probes == U16(b, 6) IN
       Decoded([head |-> Struct(b, 0, <<2, 2, 2, 2>>),
                probes |-> Slice(b, 8, 8 + probes),
                tail |-> Struct(b, 8 + probes, <<2, 1, 2, 1, 2, 1, 2, 1, 1>>)])

DecodeEngineData(b) ==
  IF Len(b) < 5 THEN Malformed ELSE Decoded(Struct(b, 0, <<1, 2, 2>>))

DecodePositionData(b) ==
  IF Len(b) < 8 THEN Malformed ELSE Decoded(Struct(b, 0, <<4, 4>>))

DecodeExtremeData(b) ==
  IF Len(b) < 10 THEN Malformed
  ELSE Decoded(Struct(b, 0, <<2, 1, 2, 1, 1, 1, 1, 1>>))

DecodeAlarmData(b) ==
  IF Len(b) < 5 \/ U32(b, 1) > Len(b) - 5 THEN Malformed
  ELSE Decoded([head |-> Struct(b, 0, <<1, 4>>),
                bytes |-> Slice(b, 5, 5 + U32(b, 1))])

\* The units of the block at p that are there: a head ends with their count,
\* and some of them may be missing at the end of the field.
UnitsThere(b, p, head, unit) ==
  Min({U16(b, p + head - 2), (Len(b) - p - head) \div unit})

\* Where the announced blocks of a list start; the loop stops at the first
\* head that does not fit.
BlockStarts(b, head, unit) ==
  LET start[i \in 1..U16(b, 0)] ==
        IF i = 1 THEN 2
        ELSE LET p == start[i - 1] IN
             IF p + head > Len(b) THEN p
             ELSE p + head + unit * UnitsThere(b, p, head, unit)
  IN [i \in {j \in DOMAIN start : start[j] + head <= Len(b)} |-> start[i]]

DecodeVoltageData(b) ==
  IF Len(b) < 2 THEN Malformed
  ELSE LET starts == BlockStarts(b, 7, 3)
           cells(p) == [j \in 1..UnitsThere(b, p, 7, 3) |->
                          Struct(b, p + 3 * j + 4, <<1, 2>>)]
       IN Decoded([count |-> U16(b, 0),
                   subs |-> [i \in DOMAIN starts |->
                               [head |-> Struct(b, starts[i], <<1, 2, 2, 2>>),
                                cells |-> cells(starts[i])]]])

DecodeTemperatureData(b) ==
  IF Len(b) < 2 THEN Malformed
  ELSE LET starts == BlockStarts(b, 3, 1)
           temps(p) == Slice(b, p + 3, p + 3 + UnitsThere(b, p, 3, 1))
       IN Decoded([count |-> U16(b, 0),
                   subs |-> [i \in DOMAIN starts |->
                               [head |-> Struct(b, starts[i], <<1, 2>>),
                                temps |-> temps(starts[i])]]])

HasDecoder(id) == id \in FieldIDs

DecodeField(id, b) ==
  CASE id = FieldVehicle -> DecodeVehicleData(b)
    [] id = FieldMotor -> DecodeMotorData(b)
    [] id = FieldFuelCell -> DecodeFuelCellData(b)
    [] id = FieldEngine -> DecodeEngineData(b)
    [] id = FieldPosition -> DecodePositionData(b)
    [] id = FieldExtreme -> DecodeExtremeData(b)
    [] id = FieldAlarm -> DecodeAlarmData(b)
    [] id = FieldVoltage -> DecodeVoltageData(b)
    [] id = FieldTemperature -> DecodeTemperatureData(b)

\* RealtimeMessage: motors of several fields are appended, any other field
\* replaces an earlier one, the reserved bytes of a vehicle are dropped, and
\* a temperature has no place to go.
NoFields == [id \in FieldIDs \ {FieldTemperature} |-> <<>>]

SetField(fields, id, value) ==
  CASE id = FieldVehicle -> [fields EXCEPT ![id] = <<SubSeq(value, 1, 11)>>]
    [] id = FieldMotor -> [fields EXCEPT ![id] = @ \o value]
    [] id = FieldTemperature -> fields
    [] OTHER -> [fields EXCEPT ![id] = <<value>>]

---------------------------------------------------------------------------
(* findFieldEnd: the end of the body that starts at pos, -1 if too short.  *)

\* A list of blocks: a head of that many bytes that ends with a count of
\* units.  The loop stops at the first head that does not fit.
BlocksEnd(d, pos, head, unit) ==
  LET end[i \in 0..U16(d, pos)] ==
        IF i = 0 THEN pos + 2
        ELSE IF end[i - 1] + head > Len(d) THEN end[i - 1]
        ELSE end[i - 1] + head + unit * U16(d, end[i - 1] + head - 2)
  IN end[U16(d, pos)]

\* The shortest body whose counts can be read.
MinBody(id) ==
  CASE id = FieldVehicle -> 20
    [] id = FieldMotor -> 1
    [] id = FieldFuelCell -> 8
    [] id = FieldEngine -> 5
    [] id = FieldPosition -> 8
    [] id = FieldExtreme -> 10
    [] id = FieldAlarm -> 5
    [] id \in {FieldVoltage, FieldTemperature} -> 2

\* Mutant: the count byte of the motors is left out of their length.
findFieldEndMut(id, d, pos) ==
  IF pos + MinBody(id) > Len(d) THEN -1
  ELSE CASE id = FieldMotor -> pos + 12 * d[pos + 1]
         [] id = FieldFuelCell -> pos + 8 + U16(d, pos + 6) + 13
         [] id = FieldVoltage -> BlocksEnd(d, pos, 7, 3)
         [] id = FieldTemperature -> BlocksEnd(d, pos, 3, 1)
         [] OTHER -> pos + MinBody(id)

\* The length of an alarm is read from data[1:5], inside the item's time.
findFieldEnd(id, d, pos) ==
  IF pos + MinBody(id) > Len(d) THEN -1
  ELSE CASE id = FieldMotor -> pos + 1 + 12 * d[pos + 1]
         [] id = FieldFuelCell -> pos + 8 + U16(d, pos + 6) + 13
         [] id = FieldAlarm -> pos + 5 + U32(d, 1)
         [] id = FieldVoltage -> BlocksEnd(d, pos, 7, 3)
         [] id = FieldTemperature -> BlocksEnd(d, pos, 3, 1)
         [] OTHER -> pos + MinBody(id)

---------------------------------------------------------------------------
(* What a vehicle sends: items with a time and fields, of which each has   *)
(* an id, its body, and the value that RealtimeMessage is to hold.         *)

EncodeFields(fields) ==
  FlattenSeq([i \in DOMAIN fields |-> <<fields[i].id>> \o fields[i].body])

EncodeItem(it) == EncodeTime(it.time) \o EncodeFields(it.fields)

EncodeItems(items) == FlattenSeq([i \in DOMAIN items |-> EncodeItem(items[i])])

Encode(m) ==
  IF m.kind \in BodyKinds THEN EncodeBody(m.kind, m.body)
  ELSE IF m.kind = "realtime" THEN EncodeItem(m.items[1])
  ELSE EncodeTime(m.items[1].time)
         \o <<Len(m.items) \div 256, Len(m.items) % 256>>
         \o EncodeItems(m.items)

---------------------------------------------------------------------------
VARIABLES sent,     \* the message the vehicle sent
          data,     \* pkt.Data, its encoding or a truncation of it
          pc,       \* "sealed", "start", "item", "field", and at the end
                    \* "refused" by decryption, "error" or "done"
          left,     \* items still to be read
          base,     \* where the current item starts
          pos,      \* how far it has been read
          item,     \* the current item
          msg       \* the items of the result, or the decoded body

vars == <<sent, data, pc, left, base, pos, item, msg>>

NoItem == [time |-> <<>>, fields |-> NoFields]

Multipart == sent.kind \notin BodyKinds

\* Every message arrives in clear or sealed under the session key, whole or cut
\* short by a faulty terminal.
Init ==
  /\ sent \in Messages
  /\ \E pad \in BOOLEAN :
       LET d == IF pad THEN EncryptAES128(Encode(sent)) ELSE Encode(sent)
       IN /\ \E n \in 0..Len(d) : data = Slice(d, 0, n)
          /\ pc = IF pad THEN "sealed" ELSE "start"
  /\ left = 0 /\ base = 0 /\ pos = 0
  /\ item = NoItem /\ msg = <<>>

\* handlePacket returns on an error.
Decrypt ==
  /\ pc = "sealed"
  /\ LET decrypted == DecryptAES128(data) IN
     IF decrypted.err THEN pc' = "refused" /\ UNCHANGED data
     ELSE pc' = "start" /\ data' = decrypted.value
  /\ UNCHANGED <<sent, left, base, pos, item, msg>>

\* A body that is decoded in one step.
ReadBody ==
  /\ pc = "start" /\ ~Multipart
  /\ LET body == DecodeBody(sent.kind, data) IN
     IF body.err THEN pc' = "error" /\ UNCHANGED msg
     ELSE pc' = "done" /\ msg' = <<body.value>>
  /\ UNCHANGED <<sent, data, left, base, pos, item>>

MinData == IF sent.kind = "realtime" THEN 6 ELSE 8

TooShort ==
  /\ pc = "start" /\ Multipart /\ Len(data) < MinData
  /\ pc' = "error"
  /\ UNCHANGED <<sent, data, left, base, pos, item, msg>>

\* DecodeRealtimeData is the item at offset 0; DecodeReissueData reads a time
\* and the number of items first.
Begin ==
  /\ pc = "start" /\ Multipart /\ Len(data) >= MinData
  /\ IF sent.kind = "realtime"
     THEN left' = 1 /\ base' = 0
     ELSE left' = U16(data, 6) /\ base' = 8
  /\ pc' = "item"
  /\ UNCHANGED <<sent, data, pos, item, msg>>

\* decodeRealtimeItem on data[base:]
BeginItem ==
  /\ pc = "item" /\ left > 0 /\ Len(data) - base >= 6
  /\ item' = [NoItem EXCEPT !.time = decodeTime6(Slice(data, base, base + 6))]
  /\ pos' = base + 6
  /\ pc' = "field"
  /\ UNCHANGED <<sent, data, left, base, msg>>

\* No item left, or the next one is too short.
EndItems ==
  /\ pc = "item" /\ (left = 0 \/ Len(data) - base < 6)
  /\ pc' = "done"
  /\ UNCHANGED <<sent, data, left, base, pos, item, msg>>

AtField == pos < Len(data) /\ HasDecoder(data[pos + 1])

\* findFieldEnd sees data[base:], whose offsets start at the item.
FieldEnd ==
  LET end == findFieldEnd(data[pos + 1], Slice(data, base, Len(data)),
                          pos + 1 - base)
  IN IF end = -1 THEN -1 ELSE base + end

Fits == FieldEnd # -1 /\ FieldEnd <= Len(data)

ReadField ==
  /\ pc = "field" /\ AtField /\ Fits
  /\ LET id == data[pos + 1]
         decoded == DecodeField(id, Slice(data, pos + 1, FieldEnd))
     IN item' = IF decoded.err THEN item
                ELSE [item EXCEPT !.fields = SetField(@, id, decoded.value)]
  /\ pos' = FieldEnd
  /\ UNCHANGED <<sent, data, pc, left, base, msg>>

\* Mutant: pos++ before the end of the data is checked.
EndItemPastEnd ==
  /\ pc = "field" /\ ~(AtField /\ Fits)
  /\ pos' = pos + 1
  /\ base' = pos'
  /\ msg' = Append(msg, item)
  /\ left' = left - 1
  /\ pc' = "item"
  /\ UNCHANGED <<sent, data, item>>

\* Mutant: a field that does not fit is passed over with continue.
EndItemContinue ==
  /\ pc = "field" /\ ~(AtField /\ Fits)
  /\ IF AtField
     THEN pos' = pos + 1 /\ UNCHANGED <<pc, base, msg, left>>
     ELSE /\ base' = pos /\ msg' = Append(msg, item)
          /\ left' = left - 1 /\ pc' = "item"
          /\ UNCHANGED pos
  /\ UNCHANGED <<sent, data, item>>

\* A break of the field loop; the identifier of a field that does not fit
\* has been consumed.
EndItem ==
  /\ pc = "field" /\ ~(AtField /\ Fits)
  /\ pos' = IF AtField THEN pos + 1 ELSE pos
  /\ base' = pos'
  /\ msg' = Append(msg, item)
  /\ left' = left - 1
  /\ pc' = "item"
  /\ UNCHANGED <<sent, data, item>>

Next ==
  \/ Decrypt \/ ReadBody
  \/ TooShort \/ Begin \/ BeginItem \/ EndItems \/ ReadField \/ EndItem

Spec == Init /\ [][Next]_vars

---------------------------------------------------------------------------
(* Properties.                                                             *)

\* The loops stay inside the message: no offset passes the end of the data,
\* and a slice never ends before it starts.
TypeOK ==
  /\ sent \in Messages /\ data \in Seq(Byte)
  /\ pc \in {"sealed", "refused", "start", "item", "field", "done", "error"}
  /\ left \in Word
  /\ base \in 0..Len(data) /\ pos \in 0..Len(data)
  /\ pc = "field" => base + 6 <= pos /\ (AtField /\ Fits => pos < FieldEnd)
  /\ DOMAIN item.fields = FieldIDs \ {FieldTemperature}

\* What the fields fs say of id: all motors, and the last of everything else.
OfField(fs, id) ==
  LET same == {j \in DOMAIN fs : fs[j].id = id} IN
  IF id = FieldMotor
  THEN FlattenSeq([j \in DOMAIN fs |->
                     IF j \in same THEN fs[j].value ELSE <<>>])
  ELSE IF same = {} THEN <<>> ELSE <<fs[Max(same)].value>>

\* What RealtimeMessage has a place for, which is all but the temperatures.
Held(fs) == [id \in FieldIDs \ {FieldTemperature} |-> OfField(fs, id)]

Whole == data = Encode(sent)

Uses(id) == Multipart /\ \E i \in DOMAIN sent.items :
              \E j \in DOMAIN sent.items[i].fields :
                sent.items[i].fields[j].id = id

Received(m) ==
  [i \in DOMAIN m.items |-> [time |-> m.items[i].time,
                             fields |-> Held(m.items[i].fields)]]

\* All blocks that the list b announces are there, and nothing behind them.
WholeBlocks(b, head, unit) ==
  \E end \in [0..U16(b, 0) -> 0..Len(b)] :
    /\ end[0] = 2 /\ end[U16(b, 0)] = Len(b)
    /\ \A i \in 1..U16(b, 0) :
         /\ end[i - 1] + head <= Len(b)
         /\ end[i] = end[i - 1] + head + unit * U16(b, end[i - 1] + head - 2)

\* The length of the body of a field is what its own counts say.
CountsRight(id, b) ==
  /\ Len(b) >= MinBody(id)
  /\ CASE id = FieldMotor -> Len(b) = 1 + 12 * b[1]
       [] id = FieldFuelCell -> Len(b) = 8 + U16(b, 6) + 13
       [] id = FieldAlarm -> Len(b) = 5 + U32(b, 1)
       [] id = FieldVoltage -> WholeBlocks(b, 7, 3)
       [] id = FieldTemperature -> WholeBlocks(b, 3, 1)
       [] OTHER -> Len(b) = MinBody(id)

\* A message that can be read: the fields count right, the value to be received
\* is what the decoder of the field makes of the body that was sent, and no
\* item but the first starts, with the year of its time, like a field.
Readable(m) ==
  \A i \in DOMAIN m.items :
    /\ i # 1 => EncodeTime(m.items[i].time)[1] \notin FieldIDs
    /\ \A j \in DOMAIN m.items[i].fields :
         LET f == m.items[i].fields[j]
             value == DecodeField(f.id, f.body).value
         IN /\ f.id \in FieldIDs /\ CountsRight(f.id, f.body)
            /\ f.value = IF f.id = FieldVehicle THEN SubSeq(value, 1, 11)
                         ELSE value

\* findFieldEnd agrees with the decoders: of a message that arrives whole and
\* holds no alarm, everything but the temperatures is received, item for item
\* and field for field, in order, also what stands behind a temperature.
AllButTemperatures ==
  pc = "done" /\ Multipart /\ Whole /\ ~Uses(FieldAlarm) =>
    msg = Received(sent)

\* A message cut short loses its end and nothing else: what is reported of
\* the first item is the item that was sent with some of its last fields
\* missing.  It is said of fields whose length findFieldEnd checks against the
\* data: of a voltage or a temperature it accepts a part, and the items after
\* a field that does not fit are read from the middle of that field.
NothingMadeUp ==
  /\ pc = "done" /\ Multipart /\ msg # <<>>
  /\ ~Uses(FieldAlarm) /\ ~Uses(FieldVoltage) /\ ~Uses(FieldTemperature)
  => /\ msg[1].time = sent.items[1].time
     /\ \E k \in 0..Len(sent.items[1].fields) :
          msg[1].fields = Held(SubSeq(sent.items[1].fields, 1, k))

\* The decoders of Bodies undo the encoders: a login, logout, platform or
\* parameter body that arrives whole, in clear or sealed, is received as sent,
\* with strings of up to 255 bytes and lists of any length.
BodiesReceived == pc = "done" /\ ~Multipart /\ Whole => msg = <<sent.body>>

\* DecryptAES128 undoes EncryptAES128, and no decoder refuses what an encoder
\* made: whatever arrives whole is decoded.
WholeIsDecoded ==
  /\ pc = "refused" => data # EncryptAES128(Encode(sent))
  /\ pc = "error" => ~Whole

\* got is the body b without its end: strings are whole or missing, lists lose
\* their last entries, and everything else is as in b.
LosesEnd(got, b) ==
  \A f \in DOMAIN got :
    CASE f \in {"list", "ids", "token"} -> IsPrefix(got[f], b[f])
      [] f \in {"user", "password"} -> got[f] \in {<<>>, b[f]}
      [] f = "count" -> got[f] \in {0, b[f]}
      [] OTHER -> got[f] = b[f]

\* A body cut short, also between the blocks of a sealed one, where a byte of
\* the text is taken for the padding, loses its end and nothing else: what is
\* reported was sent.
BodyNotMadeUp == pc = "done" /\ ~Multipart => LosesEnd(msg[1], sent.body)

\* decoder.go:26, TimeCodecBinary is there to be "compatible with non-standard
\* terminals": a server configured for the codec of its terminals receives
\* the time of a login as it was sent.
TimesReceived ==
  pc = "done" /\ sent.kind = "login" => msg[1].time = sent.body.time

\* README.md:23, "9 data fields: vehicle, motor, fuel cell, engine, position,
\* extreme, alarm, voltage, temperature": a message that arrives whole is
\* received as sent, whichever of the nine fields it holds.
NineFieldsReceived ==
  pc = "done" /\ Multipart /\ Whole =>
    /\ Len(msg) = Len(sent.items)
    /\ \A i \in DOMAIN msg, id \in FieldIDs :
         LET fields == msg[i].fields
         IN OfField(sent.items[i].fields, id)
              = IF id \in DOMAIN fields THEN fields[id] ELSE <<>>
============================================================================
