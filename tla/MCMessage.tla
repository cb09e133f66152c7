----------------------------- MODULE MCMessage -----------------------------
(***************************************************************************)
(* Messages for Message: every kind of field, with and without repeated    *)
(* parts, alone and in combinations.                                       *)
(***************************************************************************)
EXTENDS Message

Rep(n, b) == [i \in 1..n |-> b]

Field(id, body, value) == [id |-> id, body |-> body, value |-> value]

Time1 == <<2026, 5, 14, 10, 30, 1>>
Time2 == <<2026, 5, 14, 10, 30, 11>>

Vehicle ==
  Field(FieldVehicle,
        <<1, 3, 1, 2, 88, 0, 1, 226, 64, 14, 16, 39, 16, 85, 1, 14, 3, 232>>
          \o <<0, 0>>,
        <<1, 3, 1, 600, 123456, 3600, 10000, 85, 1, 14, 1000>>)

Motors(n) ==
  Field(FieldMotor,
        <<n>> \o FlattenSeq([i \in 1..n |->
                   <<i, 1, 60, 78, 32, 78, 52, 70, 14, 16, 39, 16>>]),
        [i \in 1..n |-> <<i, 1, 60, 20000, 20020, 70, 3600, 10000>>])

FuelCell(n) ==
  Field(FieldFuelCell,
        <<1, 44, 0, 200, 0, 10, 0, n>> \o Rep(n, 61)
          \o <<1, 14, 3, 0, 20, 4, 1, 94, 5, 0, 100, 6, 1>>,
        [head |-> <<300, 200, 10, n>>, probes |-> Rep(n, 61),
         tail |-> <<270, 3, 20, 4, 350, 5, 100, 6, 1>>])

Engine == Field(FieldEngine, <<1, 11, 184, 0, 80>>, <<1, 3000, 80>>)

Position ==
  Field(FieldPosition, <<7, 61, 138, 172, 1, 220, 157, 210>>,
        <<121473708, 31235538>>)

Extreme ==
  Field(FieldExtreme, <<16, 4, 1, 15, 160, 2, 65, 3, 40, 4>>,
        <<4100, 1, 4000, 2, 65, 3, 40, 4>>)

Alarm(n) ==
  Field(FieldAlarm, <<1, 0, 0, 0, n>> \o Rep(n, 5),
        [head |-> <<1, n>>, bytes |-> Rep(n, 5)])

\* Two subsystems, with one cell and with none.
Voltage ==
  Field(FieldVoltage,
        <<0, 2>> \o <<1, 14, 16, 39, 16, 0, 1>> \o <<1, 16, 4>>
          \o <<2, 15, 160, 0, 200, 0, 0>>,
        [count |-> 2,
         subs |-> <<[head |-> <<1, 3600, 10000, 1>>, cells |-> <<<<1, 4100>>>>],
                    [head |-> <<2, 4000, 200, 0>>, cells |-> <<>>]>>])

\* Two subsystems, with no probe and with two.
Temperature ==
  Field(FieldTemperature, <<0, 2>> \o <<1, 0, 0>> \o <<2, 0, 2, 60, 61>>,
        [count |-> 2,
         subs |-> <<[head |-> <<1, 0>>, temps |-> <<>>],
                    [head |-> <<2, 2>>, temps |-> <<60, 61>>]>>])

Realtime(fs) ==
  [kind |-> "realtime", items |-> <<[time |-> Time1, fields |-> fs]>>]

Reissue(fs, gs) ==
  [kind |-> "reissue", items |-> <<[time |-> Time1, fields |-> fs],
                                   [time |-> Time2, fields |-> gs]>>]

Fields == {Vehicle, Motors(0), Motors(2), FuelCell(0), FuelCell(2), Engine,
           Position, Extreme, Voltage, Temperature}

\* At most two fields in an item.
FieldLists == {<<>>} \cup {<<f>> : f \in Fields}
                \cup {<<f, g>> : f \in Fields, g \in Fields}

RealtimeMessages == {Realtime(fs) : fs \in FieldLists}

\* Fields whose length is fixed or checked against the data.
Checked == {Vehicle, Motors(1), FuelCell(1), Position}

ReissueMessages ==
  {Reissue(<<f>>, <<g, h>>) : f \in Checked, g \in Checked, h \in Checked}
    \cup {Reissue(<<>>, <<f>>) : f \in Checked}

---------------------------------------------------------------------------
(* Bodies: empty and full strings, no list and lists of several lengths.   *)

Text(n) == [i \in 1..n |-> 64 + (i % 26)]

Item(id, n) == [id |-> id, value |-> Rep(n, 7)]

Lists(ids) == {<<>>, <<Item(ids, 0)>>, <<Item(ids, 3), Item(1, 2)>>}

LoginBodies ==
  {[time |-> Time1, seq |-> 258, iccid |-> Text(n), count |-> Len(l),
    list |-> l] : n \in {0, 20}, l \in Lists(255)}

LogoutBodies == {[time |-> Time2, seq |-> 65535]}

PlatLoginBodies ==
  {[time |-> Time1, seq |-> 0, user |-> Text(n), password |-> Text(k)] :
     n \in {0, 5, 255}, k \in {0, 3}}

PlatLogoutBodies == {[time |-> Time2, seq |-> 0]}

ParamQueryBodies ==
  {[time |-> Time1, count |-> Len(l), ids |-> l] :
     l \in {<<>>, <<1>>, <<65536 * 256 + 3, 2, 1, 0>>}}

ParamSettingBodies ==
  {[time |-> Time1, count |-> Len(l), list |-> l] : l \in Lists(65537)}

ParamAnswerBodies ==
  {[count |-> Len(l), list |-> l] : l \in Lists(65537)}

LoginResponseBodies ==
  {[time |-> Time1, seq |-> 1, result |-> 1, token |-> Rep(n, 9)] :
     n \in {0, 7, 16}}

Body(kind, bodies) == {[kind |-> kind, body |-> b] : b \in bodies}

BodyMessages ==
  UNION {Body("login", LoginBodies), Body("logout", LogoutBodies),
         Body("platlogin", PlatLoginBodies),
         Body("platlogout", PlatLogoutBodies),
         Body("paramquery", ParamQueryBodies),
         Body("paramsetting", ParamSettingBodies),
         Body("paramanswer", ParamAnswerBodies),
         Body("loginresponse", LoginResponseBodies)}

WholeMessages == RealtimeMessages \cup ReissueMessages \cup BodyMessages

BinaryMessages == Body("login", LoginBodies)

\* A temperature is lost alone, an alarm with all that stands behind it.
NineFieldsMessages == {Realtime(<<Temperature, Engine, Alarm(2), Voltage>>)}

\* The hypothesis of the theorems about messages of items.
ASSUME MCMessagesReadable ==
  \A m \in Messages : m.kind \notin BodyKinds => Readable(m)
============================================================================
