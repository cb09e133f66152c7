----------------------------- MODULE ItemProofs -----------------------------
(***************************************************************************)
(* Realtime and reissue messages, for every set of messages that can be    *)
(* read: one that arrives whole is received item for item and field for    *)
(* field, and of one that was cut short the first item loses its last      *)
(* fields and nothing else.                                                *)
(***************************************************************************)
EXTENDS MessageProofs

---------------------------------------------------------------------------
(* What RealtimeMessage holds after one field more.                        *)

\* One more sequence at the end.
LEMMA FlattenMore ==
  ASSUME NEW S, NEW k \in Nat, NEW f \in [1..k -> Seq(S)],
         NEW g \in [1..(k + 1) -> Seq(S)], \A i \in 1..k : g[i] = f[i]
  PROVE  FlattenSeq(g) = FlattenSeq(f) \o g[k + 1] /\ FlattenSeq(f) \in Seq(S)
<1>1. f \in Seq(Seq(S)) /\ Len(f) = k
  BY FunctionSeq
<1>2. g \in Seq(Seq(S)) /\ Len(g) = k + 1
  <2>1. k + 1 \in Nat
    OBVIOUS
  <2> QED
    BY <2>1, FunctionSeq
<1>3. FlattenSeq(f) \in Seq(S)
  BY <1>1, Flattened
<1>4. PICK G : Flattens(G, S, g) /\ FlattenSeq(g) = G[k + 1]
  <2>1. Len(g) # 0
    BY <1>2
  <2>2. \E G : Flattens(G, S, g) /\ FlattenSeq(g) = G[Len(g)]
    BY <1>2, <2>1, FlattenedStepwise
  <2> QED
    BY <1>2, <2>2
<1>5. \A i \in 1..(k + 1) : /\ G[i] \in Seq(S)
                            /\ i = 1 => G[i] = g[1]
                            /\ i # 1 => G[i] = G[i - 1] \o g[i]
  BY <1>2, <1>4 DEF Flattens
<1>6. k + 1 \in 1..(k + 1) /\ g[k + 1] \in Seq(S)
  OBVIOUS
<1>7. CASE k = 0
  <2>1. FlattenSeq(f) = f /\ f = <<>>
    BY <1>1, <1>7, EmptySeq DEF FlattenSeq
  <2>2. G[k + 1] = g[k + 1]
    BY <1>5, <1>6, <1>7
  <2>3. <<>> \o g[k + 1] = g[k + 1]
    BY <1>6, ConcatEmptySeq
  <2> QED
    BY <1>3, <1>4, <2>1, <2>2, <2>3
<1>8. CASE k # 0
  <2>1. PICK F : Flattens(F, S, f) /\ FlattenSeq(f) = F[k]
    <3>1. Len(f) # 0
      BY <1>1, <1>8
    <3>2. \E F : Flattens(F, S, f) /\ FlattenSeq(f) = F[Len(f)]
      BY <1>1, <3>1, FlattenedStepwise
    <3> QED
      BY <1>1, <3>2
  <2>2. \A i \in 1..k : /\ i = 1 => F[i] = f[1]
                        /\ i # 1 => F[i] = F[i - 1] \o f[i]
    BY <1>1, <2>1 DEF Flattens
  <2> DEFINE pair == [i \in 1..k |-> <<F[i], G[i]>>]
             Same == {x \in {pair[i] : i \in 1..k} : x[1] = x[2]}
  <2>3. 1 \in Nat /\ 1 \in 1..k /\ k \in 1..k
    BY <1>8
  <2>4. pair[1] \in Same
    <3>1. F[1] = G[1]
      BY <1>5, <2>2, <2>3
    <3> QED
      BY <2>3, <3>1
  <2>5. ASSUME NEW i \in 1..k, i # 1, pair[i - 1] \in Same
        PROVE  pair[i] \in Same
    <3>1. i - 1 \in 1..k /\ i \in 1..(k + 1)
      BY <2>5
    <3>2. F[i - 1] = G[i - 1]
      <4>1. pair[i - 1] = <<F[i - 1], G[i - 1]>> /\ pair[i - 1][1] = pair[i - 1][2]
        BY <2>5, <3>1
      <4> HIDE DEF pair
      <4> QED
        BY <4>1
    <3>3. F[i] = F[i - 1] \o f[i] /\ G[i] = G[i - 1] \o g[i] /\ g[i] = f[i]
      BY <1>5, <2>2, <2>5, <3>1
    <3>4. F[i] = G[i]
      BY <3>2, <3>3
    <3> QED
      BY <3>4
  <2>6. \A i \in 1..k : pair[i] \in Same
    <3> HIDE DEF pair, Same
    <3> QED
      BY <2>3, <2>4, <2>5, StepByStep
  <2>7. F[k] = G[k]
    <3>1. pair[k] = <<F[k], G[k]>> /\ pair[k][1] = pair[k][2]
      BY <2>3, <2>6
    <3> HIDE DEF pair
    <3> QED
      BY <3>1
  <2>8. G[k + 1] = G[k] \o g[k + 1]
    <3>1. k + 1 # 1 /\ (k + 1) - 1 = k
      BY <1>8
    <3> QED
      BY <1>5, <1>6, <3>1
  <2> QED
    BY <1>3, <1>4, <2>1, <2>7, <2>8
<1> QED
  BY <1>7, <1>8

\* The fields of a list of which only the first k have been read.
FieldsIn(a, k) == DOMAIN a = 1..k

\* All motors of a list have sequences for their values.
Motored(a, S) ==
  \A j \in DOMAIN a : a[j].id = FieldMotor => a[j].value \in Seq(S)

LEMMA HeldNone == Held(<<>>) = NoFields
<1>1. ASSUME NEW id \in FieldIDs \ {FieldTemperature} PROVE Held(<<>>)[id] = <<>>
  <2> DEFINE same == {j \in DOMAIN <<>> : <<>>[j].id = id}
             f == [j \in DOMAIN <<>> |->
                     IF j \in same THEN <<>>[j].value ELSE <<>>]
  <2>1. same = {}
    OBVIOUS
  <2>2. f = <<>> /\ Len(f) = 0
    OBVIOUS
  <2>3. FlattenSeq(f) = <<>>
    <3> HIDE DEF f
    <3> QED
      BY <2>2 DEF FlattenSeq
  <2>4. Held(<<>>)[id] = IF id = FieldMotor THEN FlattenSeq(f)
                         ELSE IF same = {} THEN <<>>
                         ELSE << <<>>[Max(same)].value >>
    BY DEF Held, OfField
  <2> HIDE DEF f, same
  <2> QED
    BY <2>1, <2>3, <2>4
<1>2. Held(<<>>) = [id \in FieldIDs \ {FieldTemperature} |-> Held(<<>>)[id]]
  BY DEF Held, OfField
<1> QED
  BY <1>1, <1>2 DEF NoFields

\* What SetField is to do for one more field.
AddField(fields, f) ==
  IF f.id = FieldTemperature THEN fields
  ELSE [fields EXCEPT ![f.id] = IF f.id = FieldMotor THEN @ \o f.value
                                ELSE <<f.value>>]

LEMMA HeldMore ==
  ASSUME NEW S, NEW k \in Nat, NEW a, FieldsIn(a, k), Motored(a, S),
         NEW b, FieldsIn(b, k + 1), Motored(b, S),
         \A j \in 1..k : b[j] = a[j], b[k + 1].id \in FieldIDs
  PROVE  Held(b) = AddField(Held(a), b[k + 1])
<1> DEFINE f == b[k + 1]
           IDs == FieldIDs \ {FieldTemperature}
           same(c, id) == {j \in DOMAIN c : c[j].id = id}
           mot(c) == [j \in DOMAIN c |-> IF j \in same(c, FieldMotor)
                                         THEN c[j].value ELSE <<>>]
<1>1. \A c : Held(c) = [id \in IDs |->
                          IF id = FieldMotor THEN FlattenSeq(mot(c))
                          ELSE IF same(c, id) = {} THEN <<>>
                          ELSE <<c[Max(same(c, id))].value>>]
  BY DEF Held, OfField
<1>2. k + 1 \in 1..(k + 1) /\ k + 1 \notin 1..k /\ 1..(k + 1) = 1..k \cup {k + 1}
  OBVIOUS
<1>3. \A id : same(b, id) = IF f.id = id THEN same(a, id) \cup {k + 1}
                            ELSE same(a, id)
  BY <1>2 DEF FieldsIn
<1>4. ASSUME NEW id, f.id = id PROVE Max(same(b, id)) = k + 1
  <2>1. k + 1 \in same(b, id)
    BY <1>3, <1>4
  <2>2. \A y \in same(b, id) : y \in 1..(k + 1)
    BY DEF FieldsIn
  <2> DEFINE T == same(b, id)
  <2> HIDE DEF T
  <2>3. k + 1 \in T /\ \A y \in T : y \in Int /\ k + 1 >= y
    BY <2>1, <2>2 DEF T
  <2>4. \A x \in T : (\A y \in T : x >= y) => x = k + 1
    BY <2>3
  <2>5. Max(T) = k + 1
    BY <2>3, <2>4 DEF Max
  <2> QED
    BY <2>5 DEF T
<1>5. ASSUME NEW id, f.id # id
      PROVE  \/ same(b, id) = {} /\ same(a, id) = {}
             \/ /\ same(b, id) # {} /\ same(a, id) # {}
                /\ b[Max(same(b, id))] = a[Max(same(a, id))]
  <2>1. same(b, id) = same(a, id)
    BY <1>3, <1>5
  <2> DEFINE T == same(a, id)
  <2>2. \A j \in T : j \in 1..k /\ b[j] = a[j]
    BY DEF FieldsIn
  <2>3. CASE T # {}
    <3>1. Max(T) \in T
      <4>1. \E x \in T : \A y \in T : x >= y
        <5> DEFINE U == {k - j : j \in T}
        <5>1. U \in SUBSET Nat /\ U # {}
          BY <2>2, <2>3
        <5>2. PICK u \in U : \A y \in U : u <= y
          BY <5>1, LeastNat
        <5>3. PICK x \in T : u = k - x
          BY <5>2
        <5>4. ASSUME NEW y \in T PROVE x >= y
          <6>1. k - y \in U /\ x \in Int /\ y \in Int
            BY <2>2
          <6>2. k - x <= k - y
            BY <5>2, <5>3, <6>1
          <6> QED
            BY <6>1, <6>2
        <5> QED
          BY <5>3, <5>4
      <4> HIDE DEF T
      <4> QED
        BY <4>1 DEF Max
    <3> QED
      BY <2>1, <2>2, <2>3, <3>1
  <2> QED
    BY <2>1, <2>3
<1>6. /\ mot(a) \in [1..k -> Seq(S)] /\ mot(b) \in [1..(k + 1) -> Seq(S)]
      /\ \A i \in 1..k : mot(b)[i] = mot(a)[i]
      /\ mot(b)[k + 1] = IF f.id = FieldMotor THEN f.value ELSE <<>>
  <2>1. <<>> \in Seq(S)
    BY EmptySeq
  <2>2. mot(a) \in [1..k -> Seq(S)]
    BY <2>1 DEF FieldsIn, Motored
  <2>3. mot(b) \in [1..(k + 1) -> Seq(S)]
    BY <2>1 DEF FieldsIn, Motored
  <2>4. \A i \in 1..k : i \in 1..(k + 1) /\ b[i] = a[i]
    OBVIOUS
  <2>5. \A i \in 1..k : mot(b)[i] = mot(a)[i]
    BY <2>4 DEF FieldsIn
  <2>6. mot(b)[k + 1] = IF f.id = FieldMotor THEN f.value ELSE <<>>
    BY <1>2 DEF FieldsIn
  <2> QED
    BY <2>2, <2>3, <2>5, <2>6
<1>7. FlattenSeq(mot(b)) = IF f.id = FieldMotor
                           THEN FlattenSeq(mot(a)) \o f.value
                           ELSE FlattenSeq(mot(a))
  <2> HIDE DEF f
  <2>1. PICK ma, mb : ma = mot(a) /\ mb = mot(b)
    OBVIOUS
  <2>2. /\ FlattenSeq(mb) = FlattenSeq(ma) \o mb[k + 1]
        /\ FlattenSeq(ma) \in Seq(S)
    <3>1. /\ ma \in [1..k -> Seq(S)] /\ mb \in [1..(k + 1) -> Seq(S)]
          /\ \A i \in 1..k : mb[i] = ma[i]
      BY <1>6, <2>1
    <3> QED
      BY <3>1, FlattenMore
  <2>3. FlattenSeq(ma) \o <<>> = FlattenSeq(ma)
    BY <2>2, ConcatEmptySeq
  <2>4. mb[k + 1] = IF f.id = FieldMotor THEN f.value ELSE <<>>
    BY <1>6, <2>1
  <2> QED
    BY <2>1, <2>2, <2>3, <2>4
<1> HIDE DEF mot, same
<1>8. ASSUME NEW id \in IDs
      PROVE  Held(b)[id] = IF f.id # id THEN Held(a)[id]
                           ELSE IF id = FieldMotor THEN Held(a)[id] \o f.value
                           ELSE <<f.value>>
  <2>1. \A c : Held(c)[id] = IF id = FieldMotor THEN FlattenSeq(mot(c))
                             ELSE IF same(c, id) = {} THEN <<>>
                             ELSE <<c[Max(same(c, id))].value>>
    BY <1>1
  <2>2. CASE id = FieldMotor
    BY <1>7, <2>1, <2>2
  <2>3. CASE id # FieldMotor /\ f.id # id
    <3>1. \/ same(b, id) = {} /\ same(a, id) = {}
          \/ /\ same(b, id) # {} /\ same(a, id) # {}
             /\ b[Max(same(b, id))] = a[Max(same(a, id))]
      BY <1>5, <2>3
    <3> QED
      BY <2>1, <2>3, <3>1
  <2>4. CASE id # FieldMotor /\ f.id = id
    <3>1. Max(same(b, id)) = k + 1
      BY <1>4, <2>4
    <3>2. same(b, id) # {}
      BY <1>3, <2>4
    <3> QED
      BY <2>1, <2>4, <3>1, <3>2
  <2> QED
    BY <2>2, <2>3, <2>4
<1>9. /\ Held(a) = [id \in IDs |-> Held(a)[id]]
      /\ Held(b) = [id \in IDs |-> Held(b)[id]]
  BY DEF Held, OfField
<1> HIDE DEF f
<1>10. PICK ha, hb : ha = Held(a) /\ hb = Held(b)
  OBVIOUS
<1>11. /\ ha = [id \in IDs |-> ha[id]] /\ hb = [id \in IDs |-> hb[id]]
       /\ \A id \in IDs : hb[id] = IF f.id # id THEN ha[id]
                                   ELSE IF id = FieldMotor THEN ha[id] \o f.value
                                   ELSE <<f.value>>
  BY <1>8, <1>9, <1>10
<1>12. hb = AddField(ha, f)
  <2>1. CASE f.id = FieldTemperature
    <3>1. \A id \in IDs : hb[id] = ha[id]
      BY <1>11, <2>1
    <3>2. hb = ha
      BY <1>11, <3>1
    <3> QED
      BY <2>1, <3>2 DEF AddField
  <2>2. CASE f.id # FieldTemperature
    <3>1. PICK v : v = IF f.id = FieldMotor THEN ha[f.id] \o f.value
                       ELSE <<f.value>>
      OBVIOUS
    <3>2. AddField(ha, f) = [ha EXCEPT ![f.id] = v]
      BY <2>2, <3>1 DEF AddField
    <3>3. \A id \in IDs : hb[id] = IF f.id = id THEN v ELSE ha[id]
      BY <1>11, <3>1
    <3>4. hb = [ha EXCEPT ![f.id] = v]
      BY <1>11, <3>3
    <3> QED
      BY <3>2, <3>4
  <2> QED
    BY <2>1, <2>2
<1> QED
  BY <1>10, <1>12 DEF f

---------------------------------------------------------------------------
(* findFieldEnd finds the end of every field but an alarm.                 *)

\* All of body that d can hold behind r is there.
Agrees(d, r, body) ==
  \A i \in 1..Len(body) : r + i <= Len(d) => d[r + i] = body[i]

\* A field whose length findFieldEnd checks against the data.
CheckedIDs == FieldIDs \ {FieldAlarm, FieldVoltage, FieldTemperature}

\* The end of such a field is found even if the field does not reach it.
LEMMA CheckedEnd ==
  ASSUME NEW d \in Seq(Byte), NEW r \in Nat, NEW body \in Seq(Byte),
         Agrees(d, r, body), NEW id \in CheckedIDs, CountsRight(id, body)
  PROVE  findFieldEnd(id, d, r) = IF r + MinBody(id) > Len(d) THEN -1
                                  ELSE r + Len(body)
<1>0. Len(d) \in Nat /\ Len(body) \in Nat
  BY LenProperties
<1>1. CASE r + MinBody(id) > Len(d)
  BY <1>1 DEF findFieldEnd
<1>2. CASE ~(r + MinBody(id) > Len(d))
  <2>1. CASE id = FieldMotor
    <3>0. MinBody(id) = 1 /\ Len(body) = 1 + 12 * body[1] /\ Len(body) >= 1
      BY <2>1 DEF CountsRight, MinBody, FieldVehicle, FieldMotor,
         FieldFuelCell, FieldEngine, FieldPosition, FieldExtreme, FieldAlarm,
         FieldVoltage, FieldTemperature
    <3>1. r + 1 <= Len(d) /\ Len(body) >= 1 /\ Len(body) = 1 + 12 * body[1]
      BY <1>0, <1>2, <3>0
    <3>2. d[r + 1] = body[1] /\ 1 \in 1..Len(body)
      BY <1>0, <3>1 DEF Agrees
    <3>3. body[1] \in Nat
      BY <3>2, ByteAt
    <3>4. findFieldEnd(id, d, r) = r + 1 + 12 * d[r + 1]
      BY <1>2, <2>1 DEF findFieldEnd, FieldVehicle, FieldMotor,
         FieldFuelCell, FieldEngine, FieldPosition, FieldExtreme, FieldAlarm,
         FieldVoltage, FieldTemperature
    <3>5. PICK u \in Nat : u = body[1]
      BY <3>3
    <3>6. r + 1 + 12 * u = r + (1 + 12 * u)
      OBVIOUS
    <3> QED
      BY <1>2, <3>1, <3>2, <3>4, <3>5, <3>6
  <2>2. CASE id = FieldFuelCell
    <3>1. /\ r + 8 <= Len(d) /\ Len(body) >= 8
          /\ Len(body) = 8 + U16(body, 6) + 13
      <4>1. MinBody(id) = 8 /\ Len(body) = 8 + U16(body, 6) + 13
        BY <2>2 DEF CountsRight, MinBody, FieldVehicle, FieldMotor,
         FieldFuelCell, FieldEngine, FieldPosition, FieldExtreme, FieldAlarm,
         FieldVoltage, FieldTemperature
      <4>2. Len(body) >= 8
        BY <4>1 DEF CountsRight
      <4> QED
        BY <1>0, <1>2, <4>1, <4>2
    <3>2. d[r + 7] = body[7] /\ d[r + 8] = body[8]
      BY <1>0, <3>1 DEF Agrees
    <3>3. r + 6 + 1 = r + 7 /\ r + 6 + 2 = r + 8 /\ 6 + 1 = 7 /\ 6 + 2 = 8
      OBVIOUS
    <3>4. U16(d, r + 6) = U16(body, 6)
      BY <3>2, <3>3 DEF U16
    <3>5. U16(body, 6) \in Nat
      <4>1. 6 \in Nat /\ 6 + 2 <= Len(body)
        BY <1>0, <3>1
      <4> QED
        BY <4>1, U16Word
    <3>6. findFieldEnd(id, d, r) = r + 8 + U16(d, r + 6) + 13
      BY <1>2, <2>2 DEF findFieldEnd, FieldVehicle, FieldMotor,
         FieldFuelCell, FieldEngine, FieldPosition, FieldExtreme, FieldAlarm,
         FieldVoltage, FieldTemperature
    <3> DEFINE u == U16(body, 6)
    <3> HIDE DEF u
    <3>7. r + 8 + u + 13 = r + (8 + u + 13)
      BY <3>5 DEF u
    <3> QED
      BY <1>2, <3>1, <3>4, <3>6, <3>7 DEF u
  <2>3. CASE id \notin {FieldMotor, FieldFuelCell}
    <3>1. id \in {FieldVehicle, FieldEngine, FieldPosition, FieldExtreme}
      BY <2>3 DEF CheckedIDs, FieldIDs, FieldVehicle, FieldMotor,
         FieldFuelCell, FieldEngine, FieldPosition, FieldExtreme, FieldAlarm,
         FieldVoltage, FieldTemperature
    <3>2. Len(body) = MinBody(id)
      BY <3>1 DEF CountsRight, FieldVehicle, FieldMotor,
         FieldFuelCell, FieldEngine, FieldPosition, FieldExtreme, FieldAlarm,
         FieldVoltage, FieldTemperature
    <3>3. findFieldEnd(id, d, r) = r + MinBody(id)
      BY <1>2, <3>1 DEF findFieldEnd, FieldVehicle, FieldMotor,
         FieldFuelCell, FieldEngine, FieldPosition, FieldExtreme, FieldAlarm,
         FieldVoltage, FieldTemperature
    <3> QED
      BY <1>2, <3>2, <3>3
  <2> QED
    BY <2>1, <2>2, <2>3
<1> QED
  BY <1>1, <1>2

\* The loop over the blocks of a list that is there as a whole ends where the
\* list does.
LEMMA WholeBlocksEnd ==
  ASSUME NEW d \in Seq(Byte), NEW r \in Nat, NEW body \in Seq(Byte),
         At(d, r, body), Len(body) >= 2, NEW head \in Nat, head >= 2,
         NEW unit \in Nat, WholeBlocks(body, head, unit)
  PROVE  BlocksEnd(d, r, head, unit) = r + Len(body)
<1> DEFINE n == U16(d, r)
           Eq(f) == f = [i \in 0..n |->
                           IF i = 0 THEN r + 2
                           ELSE IF f[i - 1] + head > Len(d) THEN f[i - 1]
                           ELSE f[i - 1] + head
                                  + unit * U16(d, f[i - 1] + head - 2)]
<1>0. Len(d) \in Nat /\ Len(body) \in Nat /\ r + Len(body) <= Len(d)
  BY LenProperties DEF At
<1>1. ASSUME NEW p \in Nat, p + 2 <= Len(body)
      PROVE  U16(d, r + p) = U16(body, p) /\ U16(body, p) \in Nat
  <2>1. p + 1 \in 1..Len(body) /\ p + 2 \in 1..Len(body)
    BY <1>0, <1>1
  <2>2. d[r + (p + 1)] = body[p + 1] /\ d[r + (p + 2)] = body[p + 2]
    BY <2>1 DEF At
  <2>3. r + (p + 1) = (r + p) + 1 /\ r + (p + 2) = (r + p) + 2
    OBVIOUS
  <2>4. U16(d, r + p) = U16(body, p)
    BY <2>2, <2>3 DEF U16
  <2> QED
    BY <1>1, <2>4, U16Word
<1>2. n = U16(body, 0) /\ n \in Nat
  <2>1. 0 \in Nat /\ 0 + 2 <= Len(body) /\ r + 0 = r
    BY <1>0
  <2>2. U16(d, r + 0) = U16(body, 0) /\ U16(body, 0) \in Nat
    BY <1>1, <2>1
  <2> QED
    BY <2>1, <2>2
<1> HIDE DEF n
<1>3. PICK w \in [0..n -> 0..Len(body)] :
        /\ w[0] = 2 /\ w[n] = Len(body)
        /\ \A i \in 1..n :
             /\ w[i - 1] + head <= Len(body)
             /\ w[i] = w[i - 1] + head + unit * U16(body, w[i - 1] + head - 2)
  BY <1>2 DEF WholeBlocks
<1> DEFINE g == [i \in 0..n |-> r + w[i]]
           Behind(q) == IF q + head > Len(d) THEN q
                        ELSE q + head + unit * U16(d, q + head - 2)
<1>4. ASSUME NEW i \in 1..n PROVE g[i] = Behind(g[i - 1])
  <2>1. i \in 0..n /\ i - 1 \in 0..n
    BY <1>2
  <2>2. PICK a, b : a = w[i - 1] /\ b = w[i]
    OBVIOUS
  <2>3. a \in Nat /\ b \in Nat /\ g[i - 1] = r + a /\ g[i] = r + b
    <3>1. a \in 0..Len(body) /\ b \in 0..Len(body)
      BY <2>1, <2>2
    <3>2. g[i - 1] = r + a /\ g[i] = r + b
      BY <2>1, <2>2
    <3> QED
      BY <1>0, <3>1, <3>2
  <2>4. a + head <= Len(body) /\ b = a + head + unit * U16(body, a + head - 2)
    BY <1>3, <2>2
  <2>5. PICK p : p = a + head - 2
    OBVIOUS
  <2>6. p \in Nat /\ p + 2 <= Len(body) /\ r + p = (r + a) + head - 2
    BY <1>0, <2>3, <2>4, <2>5
  <2>7. U16(d, r + p) = U16(body, p) /\ U16(body, p) \in Nat
    BY <1>1, <2>6
  <2>8. PICK u : u = unit * U16(body, p)
    OBVIOUS
  <2>9. u \in Nat
    BY <2>7, <2>8
  <2>10. ~((r + a) + head > Len(d))
    BY <1>0, <2>3, <2>4
  <2>11. Behind(r + a) = (r + a) + head + u
    BY <2>6, <2>7, <2>8, <2>10
  <2>12. b = a + head + u
    BY <2>4, <2>5, <2>8
  <2>13. r + b = (r + a) + head + u
    BY <2>3, <2>9, <2>12
  <2> QED
    BY <2>3, <2>11, <2>13
<1>5. g[0] = r + 2 /\ g[n] = r + Len(body)
  BY <1>2, <1>3
<1>6. Eq(g)
  <2>1. ASSUME NEW i \in 0..n
        PROVE  g[i] = IF i = 0 THEN r + 2 ELSE Behind(g[i - 1])
    <3>1. CASE i = 0
      BY <1>5, <3>1
    <3>2. CASE i # 0
      <4>1. i \in 1..n
        BY <1>2, <3>2
      <4> HIDE DEF g, Behind
      <4> QED
        BY <1>4, <3>2, <4>1
    <3> QED
      BY <3>1, <3>2
  <2>2. g = [i \in 0..n |-> g[i]]
    OBVIOUS
  <2> HIDE DEF g
  <2> QED
    BY <2>1, <2>2
<1> DEFINE end == CHOOSE f : Eq(f)
<1>7. Eq(end)
  BY <1>6
<1>8. BlocksEnd(d, r, head, unit) = end[n]
  BY DEF BlocksEnd, n
<1> HIDE DEF end
<1>9. \A i \in 0..n : end[i] = g[i]
  <2> DEFINE pair == [i \in 0..n |-> <<end[i], g[i]>>]
             Same == {x \in {pair[i] : i \in 0..n} : x[1] = x[2]}
  <2> HIDE DEF g
  <2>1. 0 \in Nat /\ 0 \in 0..n
    BY <1>2
  <2>2. \A i \in 0..n : pair[i] \in Same <=> end[i] = g[i]
    OBVIOUS
  <2>3. end[0] = g[0]
    BY <1>5, <1>7, <2>1
  <2>4. ASSUME NEW i \in 0..n, i # 0, end[i - 1] = g[i - 1]
        PROVE  end[i] = g[i]
    <3>1. i \in 1..n
      BY <1>2, <2>4
    <3>2. end[i] = Behind(end[i - 1])
      BY <1>7, <2>4
    <3>3. g[i] = Behind(g[i - 1])
      BY <1>4, <3>1
    <3> HIDE DEF Behind
    <3> QED
      BY <2>4, <3>2, <3>3
  <2>5. \A i \in 0..n : i # 0 => i - 1 \in 0..n
    BY <1>2
  <2> HIDE DEF pair, Same
  <2>6. \A i \in 0..n : i # 0 /\ pair[i - 1] \in Same => pair[i] \in Same
    BY <2>2, <2>4, <2>5
  <2>7. pair[0] \in Same
    BY <2>1, <2>2, <2>3
  <2>8. \A i \in 0..n : pair[i] \in Same
    BY <1>2, <2>1, <2>6, <2>7, StepByStep
  <2> QED
    BY <2>2, <2>8
<1>10. n \in 0..n
  BY <1>2
<1> HIDE DEF g
<1> QED
  BY <1>5, <1>8, <1>9, <1>10

\* A field that is there as a whole ends where its body does.
LEMMA WholeEnd ==
  ASSUME NEW d \in Seq(Byte), NEW r \in Nat, NEW body \in Seq(Byte),
         At(d, r, body), NEW id \in FieldIDs \ {FieldAlarm},
         CountsRight(id, body)
  PROVE  findFieldEnd(id, d, r) = r + Len(body)
<1>0. Len(d) \in Nat /\ Len(body) \in Nat /\ r + Len(body) <= Len(d)
  BY LenProperties DEF At
<1>1. MinBody(id) \in Nat /\ MinBody(id) <= Len(body)
  BY DEF CountsRight, MinBody, FieldIDs, FieldVehicle, FieldMotor,
         FieldFuelCell, FieldEngine, FieldPosition, FieldExtreme, FieldAlarm,
         FieldVoltage, FieldTemperature
<1>2. ~(r + MinBody(id) > Len(d))
  BY <1>0, <1>1
<1>3. CASE id \in CheckedIDs
  <2>1. Agrees(d, r, body)
    BY DEF Agrees, At
  <2> QED
    BY <1>2, <1>3, <2>1, CheckedEnd
<1>4. CASE id = FieldVoltage
  <2>1. WholeBlocks(body, 7, 3) /\ Len(body) >= 2
    BY <1>4 DEF CountsRight, MinBody, FieldVehicle, FieldMotor,
         FieldFuelCell, FieldEngine, FieldPosition, FieldExtreme, FieldAlarm,
         FieldVoltage, FieldTemperature
  <2>2. findFieldEnd(id, d, r) = BlocksEnd(d, r, 7, 3)
    BY <1>2, <1>4 DEF findFieldEnd, FieldVehicle, FieldMotor,
         FieldFuelCell, FieldEngine, FieldPosition, FieldExtreme, FieldAlarm,
         FieldVoltage, FieldTemperature
  <2>3. 7 \in Nat /\ 7 >= 2 /\ 3 \in Nat
    OBVIOUS
  <2>4. BlocksEnd(d, r, 7, 3) = r + Len(body)
    BY <2>1, <2>3, WholeBlocksEnd
  <2> QED
    BY <2>2, <2>4
<1>5. CASE id = FieldTemperature
  <2>1. WholeBlocks(body, 3, 1) /\ Len(body) >= 2
    BY <1>5 DEF CountsRight, MinBody, FieldVehicle, FieldMotor,
         FieldFuelCell, FieldEngine, FieldPosition, FieldExtreme, FieldAlarm,
         FieldVoltage, FieldTemperature
  <2>2. findFieldEnd(id, d, r) = BlocksEnd(d, r, 3, 1)
    BY <1>2, <1>5 DEF findFieldEnd, FieldVehicle, FieldMotor,
         FieldFuelCell, FieldEngine, FieldPosition, FieldExtreme, FieldAlarm,
         FieldVoltage, FieldTemperature
  <2>3. 3 \in Nat /\ 3 >= 2 /\ 1 \in Nat
    OBVIOUS
  <2>4. BlocksEnd(d, r, 3, 1) = r + Len(body)
    BY <2>1, <2>3, WholeBlocksEnd
  <2> QED
    BY <2>2, <2>4
<1> QED
  BY <1>3, <1>4, <1>5 DEF CheckedIDs

---------------------------------------------------------------------------
(* A field is read as it was sent.                                         *)

\* A field as Readable wants it.
Sound(f) ==
  /\ f.id \in FieldIDs /\ f.body \in Seq(Byte) /\ CountsRight(f.id, f.body)
  /\ f.value = IF f.id = FieldVehicle
               THEN SubSeq(DecodeField(f.id, f.body).value, 1, 11)
               ELSE DecodeField(f.id, f.body).value

\* No decoder refuses a field whose counts are right.
LEMMA FieldDecoded ==
  ASSUME NEW id \in FieldIDs \ {FieldAlarm}, NEW b \in Seq(Byte),
         CountsRight(id, b)
  PROVE  DecodeField(id, b).err = FALSE
<1>0. Len(b) \in Nat
  BY LenProperties
<1>1. MinBody(id) \in Nat /\ Len(b) >= MinBody(id)
  BY DEF CountsRight, MinBody, FieldIDs, FieldVehicle, FieldMotor,
         FieldFuelCell, FieldEngine, FieldPosition, FieldExtreme, FieldAlarm,
         FieldVoltage, FieldTemperature
<1>2. CASE id = FieldFuelCell
  <2>1. MinBody(id) = 8 /\ Len(b) = 8 + U16(b, 6) + 13
    BY <1>2 DEF CountsRight, MinBody, FieldVehicle, FieldMotor,
         FieldFuelCell, FieldEngine, FieldPosition, FieldExtreme, FieldAlarm,
         FieldVoltage, FieldTemperature
  <2>2. ~(Len(b) < 8) /\ ~(Len(b) < 8 + U16(b, 6) + 13)
    BY <1>0, <1>1, <2>1
  <2>3. DecodeFuelCellData(b).err = FALSE
    BY <2>2 DEF DecodeFuelCellData, Decoded
  <2> QED
    BY <1>2, <2>3 DEF DecodeField, FieldVehicle, FieldMotor,
         FieldFuelCell, FieldEngine, FieldPosition, FieldExtreme, FieldAlarm,
         FieldVoltage, FieldTemperature
<1>3. ASSUME id # FieldFuelCell PROVE DecodeField(id, b).err = FALSE
  <2>1. /\ id = FieldVehicle => MinBody(id) = 20
        /\ id = FieldMotor => MinBody(id) = 1
        /\ id = FieldEngine => MinBody(id) = 5
        /\ id = FieldPosition => MinBody(id) = 8
        /\ id = FieldExtreme => MinBody(id) = 10
        /\ id \in {FieldVoltage, FieldTemperature} => MinBody(id) = 2
    BY DEF MinBody, FieldVehicle, FieldMotor,
         FieldFuelCell, FieldEngine, FieldPosition, FieldExtreme, FieldAlarm,
         FieldVoltage, FieldTemperature
  <2>2. /\ ~(Len(b) < 20) => DecodeVehicleData(b).err = FALSE
        /\ ~(Len(b) < 1) => DecodeMotorData(b).err = FALSE
        /\ ~(Len(b) < 5) => DecodeEngineData(b).err = FALSE
        /\ ~(Len(b) < 8) => DecodePositionData(b).err = FALSE
        /\ ~(Len(b) < 10) => DecodeExtremeData(b).err = FALSE
        /\ ~(Len(b) < 2) => DecodeVoltageData(b).err = FALSE
        /\ ~(Len(b) < 2) => DecodeTemperatureData(b).err = FALSE
    BY DEF DecodeVehicleData, DecodeMotorData, DecodeEngineData,
           DecodePositionData, DecodeExtremeData, DecodeVoltageData,
           DecodeTemperatureData, Decoded
  <2>3. id \in {FieldVehicle, FieldMotor, FieldEngine, FieldPosition,
                FieldExtreme, FieldVoltage, FieldTemperature}
    BY <1>3 DEF FieldIDs, FieldVehicle, FieldMotor,
         FieldFuelCell, FieldEngine, FieldPosition, FieldExtreme, FieldAlarm,
         FieldVoltage, FieldTemperature
  <2>4. /\ id = FieldVehicle => DecodeField(id, b) = DecodeVehicleData(b)
        /\ id = FieldMotor => DecodeField(id, b) = DecodeMotorData(b)
        /\ id = FieldEngine => DecodeField(id, b) = DecodeEngineData(b)
        /\ id = FieldPosition => DecodeField(id, b) = DecodePositionData(b)
        /\ id = FieldExtreme => DecodeField(id, b) = DecodeExtremeData(b)
        /\ id = FieldVoltage => DecodeField(id, b) = DecodeVoltageData(b)
        /\ id = FieldTemperature => DecodeField(id, b) = DecodeTemperatureData(b)
    BY DEF DecodeField, FieldVehicle, FieldMotor,
         FieldFuelCell, FieldEngine, FieldPosition, FieldExtreme, FieldAlarm,
         FieldVoltage, FieldTemperature
  <2>5. /\ id = FieldVehicle => ~(Len(b) < 20)
        /\ id = FieldMotor => ~(Len(b) < 1)
        /\ id = FieldEngine => ~(Len(b) < 5)
        /\ id = FieldPosition => ~(Len(b) < 8)
        /\ id = FieldExtreme => ~(Len(b) < 10)
        /\ id \in {FieldVoltage, FieldTemperature} => ~(Len(b) < 2)
    BY <1>0, <1>1, <2>1
  <2> QED
    BY <2>2, <2>3, <2>4, <2>5
<1> QED
  BY <1>2, <1>3

\* The loop puts the field where RealtimeMessage is to hold it.
LEMMA FieldHeld ==
  ASSUME NEW f, Sound(f), NEW fields
  PROVE  SetField(fields, f.id, DecodeField(f.id, f.body).value)
           = AddField(fields, f)
<1> DEFINE v == DecodeField(f.id, f.body).value
<1>1. f.value = IF f.id = FieldVehicle THEN SubSeq(v, 1, 11) ELSE v
  BY DEF Sound
<1> HIDE DEF v
<1>2. SetField(fields, f.id, v) = AddField(fields, f)
  <2>0. /\ FieldMotor # FieldVehicle /\ FieldTemperature # FieldVehicle
        /\ FieldMotor # FieldTemperature
    BY DEF FieldVehicle, FieldMotor, FieldTemperature
  <2>1. CASE f.id = FieldVehicle
    <3> DEFINE w == SubSeq(v, 1, 11)
    <3>1. f.value = w
      BY <1>1, <2>0, <2>1
    <3>2. SetField(fields, f.id, v) = [fields EXCEPT ![f.id] = <<w>>]
      BY <2>0, <2>1 DEF SetField
    <3> HIDE DEF w
    <3>3. AddField(fields, f) = [fields EXCEPT ![f.id] = <<w>>]
      BY <2>0, <2>1, <3>1 DEF AddField
    <3> QED
      BY <3>2, <3>3
  <2>2. CASE f.id = FieldMotor
    <3>1. f.value = v
      BY <1>1, <2>0, <2>2
    <3>2. SetField(fields, f.id, v) = [fields EXCEPT ![f.id] = @ \o v]
      BY <2>0, <2>2 DEF SetField
    <3>3. AddField(fields, f) = [fields EXCEPT ![f.id] = @ \o v]
      BY <2>0, <2>2, <3>1 DEF AddField
    <3> QED
      BY <3>2, <3>3
  <2>3. CASE f.id = FieldTemperature
    <3>1. SetField(fields, f.id, v) = fields
      BY <2>0, <2>3 DEF SetField
    <3> QED
      BY <2>3, <3>1 DEF AddField
  <2>4. CASE f.id \notin {FieldVehicle, FieldMotor, FieldTemperature}
    BY <1>1, <2>4 DEF SetField, AddField
  <2> QED
    BY <2>1, <2>2, <2>3, <2>4
<1> QED
  BY <1>2 DEF v

\* The motors of a field are a sequence.
LEMMA MotorSeq ==
  ASSUME NEW f, Sound(f), f.id = FieldMotor
  PROVE  \E n \in Nat : f.value = [i \in 1..n |-> f.value[i]]
<1> DEFINE b == f.body
<1>1. b \in Seq(Byte) /\ CountsRight(FieldMotor, b)
      /\ f.value = DecodeField(FieldMotor, b).value
  BY DEF Sound, FieldVehicle, FieldMotor, FieldTemperature
<1> HIDE DEF b
<1>2. Len(b) \in Nat /\ Len(b) >= 1
  <2>1. MinBody(FieldMotor) = 1
    BY DEF MinBody, FieldVehicle, FieldMotor,
         FieldFuelCell, FieldEngine, FieldPosition, FieldExtreme, FieldAlarm,
         FieldVoltage, FieldTemperature
  <2>2. Len(b) >= MinBody(FieldMotor)
    BY <1>1 DEF CountsRight
  <2> QED
    BY <1>1, <2>1, <2>2, LenProperties
<1>3. b[1] \in Nat
  BY <1>1, <1>2, ByteAt
<1>4. DecodeField(FieldMotor, b) = DecodeMotorData(b)
  BY DEF DecodeField, FieldVehicle, FieldMotor,
         FieldFuelCell, FieldEngine, FieldPosition, FieldExtreme, FieldAlarm,
         FieldVoltage, FieldTemperature
<1> DEFINE g == [i \in 1..b[1] |->
                  IF 1 + 12 * i <= Len(b)
                  THEN Struct(b, 12 * i - 11, <<1, 1, 1, 2, 2, 1, 2, 2>>)
                  ELSE [j \in 1..8 |-> 0]]
<1>5. ~(Len(b) < 1)
  BY <1>2
<1>6. DecodeMotorData(b) = Decoded(g)
  BY <1>5 DEF DecodeMotorData
<1>7. g = [i \in 1..b[1] |-> g[i]]
  OBVIOUS
<1> HIDE DEF g
<1>8. Decoded(g).value = g
  BY DEF Decoded
<1>9. f.value = g
  BY <1>1, <1>4, <1>6, <1>8
<1> QED
  BY <1>3, <1>7, <1>9

\* What is to be held of one field more.
LEMMA HeldNext ==
  ASSUME NEW fs, NEW n \in Nat, \A j \in 1..n : Sound(fs[j]), NEW k \in 0..n - 1
  PROVE  Held(Firsts(fs, k + 1)) = AddField(Held(Firsts(fs, k)), fs[k + 1])
<1> DEFINE S == {fs[j].value[i] : j \in 1..n, i \in Nat}
<1>1. ASSUME NEW j \in 1..n, fs[j].id = FieldMotor PROVE fs[j].value \in Seq(S)
  <2>1. PICK v : v = fs[j].value
    OBVIOUS
  <2>2. PICK l \in Nat : v = [i \in 1..l |-> v[i]]
    <3>1. \E l \in Nat : fs[j].value = [i \in 1..l |-> fs[j].value[i]]
      BY <1>1, MotorSeq
    <3> QED
      BY <2>1, <3>1
  <2>3. \A i \in 1..l : v[i] \in S
    BY <2>1
  <2> HIDE DEF S
  <2>4. v \in [1..l -> S]
    BY <2>2, <2>3
  <2>5. v \in Seq(S)
    BY <2>4, FunctionSeq
  <2> QED
    BY <2>1, <2>5
<1> HIDE DEF S
<1> DEFINE a == Firsts(fs, k)
           b == Firsts(fs, k + 1)
<1>2. k \in Nat /\ k + 1 \in 1..n /\ k + 1 \in 1..(k + 1)
  OBVIOUS
<1>3. FieldsIn(a, k) /\ FieldsIn(b, k + 1)
  BY DEF FieldsIn, Firsts
<1>4. Motored(a, S)
  <2>1. \A j \in 1..k : j \in 1..n
    BY <1>2
  <2> QED
    BY <1>1, <2>1 DEF Motored, Firsts
<1>5. Motored(b, S)
  <2>1. \A j \in 1..(k + 1) : j \in 1..n
    BY <1>2
  <2> QED
    BY <1>1, <2>1 DEF Motored, Firsts
<1>6. (\A j \in 1..k : b[j] = a[j]) /\ b[k + 1] = fs[k + 1]
  BY <1>2 DEF Firsts
<1>7. b[k + 1].id \in FieldIDs
  BY <1>2, <1>6 DEF Sound
<1> HIDE DEF a, b
<1>8. Held(b) = AddField(Held(a), b[k + 1])
  BY <1>2, <1>3, <1>4, <1>5, <1>6, <1>7, HeldMore
<1> QED
  BY <1>6, <1>8 DEF a, b

---------------------------------------------------------------------------
(* Where the items of a message and the fields of an item lie.             *)

\* The byte strings of f fill d behind k, the i-th from off[i - 1] to off[i].
Row(d, k, f, n, off) ==
  /\ off \in [0..n -> Nat] /\ off[0] = k /\ off[n] = Len(d)
  /\ \A i \in 1..n : /\ off[i] = off[i - 1] + Len(f[i])
                     /\ At(d, off[i - 1], f[i])

LEMMA ListRow ==
  ASSUME NEW n \in Nat, NEW f \in [1..n -> Seq(Byte)], NEW d \in Seq(Byte),
         NEW k \in Nat, At(d, k, FlattenSeq(f)),
         Len(d) = k + Len(FlattenSeq(f))
  PROVE  \E off : Row(d, k, f, n, off)
<1> DEFINE F == FlattenSeq(f)
<1>1. F \in Seq(Byte)
  BY ListBytes
<1>2. PICK o : Laid(F, f, n, o)
  BY ListLaid
<1>3. At(d, k, F) /\ Len(d) = k + Len(F)
  OBVIOUS
<1> HIDE DEF F
<1> DEFINE off == [i \in 0..n |-> k + o[i]]
<1>4. /\ o \in [0..n -> Nat] /\ o[0] = 0 /\ o[n] = Len(F)
      /\ \A i \in 1..n : o[i] = o[i - 1] + Len(f[i]) /\ At(F, o[i - 1], f[i])
  BY <1>2 DEF Laid
<1>5. off \in [0..n -> Nat] /\ off[0] = k /\ off[n] = Len(d)
  <2>1. off \in [0..n -> Nat]
    BY <1>4
  <2>2. off[0] = k + o[0] /\ off[n] = k + o[n]
    OBVIOUS
  <2>3. k + 0 = k
    OBVIOUS
  <2> QED
    BY <1>3, <1>4, <2>1, <2>2, <2>3
<1>6. ASSUME NEW i \in 1..n
      PROVE  off[i] = off[i - 1] + Len(f[i]) /\ At(d, off[i - 1], f[i])
  <2>1. i \in 0..n /\ i - 1 \in 0..n /\ f[i] \in Seq(Byte)
    OBVIOUS
  <2>2. PICK a, b : a = o[i - 1] /\ b = o[i]
    OBVIOUS
  <2>3. /\ a \in Nat /\ b \in Nat /\ b = a + Len(f[i]) /\ At(F, a, f[i])
    BY <1>4, <2>1, <2>2
  <2>4. off[i] = k + b /\ off[i - 1] = k + a
    BY <2>1, <2>2
  <2>5. Len(f[i]) \in Nat
    BY <2>1, LenProperties
  <2>6. k + b = (k + a) + Len(f[i])
    BY <2>3, <2>5
  <2>7. At(d, k + a, f[i])
    BY <1>1, <1>3, <2>1, <2>3, AtInside
  <2> QED
    BY <2>4, <2>6, <2>7
<1> HIDE DEF off
<1>7. Row(d, k, f, n, off)
  BY <1>5, <1>6 DEF Row
<1> QED
  BY <1>7

\* An item is its time and, one behind the other, its fields: the first j of
\* them end at q[j].
ItemLaid(it, q) ==
  LET n == Len(it.fields)
      d == EncodeItem(it)
  IN /\ q \in [0..n -> Nat] /\ q[0] = 6 /\ q[n] = Len(d)
     /\ \A j \in 1..n :
          /\ q[j] = q[j - 1] + 1 + Len(it.fields[j].body)
          /\ At(d, q[j - 1], <<it.fields[j].id>>)
          /\ At(d, q[j - 1] + 1, it.fields[j].body)
     /\ At(d, 0, EncodeTime(it.time))

FieldEnds(it) == CHOOSE q : ItemLaid(it, q)

LEMMA ItemRow ==
  ASSUME NEW it, IsItem(it)
  PROVE  ItemLaid(it, FieldEnds(it))
<1> DEFINE n == Len(it.fields)
           f == [j \in DOMAIN it.fields |->
                   <<it.fields[j].id>> \o it.fields[j].body]
           T == EncodeTime(it.time)
           F == EncodeFields(it.fields)
<1>1. n \in Nat /\ DOMAIN it.fields = 1..n
  BY LenProperties DEF IsItem
<1>2. ASSUME NEW j \in 1..n
      PROVE  /\ it.fields[j].id \in Byte /\ it.fields[j].body \in Seq(Byte)
             /\ <<it.fields[j].id>> \in Seq(Byte)
             /\ <<it.fields[j].id>> \o it.fields[j].body \in Seq(Byte)
  <2>1. it.fields[j].id \in Byte /\ it.fields[j].body \in Seq(Byte)
    BY <1>1 DEF IsItem
  <2>2. <<it.fields[j].id>> \in Seq(Byte)
    BY <2>1, OneByte
  <2> QED
    BY <2>1, <2>2, Joined
<1>3. f \in [1..n -> Seq(Byte)]
  BY <1>1, <1>2
<1>3a. \A j \in 1..n : f[j] = <<it.fields[j].id>> \o it.fields[j].body
  BY <1>1
<1>4. FlattenSeq(f) \in Seq(Byte) /\ F = FlattenSeq(f)
  <2>1. F = FlattenSeq(f)
    BY DEF EncodeFields
  <2> HIDE DEF f, n, F
  <2> QED
    BY <1>1, <1>3, <2>1, ListBytes
<1>6. T \in Seq(Byte) /\ Len(T) = 6
  BY TimeBytes DEF IsItem
<1>7. EncodeItem(it) = T \o F
  BY DEF EncodeItem
<1> HIDE DEF T, F, f, n
<1>8. /\ T \o F \in Seq(Byte) /\ Len(T \o F) = Len(T) + Len(F)
      /\ At(T \o F, 0, T) /\ At(T \o F, Len(T), F)
  BY <1>4, <1>6, Joined
<1>9. PICK d : d = EncodeItem(it)
  OBVIOUS
<1>10. /\ d \in Seq(Byte) /\ At(d, 0, T) /\ At(d, 6, FlattenSeq(f))
       /\ Len(d) = 6 + Len(FlattenSeq(f))
  BY <1>4, <1>6, <1>7, <1>8, <1>9
<1>11. PICK q : Row(d, 6, f, n, q)
  <2>1. 6 \in Nat
    OBVIOUS
  <2> QED
    BY <1>1, <1>3, <1>10, <2>1, ListRow
<1>12. q \in [0..n -> Nat] /\ q[0] = 6 /\ q[n] = Len(d)
  BY <1>11 DEF Row
<1>13. ASSUME NEW j \in 1..n
       PROVE  /\ q[j] = q[j - 1] + 1 + Len(it.fields[j].body)
              /\ At(d, q[j - 1], <<it.fields[j].id>>)
              /\ At(d, q[j - 1] + 1, it.fields[j].body)
  <2>1. PICK x, b, p : /\ x = it.fields[j].id /\ b = it.fields[j].body
                       /\ p = q[j - 1]
    OBVIOUS
  <2>2. x \in Byte /\ b \in Seq(Byte) /\ <<x>> \in Seq(Byte) /\ Len(<<x>>) = 1
    BY <1>2, <2>1, OneByte
  <2>3. p \in Nat
    <3>1. j - 1 \in 0..n
      BY <1>1
    <3> QED
      BY <1>12, <2>1, <3>1
  <2>4. q[j] = p + Len(<<x>> \o b) /\ At(d, p, <<x>> \o b)
    <3>1. f[j] = <<x>> \o b
      BY <1>3a, <2>1
    <3> QED
      BY <1>11, <2>1, <3>1 DEF Row
  <2>5. /\ <<x>> \o b \in Seq(Byte) /\ Len(<<x>> \o b) = 1 + Len(b)
        /\ At(<<x>> \o b, 0, <<x>>) /\ At(<<x>> \o b, 1, b) /\ Len(b) \in Nat
    BY <2>2, Joined
  <2>6. q[j] = p + 1 + Len(b)
    BY <2>3, <2>4, <2>5
  <2>7. At(d, p + 0, <<x>>) /\ At(d, p + 1, b)
    <3>1. PICK s, u : s = <<x>> \o b /\ u = <<x>>
      OBVIOUS
    <3>2. /\ s \in Seq(Byte) /\ At(s, 0, u) /\ At(s, 1, b) /\ At(d, p, s)
          /\ u \in Seq(Byte) /\ 0 \in Nat /\ 1 \in Nat
      BY <2>2, <2>4, <2>5, <3>1
    <3>3. At(d, p + 0, u)
      BY <1>10, <2>3, <3>2, AtInside
    <3>4. At(d, p + 1, b)
      BY <1>10, <2>2, <2>3, <3>2, AtInside
    <3> QED
      BY <3>1, <3>3, <3>4
  <2>8. p + 0 = p
    BY <2>3
  <2> QED
    BY <2>1, <2>6, <2>7, <2>8
<1>14. ItemLaid(it, q)
  BY <1>9, <1>10, <1>12, <1>13 DEF ItemLaid, n, T
<1> QED
  BY <1>14 DEF FieldEnds

\* What MessagesAssumption says of a message of items.
LEMMA ItemsSent ==
  ASSUME NEW m \in Messages, m.kind \notin BodyKinds
  PROVE  /\ m.kind \in {"realtime", "reissue"}
         /\ Len(m.items) \in Word /\ Len(m.items) \in Nat /\ Len(m.items) >= 1
         /\ m.kind = "realtime" => Len(m.items) = 1
         /\ DOMAIN m.items = 1..Len(m.items)
         /\ \A i \in 1..Len(m.items) : IsItem(m.items[i])
<1>1. /\ m.kind \in {"realtime", "reissue"}
      /\ Len(m.items) \in (IF m.kind = "realtime" THEN {1} ELSE Word \ {0})
      /\ DOMAIN m.items = 1..Len(m.items)
      /\ \A i \in DOMAIN m.items : IsItem(m.items[i])
  BY MessagesAssumption
<1>2. PICK n : n = Len(m.items)
  OBVIOUS
<1>3. /\ n \in Word /\ n \in Nat /\ n >= 1
      /\ m.kind = "realtime" => n = 1
  <2>1. CASE m.kind = "realtime"
    <3>1. n = 1
      BY <1>1, <1>2, <2>1
    <3> QED
      BY <3>1 DEF Word
  <2>2. CASE m.kind # "realtime"
    <3>1. n \in Word \ {0}
      BY <1>1, <1>2, <2>2
    <3> QED
      BY <2>2, <3>1 DEF Word
  <2> QED
    BY <2>1, <2>2
<1> QED
  BY <1>1, <1>2, <1>3

\* Where the first item starts.
Lead(m) == IF m.kind = "realtime" THEN 0 ELSE 8

\* The items of a message lie one behind the other, the first i of them up to
\* s[i], and in a reissue their number in front of them.
ItemsLaid(m, s) ==
  LET n == Len(m.items)
      d == Encode(m)
  IN /\ s \in [0..n -> Nat] /\ s[0] = Lead(m) /\ s[n] = Len(d)
     /\ \A i \in 1..n : /\ s[i] = s[i - 1] + Len(EncodeItem(m.items[i]))
                        /\ At(d, s[i - 1], EncodeItem(m.items[i]))

ItemEnds(m) == CHOOSE s : ItemsLaid(m, s)

LEMMA ItemsRow ==
  ASSUME NEW m \in Messages, m.kind \notin BodyKinds
  PROVE  /\ ItemsLaid(m, ItemEnds(m))
         /\ m.kind = "reissue" =>
              At(Encode(m), 6, <<Len(m.items) \div 256, Len(m.items) % 256>>)
<1> DEFINE n == Len(m.items)
           f == [i \in DOMAIN m.items |-> EncodeItem(m.items[i])]
<1>1. /\ m.kind \in {"realtime", "reissue"}
      /\ n \in Word /\ n \in Nat /\ n >= 1
      /\ m.kind = "realtime" => n = 1
      /\ DOMAIN m.items = 1..n
      /\ \A i \in 1..n : IsItem(m.items[i])
  BY ItemsSent
<1>2. f \in [1..n -> Seq(Byte)] /\ \A i \in 1..n : f[i] = EncodeItem(m.items[i])
  BY <1>1, ItemBytes
<1>3. CASE m.kind = "realtime"
  <2>1. PICK d : d = EncodeItem(m.items[1])
    OBVIOUS
  <2>2. Encode(m) = d /\ n = 1 /\ m.kind # "reissue"
    BY <1>1, <1>3, <2>1 DEF Encode
  <2>3. d \in Seq(Byte) /\ Len(d) \in Nat
    BY <1>1, <2>1, ItemBytes, LenProperties
  <2> DEFINE s == [i \in 0..1 |-> IF i = 0 THEN 0 ELSE Len(d)]
  <2>4. s \in [0..1 -> Nat] /\ s[0] = 0 /\ s[1] = Len(d)
    BY <2>3
  <2> HIDE DEF s
  <2>5. At(d, 0, d)
    BY <2>3 DEF At
  <2>6. \A i \in 1..1 : i = 1 /\ i - 1 = 0
    OBVIOUS
  <2>7. \A i \in 1..1 : /\ s[i] = s[i - 1] + Len(EncodeItem(m.items[i]))
                        /\ At(d, s[i - 1], EncodeItem(m.items[i]))
    BY <2>1, <2>3, <2>4, <2>5, <2>6
  <2>8. ItemsLaid(m, s)
    BY <1>3, <2>2, <2>4, <2>7 DEF ItemsLaid, Lead
  <2> QED
    BY <2>2, <2>8 DEF ItemEnds
<1>4. CASE m.kind = "reissue"
  <2> DEFINE T == EncodeTime(m.items[1].time)
             C == <<Len(m.items) \div 256, Len(m.items) % 256>>
             I == EncodeItems(m.items)
  <2>1. T \in Seq(Byte) /\ Len(T) = 6
    <3>1. IsItem(m.items[1])
      BY <1>1
    <3> QED
      BY <3>1, TimeBytes DEF IsItem
  <2>2. C \in Seq(Byte) /\ Len(C) = 2
    <3>1. Len(m.items) \in Word
      BY <1>1
    <3> QED
      BY <3>1, ItemCount
  <2>3. I = FlattenSeq(f)
    BY DEF EncodeItems
  <2>4. I \in Seq(Byte)
    <3> HIDE DEF f, n, I
    <3> QED
      BY <1>1, <1>2, <2>3, ListBytes
  <2>5. Encode(m) = T \o C \o I
    <3>1. m.kind # "realtime"
      BY <1>4
    <3> QED
      BY <3>1 DEF Encode
  <2> HIDE DEF T, C, I, f, n
  <2>6. Parts3(T \o C \o I, T, C, I)
    BY <2>1, <2>2, <2>4, ThreeParts
  <2>7. PICK d : d = T \o C \o I
    OBVIOUS
  <2>8. /\ d \in Seq(Byte) /\ Len(d) = 6 + 2 + Len(I) /\ At(d, 6, C)
        /\ At(d, 6 + 2, I) /\ Len(I) \in Nat
    BY <2>1, <2>2, <2>4, <2>6, <2>7, LenProperties DEF Parts3
  <2>9. 6 + 2 = 8 /\ 8 \in Nat
    OBVIOUS
  <2>10. At(d, 8, FlattenSeq(f)) /\ Len(d) = 8 + Len(FlattenSeq(f))
    BY <2>3, <2>8, <2>9
  <2>11. PICK s : Row(d, 8, f, n, s)
    BY <1>1, <1>2, <2>8, <2>9, <2>10, ListRow
  <2>12. ItemsLaid(m, s)
    <3>1. /\ s \in [0..n -> Nat] /\ s[0] = 8 /\ s[n] = Len(d)
          /\ \A i \in 1..n : /\ s[i] = s[i - 1] + Len(EncodeItem(m.items[i]))
                             /\ At(d, s[i - 1], EncodeItem(m.items[i]))
      BY <1>2, <2>11 DEF Row
    <3> QED
      BY <1>4, <2>5, <2>7, <3>1 DEF ItemsLaid, Lead, n
  <2> QED
    BY <2>5, <2>7, <2>8, <2>12 DEF ItemEnds, C
<1> QED
  BY <1>1, <1>3, <1>4

\* Where the first j fields of the i-th item end.
Offset(m, i, j) == ItemEnds(m)[i - 1] + FieldEnds(m.items[i])[j]

\* The i-th item and its fields in the message.
Located(m, i) ==
  LET it == m.items[i]
      e == Encode(m)
      b == ItemEnds(m)[i - 1]
  IN /\ b \in Nat /\ ItemEnds(m)[i] \in Nat
     /\ At(e, b, EncodeTime(it.time))
     /\ Offset(m, i, 0) = b + 6 /\ Offset(m, i, Len(it.fields)) = ItemEnds(m)[i]
     /\ \A j \in 0..Len(it.fields) : Offset(m, i, j) \in Nat
     /\ \A j \in 1..Len(it.fields) :
          /\ Offset(m, i, j) = Offset(m, i, j - 1) + 1 + Len(it.fields[j].body)
          /\ At(e, Offset(m, i, j - 1), <<it.fields[j].id>>)
          /\ At(e, Offset(m, i, j - 1) + 1, it.fields[j].body)

LEMMA ItemLocated ==
  ASSUME NEW m \in Messages, m.kind \notin BodyKinds,
         NEW i \in 1..Len(m.items)
  PROVE  Located(m, i)
<1> DEFINE it == m.items[i]
           e == Encode(m)
           d == EncodeItem(it)
           s == ItemEnds(m)
           q == FieldEnds(it)
           n == Len(it.fields)
<1>1. Len(m.items) \in Nat /\ IsItem(it)
  BY ItemsSent
<1>2. ItemLaid(it, q) /\ ItemsLaid(m, s)
  BY <1>1, ItemRow, ItemsRow
<1>3. e \in Seq(Byte) /\ d \in Seq(Byte)
  BY <1>1, MessageBytes, ItemBytes
<1>4. /\ n \in Nat /\ DOMAIN it.fields = 1..n
      /\ \A j \in 1..n : it.fields[j].id \in Byte /\ it.fields[j].body \in Seq(Byte)
  BY <1>1, LenProperties DEF IsItem
<1>5. EncodeTime(it.time) \in Seq(Byte)
  BY <1>1, TimeBytes DEF IsItem
<1>6. /\ q \in [0..n -> Nat] /\ q[0] = 6 /\ q[n] = Len(d)
      /\ \A j \in 1..n :
           /\ q[j] = q[j - 1] + 1 + Len(it.fields[j].body)
           /\ At(d, q[j - 1], <<it.fields[j].id>>)
           /\ At(d, q[j - 1] + 1, it.fields[j].body)
      /\ At(d, 0, EncodeTime(it.time))
  BY <1>2 DEF ItemLaid
<1>7. /\ s[i - 1] \in Nat /\ s[i] \in Nat
      /\ s[i] = s[i - 1] + Len(d) /\ At(e, s[i - 1], d)
  <2>1. i - 1 \in 0..Len(m.items) /\ i \in 0..Len(m.items)
    BY <1>1
  <2>2. /\ s \in [0..Len(m.items) -> Nat]
        /\ s[i] = s[i - 1] + Len(d) /\ At(e, s[i - 1], d)
    BY <1>2 DEF ItemsLaid
  <2> QED
    BY <2>1, <2>2
<1>8. \A j : Offset(m, i, j) = s[i - 1] + q[j]
  BY DEF Offset
<1>9. PICK b : b = s[i - 1]
  OBVIOUS
<1> HIDE DEF e, d, s, q, n, it
<1>10. b \in Nat /\ At(e, b, d) /\ s[i] = b + Len(d)
  BY <1>7, <1>9
<1>11. At(e, b, EncodeTime(it.time))
  <2>1. PICK T : T = EncodeTime(it.time)
    OBVIOUS
  <2>2. 0 \in Nat /\ b + 0 = b /\ T \in Seq(Byte) /\ At(d, 0, T)
    BY <1>5, <1>6, <1>10, <2>1
  <2>3. At(e, b + 0, T)
    BY <1>3, <1>10, <2>2, AtInside
  <2> QED
    BY <2>1, <2>2, <2>3
<1>12. /\ Offset(m, i, 0) = b + 6 /\ Offset(m, i, n) = s[i]
  BY <1>6, <1>8, <1>9, <1>10
<1>13. \A j \in 0..n : Offset(m, i, j) \in Nat
  BY <1>6, <1>8, <1>9, <1>10
<1>14. ASSUME NEW j \in 1..n
       PROVE  /\ Offset(m, i, j)
                   = Offset(m, i, j - 1) + 1 + Len(it.fields[j].body)
              /\ At(e, Offset(m, i, j - 1), <<it.fields[j].id>>)
              /\ At(e, Offset(m, i, j - 1) + 1, it.fields[j].body)
  <2>1. PICK x, body, p : /\ x = <<it.fields[j].id>> /\ body = it.fields[j].body
                          /\ p = q[j - 1]
    OBVIOUS
  <2>2. x \in Seq(Byte) /\ body \in Seq(Byte) /\ Len(body) \in Nat
    BY <1>4, <2>1, OneByte, LenProperties
  <2>3. p \in Nat
    <3>1. j - 1 \in 0..n
      BY <1>4
    <3> QED
      BY <1>6, <2>1, <3>1
  <2>4. q[j] = p + 1 + Len(body) /\ At(d, p, x) /\ At(d, p + 1, body)
    BY <1>6, <2>1
  <2>5. Offset(m, i, j) = b + q[j] /\ Offset(m, i, j - 1) = b + p
    BY <1>8, <1>9, <2>1
  <2>6. b + (p + 1 + Len(body)) = (b + p) + 1 + Len(body)
    BY <1>10, <2>2, <2>3
  <2>7. At(e, b + p, x)
    BY <1>3, <1>10, <2>2, <2>3, <2>4, AtInside
  <2>8. At(e, b + (p + 1), body)
    <3>1. p + 1 \in Nat
      BY <2>3
    <3> QED
      BY <1>3, <1>10, <2>2, <2>4, <3>1, AtInside
  <2>9. b + (p + 1) = (b + p) + 1
    BY <1>10, <2>3
  <2> QED
    BY <2>1, <2>4, <2>5, <2>6, <2>7, <2>8, <2>9
<1> QED
  BY <1>7, <1>9, <1>10, <1>11, <1>12, <1>13, <1>14 DEF Located, e, s, it, n

---------------------------------------------------------------------------
(* One step of the loop over the fields of an item.                        *)

\* What lies behind b lies in the slice that starts there.
LEMMA AtBehind ==
  ASSUME NEW d \in Seq(Byte), NEW b \in Nat, NEW p \in Nat, b <= p,
         NEW s \in Seq(Byte), At(d, p, s)
  PROVE  At(Slice(d, b, Len(d)), p - b, s)
<1>0. Len(d) \in Nat /\ Len(s) \in Nat /\ p + Len(s) <= Len(d)
  BY LenProperties DEF At
<1>1. b + 1 \in Nat \ {0} /\ Len(d) \in 0..Len(d)
  BY <1>0
<1>2. PICK c : c = Slice(d, b, Len(d))
  OBVIOUS
<1>3. /\ Len(c) = IF b + 1 <= Len(d) THEN Len(d) - (b + 1) + 1 ELSE 0
      /\ \A i \in 1..Len(d) - (b + 1) + 1 : c[i] = d[(b + 1) + i - 1]
  BY <1>1, <1>2, PartOf DEF Slice
<1>4. Len(c) = Len(d) - b
  BY <1>0, <1>3
<1>5. ASSUME NEW i \in 1..Len(s) PROVE c[(p - b) + i] = s[i]
  <2>1. /\ (p - b) + i \in 1..Len(d) - (b + 1) + 1
        /\ (b + 1) + ((p - b) + i) - 1 = p + i
    BY <1>0
  <2>2. c[(p - b) + i] = d[p + i]
    BY <1>3, <2>1
  <2> QED
    BY <2>2 DEF At
<1>6. (p - b) + Len(s) <= Len(c)
  BY <1>0, <1>4
<1> QED
  BY <1>2, <1>5, <1>6 DEF At

\* As far as it is there.
LEMMA AgreesBehind ==
  ASSUME NEW d \in Seq(Byte), NEW e \in Seq(Byte), Cut(d, e),
         NEW b \in Nat, NEW p \in Nat, b <= p, b <= Len(d),
         NEW s \in Seq(Byte), At(e, p, s)
  PROVE  Agrees(Slice(d, b, Len(d)), p - b, s)
<1>0. Len(d) \in Nat /\ Len(s) \in Nat
  BY LenProperties
<1>1. b + 1 \in Nat \ {0} /\ Len(d) \in 0..Len(d)
  BY <1>0
<1>2. PICK c : c = Slice(d, b, Len(d))
  OBVIOUS
<1>3. /\ Len(c) = IF b + 1 <= Len(d) THEN Len(d) - (b + 1) + 1 ELSE 0
      /\ \A i \in 1..Len(d) - (b + 1) + 1 : c[i] = d[(b + 1) + i - 1]
  BY <1>1, <1>2, PartOf DEF Slice
<1>4. Len(c) = Len(d) - b
  BY <1>0, <1>3
<1>5. ASSUME NEW i \in 1..Len(s), (p - b) + i <= Len(c)
      PROVE  c[(p - b) + i] = s[i]
  <2>1. /\ (p - b) + i \in 1..Len(d) - (b + 1) + 1
        /\ (b + 1) + ((p - b) + i) - 1 = p + i /\ p + i \in 1..Len(d)
    BY <1>0, <1>4, <1>5
  <2>2. c[(p - b) + i] = d[p + i]
    BY <1>3, <2>1
  <2>3. d[p + i] = e[p + i]
    BY <2>1 DEF Cut
  <2>4. e[p + i] = s[i]
    BY DEF At
  <2> QED
    BY <2>2, <2>3, <2>4
<1> QED
  BY <1>2, <1>5 DEF Agrees

\* Nothing that looks like a field stands behind the last field of an item.
LEMMA NoFieldBehind ==
  ASSUME NEW m \in Messages, m.kind \notin BodyKinds, Readable(m),
         NEW d \in Seq(Byte), Cut(d, Encode(m)), NEW i \in 1..Len(m.items),
         NEW p, p = Offset(m, i, Len(m.items[i].fields)), p < Len(d)
  PROVE  d[p + 1] \notin FieldIDs
<1> DEFINE e == Encode(m)
           n == Len(m.items)
<1>1. n \in Nat /\ DOMAIN m.items = 1..n
  BY ItemsSent
<1>2. p = ItemEnds(m)[i] /\ p \in Nat
  BY ItemLocated DEF Located
<1>3. e \in Seq(Byte) /\ Len(d) <= Len(e) /\ Len(d) \in Nat /\ Len(e) \in Nat
  BY MessageBytes, LenProperties DEF Cut
<1>4. ItemEnds(m)[n] = Len(e)
  BY ItemsRow DEF ItemsLaid
<1> HIDE DEF e
<1>5. i # n
  BY <1>2, <1>3, <1>4
<1>6. i + 1 \in 1..n /\ (i + 1) - 1 = i /\ i + 1 # 1
  BY <1>1, <1>5
<1>7. PICK T : T = EncodeTime(m.items[i + 1].time)
  OBVIOUS
<1>8. At(e, p, T)
  <2>1. Located(m, i + 1)
    BY <1>6, ItemLocated
  <2>2. At(e, ItemEnds(m)[(i + 1) - 1], T)
    BY <1>7, <2>1 DEF Located, e
  <2> QED
    BY <1>2, <1>6, <2>2
<1>9. Len(T) = 6
  <2>1. IsItem(m.items[i + 1])
    BY <1>6, ItemsSent
  <2> QED
    BY <1>7, <2>1, TimeBytes DEF IsItem
<1>10. T[1] \notin FieldIDs
  BY <1>1, <1>6, <1>7 DEF Readable
<1>11. e[p + 1] = T[1]
  <2>1. 1 \in 1..Len(T)
    BY <1>9
  <2> QED
    BY <1>8, <2>1 DEF At
<1>12. d[p + 1] = e[p + 1]
  <2>1. p + 1 \in 1..Len(d)
    BY <1>2, <1>3
  <2> QED
    BY <2>1 DEF Cut, e
<1> QED
  BY <1>10, <1>11, <1>12

\* The fields of a message that can be read are sound.
LEMMA SoundFields ==
  ASSUME NEW m \in Messages, m.kind \notin BodyKinds, Readable(m),
         NEW i \in 1..Len(m.items)
  PROVE  /\ Len(m.items[i].fields) \in Nat
         /\ \A j \in 1..Len(m.items[i].fields) : Sound(m.items[i].fields[j])
<1>1. IsItem(m.items[i]) /\ i \in DOMAIN m.items
  BY ItemsSent
<1>2. PICK it : it = m.items[i]
  OBVIOUS
<1>3. Len(it.fields) \in Nat /\ DOMAIN it.fields = 1..Len(it.fields)
  BY <1>1, <1>2, LenProperties DEF IsItem
<1>4. ASSUME NEW j \in 1..Len(it.fields) PROVE Sound(it.fields[j])
  <2>1. it.fields[j].body \in Seq(Byte)
    BY <1>1, <1>2, <1>3, <1>4 DEF IsItem
  <2>2. j \in DOMAIN m.items[i].fields
    BY <1>2, <1>3, <1>4
  <2>3. LET f == m.items[i].fields[j]
            value == DecodeField(f.id, f.body).value
        IN /\ f.id \in FieldIDs /\ CountsRight(f.id, f.body)
           /\ f.value = IF f.id = FieldVehicle THEN SubSeq(value, 1, 11)
                        ELSE value
    BY <1>1, <2>2 DEF Readable
  <2> QED
    BY <1>2, <2>1, <2>3 DEF Sound
<1> QED
  BY <1>2, <1>3, <1>4

\* The item holds only fields whose end findFieldEnd finds.
Clear(it, ids) ==
  \A j \in 1..Len(it.fields) : it.fields[j].id \in ids

\* Where the loop finds the end of the next field: at the end of its body if
\* that is there, and otherwise not at all or behind the data.
Ends(m, i, j, d, end) ==
  LET f == m.items[i].fields[j + 1]
      p == Offset(m, i, j)
      b == ItemEnds(m)[i - 1]
  IN IF p + 1 + Len(f.body) <= Len(d)
     THEN /\ b + end = Offset(m, i, j + 1) /\ end # -1
          /\ Slice(d, p + 1, b + end) = f.body
     ELSE end = -1 \/ b + end > Len(d)

LEMMA NextFieldEnds ==
  ASSUME NEW m \in Messages, m.kind \notin BodyKinds, Readable(m),
         NEW d \in Seq(Byte), Cut(d, Encode(m)),
         NEW i \in 1..Len(m.items),
         Clear(m.items[i], FieldIDs \ {FieldAlarm}),
         Len(d) = Len(Encode(m)) \/ Clear(m.items[i], CheckedIDs),
         NEW j \in 0..Len(m.items[i].fields) - 1, Offset(m, i, j) < Len(d)
  PROVE  /\ d[Offset(m, i, j) + 1] = m.items[i].fields[j + 1].id
         /\ Ends(m, i, j, d,
                 findFieldEnd(m.items[i].fields[j + 1].id,
                              Slice(d, ItemEnds(m)[i - 1], Len(d)),
                              Offset(m, i, j) + 1 - ItemEnds(m)[i - 1]))
<1> DEFINE it == m.items[i]
           e == Encode(m)
<1>1. Len(it.fields) \in Nat /\ Sound(it.fields[j + 1])
  BY SoundFields
<1>2. PICK f, b, p, q : /\ f = it.fields[j + 1] /\ b = ItemEnds(m)[i - 1]
                        /\ p = Offset(m, i, j) /\ q = Offset(m, i, j + 1)
  OBVIOUS
<1>3. Located(m, i)
  BY ItemLocated
<1>4. b \in Nat /\ p \in Nat
  <2>1. j \in 0..Len(it.fields)
    BY <1>1
  <2>2. ItemEnds(m)[i - 1] \in Nat
    BY <1>3 DEF Located
  <2>3. Offset(m, i, j) \in Nat
    BY <1>3, <2>1 DEF Located
  <2> QED
    BY <1>2, <2>2, <2>3
<1>5. q = p + 1 + Len(f.body) /\ At(e, p, <<f.id>>) /\ At(e, p + 1, f.body)
  <2>1. j + 1 \in 1..Len(it.fields) /\ (j + 1) - 1 = j
    BY <1>1
  <2> QED
    BY <1>2, <1>3, <2>1 DEF Located
<1>6. b <= p
  <2>1. FieldEnds(it)[j] \in Nat /\ p = b + FieldEnds(it)[j]
    <3>1. IsItem(it)
      BY ItemsSent
    <3>2. FieldEnds(it) \in [0..Len(it.fields) -> Nat]
      BY <3>1, ItemRow DEF ItemLaid
    <3>3. j \in 0..Len(it.fields)
      BY <1>1
    <3>4. p = b + FieldEnds(it)[j]
      BY <1>2 DEF Offset
    <3> QED
      BY <3>2, <3>3, <3>4
  <2> QED
    BY <1>4, <2>1
<1>7. /\ f.id \in FieldIDs /\ f.body \in Seq(Byte) /\ CountsRight(f.id, f.body)
  BY <1>1, <1>2 DEF Sound
<1>8. e \in Seq(Byte) /\ Cut(d, e) /\ Len(d) <= Len(e)
  BY MessageBytes DEF Cut
<1>9. Len(d) \in Nat /\ Len(e) \in Nat /\ Len(f.body) \in Nat /\ p < Len(d)
  BY <1>2, <1>7, <1>8, LenProperties
<1>10. f.id \in FieldIDs \ {FieldAlarm}
  BY <1>1, <1>2 DEF Clear
<1>11. Len(d) = Len(e) \/ f.id \in CheckedIDs
  BY <1>1, <1>2 DEF Clear
<1> HIDE DEF e, it
<1>12. d[p + 1] = f.id
  <2>1. PICK x : x = f.id
    OBVIOUS
  <2>2. p + 1 <= Len(d)
    BY <1>4, <1>9
  <2>3. At(e, p, <<x>>)
    BY <1>5, <2>1
  <2> QED
    BY <1>4, <1>8, <2>1, <2>2, <2>3, ByteCut
<1>13. PICK body, c, r : body = f.body /\ c = Slice(d, b, Len(d)) /\ r = p + 1 - b
  OBVIOUS
<1>14. /\ body \in Seq(Byte) /\ At(e, p + 1, body) /\ p + 1 \in Nat /\ b <= p + 1
       /\ r \in Nat /\ r = (p + 1) - b /\ b <= Len(d)
  <2>1. body \in Seq(Byte) /\ At(e, p + 1, body)
    BY <1>5, <1>7, <1>13
  <2>2. PICK l : l = Len(d)
    OBVIOUS
  <2>3. l \in Nat /\ p < l
    BY <1>9, <2>2
  <2>4. p + 1 \in Nat /\ b <= p + 1 /\ r \in Nat /\ r = (p + 1) - b /\ b <= l
    BY <1>4, <1>6, <1>13, <2>3
  <2> QED
    BY <2>1, <2>2, <2>4
<1>15. c \in Seq(Byte) /\ Len(c) = Len(d) - b
  <2>1. Len(d) \in b..Len(d)
    BY <1>4, <1>9, <1>14
  <2> QED
    BY <1>4, <1>13, <2>1, SliceBytes
<1>16. PICK end : end = findFieldEnd(f.id, c, r)
  OBVIOUS
<1>17. CASE p + 1 + Len(body) <= Len(d)
  <2>1. At(d, p + 1, body)
    BY <1>8, <1>14, <1>17, AtCut
  <2>2. At(c, r, body)
    BY <1>4, <1>13, <1>14, <2>1, AtBehind
  <2>3. end = r + Len(body)
    <3>1. PICK id : id = f.id
      OBVIOUS
    <3>2. /\ id \in FieldIDs \ {FieldAlarm} /\ CountsRight(id, body)
          /\ end = findFieldEnd(id, c, r)
      BY <1>7, <1>10, <1>13, <1>16, <3>1
    <3>3. findFieldEnd(id, c, r) = r + Len(body)
      BY <1>14, <1>15, <2>2, <3>2, WholeEnd
    <3> QED
      BY <3>2, <3>3
  <2>4. b + end = (p + 1) + Len(body) /\ end # -1
    <3>1. PICK l : l = Len(body)
      OBVIOUS
    <3>2. l \in Nat /\ end = r + l
      BY <1>9, <1>13, <2>3, <3>1
    <3>3. b + end = (p + 1) + l /\ end # -1
      BY <1>4, <1>13, <1>14, <3>2
    <3> QED
      BY <3>1, <3>3
  <2>5. Slice(d, p + 1, (p + 1) + Len(body)) = body
    BY <1>14, <2>1, SliceAt
  <2>6. q = (p + 1) + Len(body)
    BY <1>5, <1>13
  <2> QED
    BY <1>2, <1>12, <1>13, <1>16, <1>17, <2>4, <2>5, <2>6 DEF Ends, it
<1>18. CASE ~(p + 1 + Len(body) <= Len(d))
  <2>1. f.id \in CheckedIDs
    <3>1. p + 1 + Len(body) <= Len(e)
      BY <1>14 DEF At
    <3>2. Len(d) # Len(e)
      BY <1>18, <3>1
    <3> QED
      BY <1>11, <3>2
  <2>2. Agrees(c, r, body)
    BY <1>4, <1>8, <1>13, <1>14, AgreesBehind
  <2>3. end = IF r + MinBody(f.id) > Len(c) THEN -1 ELSE r + Len(body)
    <3>1. PICK id : id = f.id
      OBVIOUS
    <3>2. id \in CheckedIDs /\ CountsRight(id, body) /\ end = findFieldEnd(id, c, r)
      BY <1>7, <1>13, <1>16, <2>1, <3>1
    <3>3. findFieldEnd(id, c, r) = IF r + MinBody(id) > Len(c) THEN -1
                                   ELSE r + Len(body)
      BY <1>14, <1>15, <2>2, <3>2, CheckedEnd
    <3> QED
      BY <3>1, <3>2, <3>3
  <2>4. end = -1 \/ end = r + Len(body)
    BY <2>3
  <2>5. end = r + Len(body) => b + end > Len(d)
    <3>1. PICK l, n : l = Len(body) /\ n = Len(d)
      OBVIOUS
    <3>2. l \in Nat /\ n \in Nat /\ ~(p + 1 + l <= n)
      BY <1>9, <1>13, <1>18, <3>1
    <3>3. end = r + l => b + end > n
      BY <1>4, <1>13, <1>14, <3>2
    <3> QED
      BY <3>1, <3>3
  <2> QED
    BY <1>2, <1>12, <1>13, <1>16, <1>18, <2>4, <2>5 DEF Ends, it
<1> QED
  BY <1>17, <1>18

---------------------------------------------------------------------------
(* The loops over the items and their fields.                              *)

\* The first j fields of the i-th item have been read.
Reading(i, j) ==
  LET it == sent.items[i] IN
  /\ i \in 1..Len(sent.items) /\ j \in 0..Len(it.fields)
  /\ base = ItemEnds(sent)[i - 1] /\ pos = Offset(sent, i, j)
  /\ item = [time |-> it.time, fields |-> Held(Firsts(it.fields, j))]

\* The i-th item can be read, as far as it is there.
Legible(i) ==
  /\ sent \in Messages /\ Multipart /\ Readable(sent)
  /\ data \in Seq(Byte) /\ Cut(data, Encode(sent))
  /\ i \in 1..Len(sent.items)
  /\ Clear(sent.items[i], FieldIDs \ {FieldAlarm})
  /\ Len(data) = Len(Encode(sent)) \/ Clear(sent.items[i], CheckedIDs)

LEMMA ItemBegun ==
  ASSUME TimeCodec = "BCD", NEW i, Legible(i), base = ItemEnds(sent)[i - 1],
         BeginItem
  PROVE  Reading(i, 0)'
<1> DEFINE it == sent.items[i]
<1>1. sent.kind \notin BodyKinds /\ i \in 1..Len(sent.items) /\ sent \in Messages
  BY DEF Legible, Multipart
<1>2. IsItem(it) /\ Located(sent, i)
  BY <1>1, ItemsSent, ItemLocated
<1>3. PICK T : T = EncodeTime(it.time)
  OBVIOUS
<1>4. T \in Seq(Byte) /\ Len(T) = 6 /\ it.time \in Times
  BY <1>2, <1>3, TimeBytes DEF IsItem
<1>5. base \in Nat /\ At(Encode(sent), base, T)
      /\ Offset(sent, i, 0) = base + 6
  BY <1>2, <1>3 DEF Located
<1>6. Len(data) - base >= 6 /\ data \in Seq(Byte) /\ Len(data) \in Nat
  BY LenProperties DEF BeginItem, Legible
<1>7. base + Len(T) <= Len(data)
  BY <1>4, <1>5, <1>6
<1>8. At(data, base, T)
  <2>1. Cut(data, Encode(sent)) /\ Encode(sent) \in Seq(Byte)
    BY <1>1, MessageBytes DEF Legible
  <2> QED
    BY <1>4, <1>5, <1>6, <1>7, <2>1, AtCut
<1>9. Slice(data, base, base + 6) = T
  <2>1. Slice(data, base, base + Len(T)) = T
    BY <1>4, <1>5, <1>6, <1>8, SliceAt
  <2> QED
    BY <1>4, <2>1
<1>10. decodeTime6(T) = it.time
  <2>1. T = encodeBCDTime(it.time)
    BY <1>3 DEF EncodeTime
  <2>2. At(T, 0, T)
    BY <1>4 DEF At
  <2>3. decodeTime6(Slice(T, 0, 6)) = it.time
    BY <1>4, <2>1, <2>2, TimeRead
  <2>4. Slice(T, 0, 6) = T
    <3>1. 0 \in Nat /\ 0 + 6 = 6
      OBVIOUS
    <3>2. Slice(T, 0, 0 + Len(T)) = T
      BY <1>4, <2>2, <3>1, SliceAt
    <3> QED
      BY <1>4, <3>1, <3>2
  <2> QED
    BY <2>3, <2>4
<1>11. item' = [NoItem EXCEPT !.time = it.time] /\ pos' = base + 6
       /\ base' = base /\ sent' = sent
  BY <1>9, <1>10 DEF BeginItem
<1>12. item' = [time |-> it.time, fields |-> NoFields]
  BY <1>11 DEF NoItem
<1>13. Held(Firsts(it.fields, 0)) = NoFields
  <2>1. Firsts(it.fields, 0) = <<>>
    BY DEF Firsts
  <2> QED
    BY <2>1, HeldNone
<1>14. 0 \in 0..Len(it.fields)
  BY <1>2, LenProperties DEF IsItem
<1> QED
  BY <1>1, <1>5, <1>11, <1>12, <1>13, <1>14 DEF Reading

\* What the loop knows of the next field, when there is one.
LEMMA FieldNext ==
  ASSUME NEW i, NEW j, Legible(i), Reading(i, j),
         j # Len(sent.items[i].fields), pos < Len(data)
  PROVE  LET f == sent.items[i].fields[j + 1] IN
         /\ j + 1 \in 1..Len(sent.items[i].fields) /\ Sound(f)
         /\ data[pos + 1] = f.id /\ f.id # FieldAlarm
         /\ IF pos + 1 + Len(f.body) <= Len(data)
            THEN /\ FieldEnd = Offset(sent, i, j + 1)
                 /\ Slice(data, pos + 1, FieldEnd) = f.body
            ELSE FieldEnd = -1 \/ FieldEnd > Len(data)
<1> DEFINE it == sent.items[i]
           f == it.fields[j + 1]
<1>1. /\ sent \in Messages /\ sent.kind \notin BodyKinds /\ Readable(sent)
      /\ data \in Seq(Byte) /\ Cut(data, Encode(sent))
      /\ i \in 1..Len(sent.items)
      /\ Clear(it, FieldIDs \ {FieldAlarm})
      /\ Len(data) = Len(Encode(sent)) \/ Clear(it, CheckedIDs)
  BY DEF Legible, Multipart
<1>2. j \in 0..Len(it.fields) /\ base = ItemEnds(sent)[i - 1]
      /\ pos = Offset(sent, i, j)
  BY DEF Reading
<1>3. /\ Len(it.fields) \in Nat
      /\ \A k \in 1..Len(it.fields) : Sound(it.fields[k])
  BY <1>1, SoundFields
<1>4. j \in 0..Len(it.fields) - 1 /\ j + 1 \in 1..Len(it.fields)
  BY <1>2, <1>3
<1>5. Sound(f) /\ f.id # FieldAlarm
  BY <1>1, <1>3, <1>4 DEF Clear
<1>6. PICK end : end = findFieldEnd(f.id, Slice(data, base, Len(data)),
                                    pos + 1 - base)
  OBVIOUS
<1>7. data[pos + 1] = f.id /\ Ends(sent, i, j, data, end)
  <2>1. Offset(sent, i, j) < Len(data)
    BY <1>2
  <2>2. /\ data[Offset(sent, i, j) + 1] = sent.items[i].fields[j + 1].id
        /\ Ends(sent, i, j, data,
                findFieldEnd(sent.items[i].fields[j + 1].id,
                             Slice(data, ItemEnds(sent)[i - 1], Len(data)),
                             Offset(sent, i, j) + 1 - ItemEnds(sent)[i - 1]))
    BY <1>1, <1>4, <2>1, NextFieldEnds
  <2> QED
    BY <1>2, <1>6, <2>2
<1>8. FieldEnd = IF end = -1 THEN -1 ELSE base + end
  BY <1>6, <1>7 DEF FieldEnd
<1> HIDE DEF f
<1>9. CASE pos + 1 + Len(f.body) <= Len(data)
  <2>1. /\ base + end = Offset(sent, i, j + 1) /\ end # -1
        /\ Slice(data, pos + 1, base + end) = f.body
    BY <1>2, <1>7, <1>9 DEF Ends, f
  <2>2. FieldEnd = base + end
    BY <1>8, <2>1
  <2> QED
    BY <1>4, <1>5, <1>7, <1>9, <2>1, <2>2 DEF f
<1>10. CASE ~(pos + 1 + Len(f.body) <= Len(data))
  <2>1. end = -1 \/ base + end > Len(data)
    BY <1>2, <1>7, <1>10 DEF Ends, f
  <2>2. FieldEnd = -1 \/ FieldEnd > Len(data)
    BY <1>8, <2>1
  <2> QED
    BY <1>4, <1>5, <1>7, <1>10, <2>2 DEF f
<1> QED
  BY <1>9, <1>10

\* Behind the last field of an item the loop ends.
LEMMA FieldsOver ==
  ASSUME NEW i, NEW j, Legible(i), Reading(i, j),
         j = Len(sent.items[i].fields)
  PROVE  ~AtField
<1>1. /\ sent \in Messages /\ sent.kind \notin BodyKinds /\ Readable(sent)
      /\ data \in Seq(Byte) /\ Cut(data, Encode(sent))
      /\ i \in 1..Len(sent.items)
  BY DEF Legible, Multipart
<1>2. pos = Offset(sent, i, Len(sent.items[i].fields))
  BY DEF Reading
<1>3. pos < Len(data) => data[pos + 1] \notin FieldIDs
  BY <1>1, <1>2, NoFieldBehind
<1> QED
  BY <1>3 DEF AtField, HasDecoder

LEMMA FieldTaken ==
  ASSUME TypeOK, NEW i, NEW j, Legible(i), Reading(i, j), ReadField
  PROVE  Reading(i, j + 1)'
<1> DEFINE it == sent.items[i]
           f == it.fields[j + 1]
<1>1. AtField /\ Fits /\ pos < Len(data)
  BY DEF ReadField, AtField
<1>2. j # Len(it.fields)
  BY <1>1, FieldsOver
<1>3. /\ j + 1 \in 1..Len(it.fields) /\ Sound(f)
      /\ data[pos + 1] = f.id /\ f.id # FieldAlarm
      /\ IF pos + 1 + Len(f.body) <= Len(data)
         THEN /\ FieldEnd = Offset(sent, i, j + 1)
              /\ Slice(data, pos + 1, FieldEnd) = f.body
         ELSE FieldEnd = -1 \/ FieldEnd > Len(data)
  BY <1>1, <1>2, FieldNext
<1>4. FieldEnd # -1 /\ FieldEnd <= Len(data)
  BY <1>1 DEF Fits
<1>5. Len(it.fields) \in Nat /\ Len(data) \in Nat
      /\ \A k \in 1..Len(it.fields) : Sound(it.fields[k])
  BY SoundFields, LenProperties DEF Legible, Multipart
<1>6. FieldEnd = Offset(sent, i, j + 1) /\ Slice(data, pos + 1, FieldEnd) = f.body
  <2>1. Offset(sent, i, j + 1) \in Nat
    <3>1. Located(sent, i)
      BY ItemLocated DEF Legible, Multipart
    <3>2. j + 1 \in 0..Len(it.fields)
      BY <1>3, <1>5
    <3> QED
      BY <3>1, <3>2 DEF Located
  <2>2. FieldEnd \in Int
    <3>1. pc = "field"
      BY DEF ReadField
    <3> QED
      BY <1>1, <3>1, FieldsAhead
  <2>3. ~(FieldEnd > Len(data))
    BY <1>4, <1>5, <2>2
  <2> QED
    BY <1>3, <1>4, <2>3
<1>7. PICK decoded : decoded = DecodeField(f.id, f.body)
  BY Zenon
<1>8. decoded.err = FALSE
  <2>1. /\ f.id \in FieldIDs \ {FieldAlarm} /\ f.body \in Seq(Byte)
        /\ CountsRight(f.id, f.body)
    BY <1>3 DEF Sound
  <2> HIDE DEF f
  <2> QED
    BY <1>7, <2>1, FieldDecoded
<1>9. /\ item' = [item EXCEPT !.fields = SetField(@, f.id, decoded.value)]
      /\ pos' = FieldEnd /\ base' = base /\ sent' = sent
  BY <1>3, <1>6, <1>7, <1>8 DEF ReadField
<1>10. PICK a, b : a = Held(Firsts(it.fields, j)) /\ b = Held(Firsts(it.fields, j + 1))
  OBVIOUS
<1>11. SetField(a, f.id, decoded.value) = b
  <2>1. SetField(a, f.id, decoded.value) = AddField(a, f)
    BY <1>3, <1>7, FieldHeld
  <2>2. j \in 0..Len(it.fields) - 1
    <3>1. j \in 0..Len(it.fields)
      BY DEF Reading
    <3> QED
      BY <1>2, <1>5, <3>1
  <2>3. b = AddField(a, f)
    BY <1>5, <1>10, <2>2, HeldNext
  <2> QED
    BY <2>1, <2>3
<1>12. item = [time |-> it.time, fields |-> a]
  BY <1>10 DEF Reading
<1> HIDE DEF f
<1>13. item' = [time |-> it.time, fields |-> b]
  BY <1>9, <1>11, <1>12
<1>14. j + 1 \in 0..Len(it.fields) /\ i \in 1..Len(sent.items)
       /\ base = ItemEnds(sent)[i - 1]
  BY <1>3, <1>5 DEF Reading
<1> QED
  BY <1>6, <1>9, <1>10, <1>13, <1>14 DEF Reading

\* In a message that is there as a whole the loop over the fields of an item
\* ends behind the last of them.
LEMMA AllTaken ==
  ASSUME NEW i, NEW j, Legible(i), Reading(i, j),
         Len(data) = Len(Encode(sent)), EndItem
  PROVE  /\ j = Len(sent.items[i].fields)
         /\ base' = ItemEnds(sent)[i] /\ pos' = pos
<1> DEFINE it == sent.items[i]
           f == it.fields[j + 1]
<1>1. sent \in Messages /\ sent.kind \notin BodyKinds /\ i \in 1..Len(sent.items)
  BY DEF Legible, Multipart
<1>2. Located(sent, i)
  BY <1>1, ItemLocated
<1>3. Len(it.fields) \in Nat /\ Len(data) \in Nat /\ j \in 0..Len(it.fields)
      /\ pos = Offset(sent, i, j)
      /\ \A k \in 1..Len(it.fields) : Sound(it.fields[k])
  BY SoundFields, LenProperties DEF Legible, Multipart, Reading
<1>4. j = Len(it.fields)
  <2> SUFFICES ASSUME j # Len(it.fields) PROVE FALSE
    OBVIOUS
  <2>1. j + 1 \in 1..Len(it.fields) /\ j + 1 \in 0..Len(it.fields)
        /\ (j + 1) - 1 = j
    BY <1>3
  <2>2. PICK p, q, l : /\ p = Offset(sent, i, j) /\ q = Offset(sent, i, j + 1)
                       /\ l = Len(f.body)
    OBVIOUS
  <2>3. p \in Nat /\ q \in Nat /\ q = p + 1 + l
        /\ At(Encode(sent), p + 1, f.body)
    BY <1>2, <1>3, <2>1, <2>2 DEF Located
  <2>4. l \in Nat /\ f.id \in FieldIDs
    BY <1>3, <2>1, <2>2, LenProperties DEF Sound
  <2>5. (p + 1) + l <= Len(data)
    <3>1. (p + 1) + Len(f.body) <= Len(Encode(sent))
      BY <2>3 DEF At
    <3> QED
      BY <2>2, <3>1
  <2>6. pos < Len(data)
    <3>1. PICK n : n = Len(data)
      OBVIOUS
    <3>2. n \in Nat /\ (p + 1) + l <= n
      BY <1>3, <2>5, <3>1
    <3>3. p < n
      BY <2>3, <2>4, <3>2
    <3> QED
      BY <1>3, <2>2, <3>1, <3>3
  <2>7. /\ data[pos + 1] = f.id
        /\ pos + 1 + Len(f.body) <= Len(data) => FieldEnd = q
    BY <2>2, <2>6, FieldNext
  <2>8. FieldEnd = q
    BY <1>3, <2>2, <2>5, <2>7
  <2>9. AtField /\ Fits
    BY <2>3, <2>4, <2>5, <2>6, <2>7, <2>8 DEF AtField, Fits, HasDecoder
  <2> QED
    BY <2>9 DEF EndItem
<1>5. ~AtField
  BY <1>4, FieldsOver
<1>6. pos' = pos /\ base' = pos
  BY <1>5 DEF EndItem
<1>7. pos = ItemEnds(sent)[i]
  BY <1>2, <1>3, <1>4 DEF Located
<1> QED
  BY <1>4, <1>6, <1>7

\* The number of items, as DecodeReissueData reads it.
LEMMA CountRead ==
  ASSUME NEW d, NEW n \in Word, At(d, 6, <<n \div 256, n % 256>>)
  PROVE  U16(d, 6) = n
<1> DEFINE x == n \div 256
           y == n % 256
<1>1. n \in Nat
  BY DEF Word
<1>2. 256 * x + y = n
  BY <1>1
<1>3. At(d, 6, <<x, y>>)
  OBVIOUS
<1> HIDE DEF x, y
<1>4. d[6 + 1] = x /\ d[6 + 2] = y
  <2>1. Len(<<x, y>>) = 2 /\ <<x, y>>[1] = x /\ <<x, y>>[2] = y
    OBVIOUS
  <2>2. 1 \in 1..2 /\ 2 \in 1..2
    OBVIOUS
  <2> QED
    BY <1>3, <2>1, <2>2 DEF At
<1> QED
  BY <1>2, <1>4 DEF U16

\* One more element of a list.
LEMMA OneMore ==
  ASSUME NEW R, NEW k \in Nat
  PROVE  /\ Append(Firsts(R, k), R[k + 1]) = Firsts(R, k + 1)
         /\ Len(Firsts(R, k)) = k
<1> DEFINE S == {R[i] : i \in 1..(k + 1)}
<1>1. \A i \in 1..k : i \in 1..(k + 1)
  OBVIOUS
<1>2. \A i \in 1..(k + 1) : R[i] \in S
  OBVIOUS
<1> HIDE DEF S
<1>3. Firsts(R, k) \in [1..k -> S] /\ Firsts(R, k + 1) \in [1..(k + 1) -> S]
  BY <1>1, <1>2 DEF Firsts
<1>4. PICK a, b, x : a = Firsts(R, k) /\ b = Firsts(R, k + 1) /\ x = R[k + 1]
  OBVIOUS
<1>5. a \in Seq(S) /\ Len(a) = k /\ b \in Seq(S) /\ Len(b) = k + 1
  <2>1. k + 1 \in Nat
    OBVIOUS
  <2> QED
    BY <1>3, <1>4, <2>1, FunctionSeq
<1>6. x \in S
  <2>1. k + 1 \in 1..(k + 1)
    OBVIOUS
  <2> QED
    BY <1>2, <1>4, <2>1
<1>7. (\A i \in 1..k : b[i] = a[i]) /\ b[k + 1] = x
  <2>1. k + 1 \in 1..(k + 1)
    OBVIOUS
  <2> QED
    BY <1>1, <1>4, <2>1 DEF Firsts
<1>8. PICK c : c = Append(a, x)
  OBVIOUS
<1>9. /\ c \in Seq(S) /\ Len(c) = k + 1
      /\ \A i \in 1..k : c[i] = a[i]
      /\ c[k + 1] = x
  BY <1>5, <1>6, <1>8, AppendProperties
<1>10. \A i \in 1..(k + 1) : i = k + 1 \/ i \in 1..k
  OBVIOUS
<1>11. \A i \in 1..Len(c) : c[i] = b[i]
  BY <1>7, <1>9, <1>10
<1>12. c = b
  BY <1>5, <1>9, <1>11, SeqEqual
<1> QED
  BY <1>4, <1>5, <1>8, <1>12

\* Begin goes to where the first item starts.
LEMMA LoopBegun ==
  ASSUME sent \in Messages, Begin
  PROVE  base' = ItemEnds(sent)[0]
<1>1. sent.kind \notin BodyKinds
  BY DEF Begin, Multipart
<1>2. ItemEnds(sent)[0] = Lead(sent)
  BY <1>1, ItemsRow DEF ItemsLaid
<1> QED
  BY <1>2 DEF Begin, Lead

\* No identifier of the message is id.
LEMMA NotUsed ==
  ASSUME sent \in Messages, Multipart, Readable(sent), NEW ids,
         \A id \in ids : ~Uses(id), NEW i \in 1..Len(sent.items)
  PROVE  Clear(sent.items[i], FieldIDs \ ids)
<1> SUFFICES ASSUME NEW j \in 1..Len(sent.items[i].fields)
             PROVE  sent.items[i].fields[j].id \in FieldIDs \ ids
  BY DEF Clear
<1>1. sent.kind \notin BodyKinds
  BY DEF Multipart
<1>2. i \in DOMAIN sent.items /\ IsItem(sent.items[i])
  BY <1>1, ItemsSent
<1>3. j \in DOMAIN sent.items[i].fields
  BY <1>2, LenProperties DEF IsItem
<1>4. Sound(sent.items[i].fields[j])
  BY <1>1, SoundFields
<1> QED
  BY <1>2, <1>3, <1>4 DEF Uses, Sound

\* The first k items of a message that arrived whole are in the result, and the
\* next one is being read.
Progress ==
  /\ pc \in {"sealed", "start"} => msg = <<>>
  /\ pc \in {"item", "field", "done"} /\ Multipart /\ Whole /\ ~Uses(FieldAlarm)
     => \E k \in 0..Len(sent.items) :
          /\ msg = Firsts(Received(sent), k) /\ left = Len(sent.items) - k
          /\ pc = "item" => base = ItemEnds(sent)[k]
          /\ pc = "field" => \E j : Reading(k + 1, j)
          /\ pc = "done" => k = Len(sent.items)

\* Of a message of items that arrives whole, everything but its temperatures,
\* which RealtimeMessage cannot hold (see NineFieldsReceived), is received
\* item for item and field for field, in order, all motors and the last of
\* every other field: where findFieldEnd cuts is where the next field starts,
\* for any number of items and fields of any length, from terminals that use
\* the codec that defaultDecoder reads.  It is said of messages without an
\* alarm (see NineFieldsReceived) that are Readable: among other things, the value
\* to be received is what the field's decoder makes of the bytes that were sent.
THEOREM WholeItemsReceived ==
  ASSUME TimeCodec = "BCD",
         \A m \in Messages : m.kind \notin BodyKinds => Readable(m)
  PROVE  Spec => []AllButTemperatures
<1>1. Init => Progress
  <2> SUFFICES ASSUME Init PROVE Progress
    OBVIOUS
  <2>1. pc \in {"sealed", "start"} /\ msg = <<>>
    BY DEF Init
  <2> QED
    BY <2>1 DEF Progress
<1>2. TypeOK /\ Progress /\ [Next]_vars => Progress'
  <2> SUFFICES ASSUME TypeOK, Progress, [Next]_vars PROVE Progress'
    OBVIOUS
  <2> DEFINE n == Len(sent.items)
             R == Received(sent)
  <2>0. sent \in Messages /\ data \in Seq(Byte)
    BY DEF TypeOK
  <2>1. CASE Decrypt
    <3>1. pc = "sealed" /\ pc' \in {"refused", "start"} /\ msg' = msg
      BY <2>1 DEF Decrypt
    <3> QED
      BY <3>1 DEF Progress
  <2>2. CASE ReadBody
    <3>1. ~Multipart' /\ pc' \in {"error", "done"}
      BY <2>2 DEF ReadBody, Multipart
    <3> QED
      BY <3>1 DEF Progress
  <2>3. CASE TooShort
    BY <2>3 DEF TooShort, Progress
  <2>4. CASE EndItems /\ ~(Multipart /\ Whole /\ ~Uses(FieldAlarm))
    <3>1. sent' = sent /\ data' = data /\ pc' = "done"
      BY <2>4 DEF EndItems
    <3>2. ~(Multipart' /\ Whole' /\ ~Uses(FieldAlarm)')
      BY <2>4, <3>1 DEF Multipart, Whole, Uses
    <3> QED
      BY <3>1, <3>2 DEF Progress
  <2>5. CASE /\ Begin \/ BeginItem \/ ReadField \/ EndItem
             /\ ~(Multipart /\ Whole /\ ~Uses(FieldAlarm))
    <3>1. sent' = sent /\ data' = data /\ pc' \in {"item", "field"}
      BY <2>5 DEF Begin, BeginItem, ReadField, EndItem
    <3>2. ~(Multipart' /\ Whole' /\ ~Uses(FieldAlarm)')
      BY <2>5, <3>1 DEF Multipart, Whole, Uses
    <3> QED
      BY <3>1, <3>2 DEF Progress
  <2>6. ASSUME Multipart, Whole, ~Uses(FieldAlarm)
        PROVE  /\ sent.kind \notin BodyKinds /\ Readable(sent)
               /\ n \in Nat /\ n >= 1
               /\ \A i \in 1..n : Legible(i)
    <3>1. sent.kind \notin BodyKinds /\ Readable(sent)
      BY <2>0, <2>6 DEF Multipart
    <3>2. n \in Nat /\ n >= 1
      BY <2>0, <3>1, ItemsSent
    <3>3. Cut(data, Encode(sent)) /\ Len(data) = Len(Encode(sent))
      <4>1. Len(data) \in Nat
        BY <2>0, LenProperties
      <4> QED
        BY <2>6, <4>1 DEF Whole, Cut
    <3>4. ASSUME NEW i \in 1..n PROVE Legible(i)
      <4>1. Clear(sent.items[i], FieldIDs \ {FieldAlarm})
        <5>1. \A id \in {FieldAlarm} : ~Uses(id)
          BY <2>6
        <5> QED
          BY <2>0, <2>6, <3>1, <5>1, NotUsed
      <4> QED
        BY <2>0, <2>6, <3>1, <3>3, <4>1 DEF Legible
    <3> QED
      BY <3>1, <3>2, <3>4
  <2>7. ASSUME sent' = sent, data' = data, NEW k \in 0..n,
               msg' = Firsts(R, k), left' = n - k,
               pc' = "item" => base' = ItemEnds(sent)[k],
               pc' = "field" => \E j : Reading(k + 1, j)',
               pc' = "done" => k = n, pc' \notin {"sealed", "start"}
        PROVE  Progress'
    <3>1. Received(sent)' = R /\ Len(sent.items)' = n
          /\ ItemEnds(sent)' = ItemEnds(sent)
      BY <2>7
    <3> HIDE DEF R, n
    <3>2. \E i \in 0..Len(sent.items)' :
            /\ msg' = Firsts(Received(sent)', i) /\ left' = Len(sent.items)' - i
            /\ pc' = "item" => base' = ItemEnds(sent)'[i]
            /\ pc' = "field" => \E j : Reading(i + 1, j)'
            /\ pc' = "done" => i = Len(sent.items)'
      BY <2>7, <3>1
    <3> QED
      BY <2>7, <3>2 DEF Progress
  <2>8. CASE Begin /\ Multipart /\ Whole /\ ~Uses(FieldAlarm)
    <3>1. /\ sent' = sent /\ data' = data /\ pc' = "item" /\ msg' = msg
          /\ pc = "start"
      BY <2>8 DEF Begin
    <3>2. msg = <<>>
      BY <3>1 DEF Progress
    <3>3. n \in Nat /\ sent.kind \notin BodyKinds
      BY <2>6, <2>8
    <3>4. base' = ItemEnds(sent)[0]
      BY <2>0, <2>8, LoopBegun
    <3>5. Firsts(R, 0) = <<>>
      BY DEF Firsts
    <3>6. left' = n
      <4>1. CASE sent.kind = "realtime"
        <5>1. n = 1
          BY <2>0, <3>3, <4>1, ItemsSent
        <5> QED
          BY <2>8, <4>1, <5>1 DEF Begin
      <4>2. CASE sent.kind # "realtime"
        <5>1. sent.kind = "reissue" /\ n \in Word
          BY <2>0, <3>3, <4>2, ItemsSent
        <5>2. At(data, 6, <<n \div 256, n % 256>>)
          BY <2>0, <2>8, <3>3, <5>1, ItemsRow DEF Whole
        <5> HIDE DEF n
        <5>3. U16(data, 6) = n
          BY <5>1, <5>2, CountRead
        <5> QED
          BY <2>8, <4>2, <5>3 DEF Begin
      <4> QED
        BY <4>1, <4>2
    <3>7. 0 \in 0..n /\ left' = n - 0 /\ msg' = Firsts(R, 0)
      BY <3>1, <3>2, <3>3, <3>5, <3>6
    <3> HIDE DEF n, R
    <3> QED
      BY <2>7, <3>1, <3>4, <3>7
  <2>9. CASE /\ BeginItem \/ EndItems \/ ReadField \/ EndItem
             /\ Multipart /\ Whole /\ ~Uses(FieldAlarm)
    <3>1. /\ sent.kind \notin BodyKinds /\ Readable(sent) /\ n \in Nat /\ n >= 1
          /\ \A i \in 1..n : Legible(i)
      BY <2>6, <2>9
    <3>2. pc \in {"item", "field"} /\ sent' = sent /\ data' = data
      BY <2>9 DEF BeginItem, EndItems, ReadField, EndItem
    <3>3. PICK k \in 0..n : /\ msg = Firsts(R, k) /\ left = n - k
                            /\ pc = "item" => base = ItemEnds(sent)[k]
                            /\ pc = "field" => \E j : Reading(k + 1, j)
      BY <2>9, <3>2 DEF Progress
    <3>4. CASE BeginItem
      <4>1. /\ pc = "item" /\ left > 0 /\ pc' = "field" /\ left' = left
            /\ msg' = msg
        BY <3>4 DEF BeginItem
      <4>2. k + 1 \in 1..n /\ (k + 1) - 1 = k
        BY <3>1, <3>3, <4>1
      <4>3. Legible(k + 1) /\ base = ItemEnds(sent)[(k + 1) - 1]
        BY <3>1, <3>3, <4>1, <4>2
      <4>4. Reading(k + 1, 0)'
        BY <3>4, <4>3, ItemBegun
      <4> HIDE DEF n, R
      <4> QED
        BY <2>7, <3>2, <3>3, <4>1, <4>4
    <3>5. CASE EndItems
      <4>1. /\ pc = "item" /\ (left = 0 \/ Len(data) - base < 6) /\ pc' = "done"
            /\ left' = left /\ msg' = msg
        BY <3>5 DEF EndItems
      <4>2. k = n
        <5> SUFFICES ASSUME k # n PROVE FALSE
          OBVIOUS
        <5>1. k + 1 \in 1..n /\ (k + 1) - 1 = k /\ left # 0
          BY <3>1, <3>3
        <5>2. Located(sent, k + 1) /\ IsItem(sent.items[k + 1])
          BY <2>0, <3>1, <5>1, ItemLocated, ItemsSent
        <5>3. Len(EncodeTime(sent.items[k + 1].time)) = 6
          BY <5>2, TimeBytes DEF IsItem
        <5>4. base \in Nat /\ base + 6 <= Len(Encode(sent))
          BY <3>3, <4>1, <5>1, <5>2, <5>3 DEF Located, At
        <5>5. Len(data) = Len(Encode(sent)) /\ Len(data) \in Nat
          BY <2>0, <2>9, LenProperties DEF Whole
        <5>6. PICK l : l = Len(data)
          OBVIOUS
        <5>7. l \in Nat /\ base + 6 <= l /\ l - base < 6
          BY <4>1, <5>1, <5>4, <5>5, <5>6
        <5> QED
          BY <5>4, <5>7
      <4> HIDE DEF n, R
      <4> QED
        BY <2>7, <3>2, <3>3, <4>1, <4>2
    <3>6. CASE ReadField
      <4>1. /\ pc = "field" /\ pc' = "field" /\ left' = left /\ msg' = msg
        BY <3>6 DEF ReadField
      <4>2. PICK j : Reading(k + 1, j)
        BY <3>3, <4>1
      <4>3. Legible(k + 1)
        <5>1. k + 1 \in 1..n
          BY <4>2 DEF Reading
        <5> QED
          BY <3>1, <5>1
      <4>4. Reading(k + 1, j + 1)'
        BY <3>6, <4>2, <4>3, FieldTaken
      <4> HIDE DEF n, R
      <4> QED
        BY <2>7, <3>2, <3>3, <4>1, <4>4
    <3>7. CASE EndItem
      <4>1. /\ pc = "field" /\ pc' = "item" /\ left' = left - 1
            /\ msg' = Append(msg, item)
        BY <3>7 DEF EndItem
      <4>2. PICK j : Reading(k + 1, j)
        BY <3>3, <4>1
      <4>3. k + 1 \in 1..n
        BY <4>2 DEF Reading
      <4>4. Legible(k + 1) /\ Len(data) = Len(Encode(sent))
        BY <2>9, <3>1, <4>3 DEF Whole
      <4>5. j = Len(sent.items[k + 1].fields) /\ base' = ItemEnds(sent)[k + 1]
        BY <3>7, <4>2, <4>4, AllTaken
      <4>6. item = R[k + 1]
        <5>1. PICK it : it = sent.items[k + 1]
          OBVIOUS
        <5>2. IsItem(it) /\ k + 1 \in DOMAIN sent.items
          BY <2>0, <3>1, <4>3, <5>1, ItemsSent
        <5>3. Firsts(it.fields, Len(it.fields)) = it.fields
          <6>1. PICK S, fs : fs = it.fields /\ fs \in Seq(S)
            BY <5>2 DEF IsItem
          <6>2. fs = [i \in 1..Len(fs) |-> fs[i]]
            BY <6>1, LenProperties
          <6> QED
            BY <6>1, <6>2 DEF Firsts
        <5>4. item = [time |-> it.time, fields |-> Held(it.fields)]
          BY <4>2, <4>5, <5>1, <5>3 DEF Reading
        <5> QED
          BY <5>1, <5>2, <5>4 DEF Received
      <4>7. msg' = Firsts(R, k + 1)
        <5>1. k \in Nat
          BY <3>1
        <5> HIDE DEF R
        <5> QED
          BY <3>3, <4>1, <4>6, <5>1, OneMore
      <4>8. k + 1 \in 0..n /\ left' = n - (k + 1)
        BY <3>1, <3>3, <4>1, <4>3
      <4> HIDE DEF n, R
      <4> QED
        BY <2>7, <3>2, <4>1, <4>5, <4>7, <4>8
    <3> QED
      BY <2>9, <3>4, <3>5, <3>6, <3>7
  <2>10. CASE UNCHANGED vars
    BY <2>10 DEF vars, Progress, Multipart, Whole, Uses, Reading
  <2> QED
    BY <2>1, <2>2, <2>3, <2>4, <2>5, <2>8, <2>9, <2>10 DEF Next
<1>3. TypeOK /\ Progress => AllButTemperatures
  <2> SUFFICES ASSUME TypeOK, Progress, pc = "done", Multipart, Whole,
                      ~Uses(FieldAlarm)
               PROVE  msg = Received(sent)
    BY DEF AllButTemperatures
  <2>1. msg = Firsts(Received(sent), Len(sent.items))
    BY DEF Progress
  <2>2. DOMAIN sent.items = 1..Len(sent.items)
    BY ItemsSent DEF TypeOK, Multipart
  <2>3. Firsts(Received(sent), Len(sent.items)) = Received(sent)
    BY <2>2 DEF Firsts, Received
  <2> QED
    BY <2>1, <2>3
<1> QED
  BY <1>1, <1>2, <1>3, LoopsStayInside, PTL DEF Spec

\* got is the first item without some of its last fields.
Kept(got) ==
  /\ got.time = sent.items[1].time
  /\ \E k \in 0..Len(sent.items[1].fields) :
       got.fields = Held(Firsts(sent.items[1].fields, k))

\* Fields whose length findFieldEnd checks against the data.
OnlyChecked ==
  Multipart /\ \A id \in {FieldAlarm, FieldVoltage, FieldTemperature} : ~Uses(id)

\* The result is empty and the first item is being read, or the first item is
\* in the result.
FirstRead ==
  /\ \E S : msg \in Seq(S)
  /\ pc \in {"sealed", "start"} => msg = <<>>
  /\ pc \in {"item", "field", "done"} /\ OnlyChecked =>
       /\ msg # <<>> => Kept(msg[1])
       /\ msg = <<>> /\ pc = "item" => base = ItemEnds(sent)[0]
       /\ msg = <<>> /\ pc = "field" => \E j : Reading(1, j)

\* A message of items that was cut short loses its end: what is reported of its
\* first item is the item that was sent without some of its last fields, for
\* fields of any length, cut at every byte, also between the blocks of a sealed
\* message.  The field that the cut goes through is not reported: findFieldEnd
\* finds its end behind the data or cannot read its counts.
THEOREM NoFieldIsMadeUp ==
  ASSUME TimeCodec = "BCD",
         \A m \in Messages : m.kind \notin BodyKinds => Readable(m)
  PROVE  Spec => []NothingMadeUp
<1>1. Init => FirstRead
  <2> SUFFICES ASSUME Init PROVE FirstRead
    OBVIOUS
  <2>1. pc \in {"sealed", "start"} /\ msg = <<>>
    BY DEF Init
  <2>2. <<>> \in Seq({})
    BY EmptySeq
  <2> QED
    BY <2>1, <2>2 DEF FirstRead
<1>2. TypeOK /\ Beginning /\ FirstRead /\ [Next]_vars => FirstRead'
  <2> SUFFICES ASSUME TypeOK, Beginning, FirstRead, [Next]_vars PROVE FirstRead'
    OBVIOUS
  <2>0. sent \in Messages /\ data \in Seq(Byte)
    BY DEF TypeOK
  <2>1. CASE Decrypt
    <3>1. pc = "sealed" /\ pc' \in {"refused", "start"} /\ msg' = msg
      BY <2>1 DEF Decrypt
    <3> QED
      BY <3>1 DEF FirstRead
  <2>2. CASE ReadBody
    <3>1. /\ ~Multipart' /\ pc' \in {"error", "done"}
          /\ msg' = msg \/ \E v : msg' = <<v>>
      BY <2>2 DEF ReadBody, Multipart
    <3>2. \E S : msg' \in Seq(S)
      <4>1. CASE msg' = msg
        BY <4>1 DEF FirstRead
      <4>2. CASE \E v : msg' = <<v>>
        <5>1. PICK v : msg' = <<v>>
          BY <4>2
        <5>2. <<v>> \in Seq({v})
          OBVIOUS
        <5> QED
          BY <5>1, <5>2
      <4> QED
        BY <3>1, <4>1, <4>2
    <3> QED
      BY <3>1, <3>2 DEF FirstRead, OnlyChecked
  <2>3. CASE TooShort
    BY <2>3 DEF TooShort, FirstRead
  <2>4. ASSUME sent' = sent
        PROVE  OnlyChecked' = OnlyChecked /\ \A got : Kept(got)' = Kept(got)
    BY <2>4 DEF OnlyChecked, Multipart, Uses, Kept
  <2>5. ASSUME OnlyChecked, pc \in {"item", "field"}
        PROVE  Legible(1)
    <3>1. sent.kind \notin BodyKinds /\ Readable(sent) /\ Multipart
      BY <2>0, <2>5 DEF OnlyChecked, Multipart
    <3>2. 1 \in 1..Len(sent.items)
      BY <2>0, <3>1, ItemsSent
    <3>3. Cut(data, Encode(sent))
      BY <2>5 DEF Beginning
    <3> DEFINE ids == {FieldAlarm, FieldVoltage, FieldTemperature}
    <3>4. Clear(sent.items[1], FieldIDs \ ids)
      <4>1. \A id \in ids : ~Uses(id)
        BY <2>5 DEF OnlyChecked
      <4> HIDE DEF ids
      <4> QED
        BY <2>0, <3>1, <3>2, <4>1, NotUsed
    <3>5. Clear(sent.items[1], CheckedIDs)
      BY <3>4 DEF CheckedIDs
    <3>6. Clear(sent.items[1], FieldIDs \ {FieldAlarm})
      BY <3>4 DEF Clear
    <3> QED
      BY <2>0, <3>1, <3>2, <3>3, <3>5, <3>6 DEF Legible
  <2>6. CASE Begin
    <3>1. /\ pc = "start" /\ pc' = "item" /\ msg' = msg /\ sent' = sent
      BY <2>6 DEF Begin
    <3>2. msg = <<>>
      BY <3>1 DEF FirstRead
    <3>3. base' = ItemEnds(sent)[0]
      BY <2>0, <2>6, LoopBegun
    <3> QED
      BY <3>1, <3>2, <3>3 DEF FirstRead
  <2>7. CASE BeginItem
    <3>1. /\ pc = "item" /\ pc' = "field" /\ msg' = msg /\ sent' = sent
      BY <2>7 DEF BeginItem
    <3>2. ASSUME OnlyChecked, msg = <<>> PROVE Reading(1, 0)'
      <4>1. Legible(1)
        BY <2>5, <3>1, <3>2
      <4>2. base = ItemEnds(sent)[1 - 1]
        <5>1. base = ItemEnds(sent)[0] /\ 1 - 1 = 0
          BY <3>1, <3>2 DEF FirstRead
        <5> QED
          BY <5>1
      <4> QED
        BY <2>7, <4>1, <4>2, ItemBegun
    <3>3. OnlyChecked /\ msg # <<>> => Kept(msg[1])
      BY <3>1 DEF FirstRead
    <3> QED
      BY <2>4, <3>1, <3>2, <3>3 DEF FirstRead
  <2>8. CASE EndItems
    <3>1. /\ pc = "item" /\ pc' = "done" /\ msg' = msg /\ sent' = sent
      BY <2>8 DEF EndItems
    <3> QED
      BY <2>4, <3>1 DEF FirstRead
  <2>9. CASE ReadField
    <3>1. /\ pc = "field" /\ pc' = "field" /\ msg' = msg /\ sent' = sent
      BY <2>9 DEF ReadField
    <3>2. ASSUME OnlyChecked, msg = <<>> PROVE \E j : Reading(1, j)'
      <4>1. PICK j : Reading(1, j)
        BY <3>1, <3>2 DEF FirstRead
      <4>2. Reading(1, j + 1)'
        BY <2>5, <2>9, <3>1, <3>2, <4>1, FieldTaken
      <4> QED
        BY <4>2
    <3>3. OnlyChecked /\ msg # <<>> => Kept(msg[1])
      BY <3>1 DEF FirstRead
    <3> QED
      BY <2>4, <3>1, <3>2, <3>3 DEF FirstRead
  <2>10. CASE EndItem
    <3>1. /\ pc = "field" /\ pc' = "item" /\ msg' = Append(msg, item)
          /\ sent' = sent
      BY <2>10 DEF EndItem
    <3>2. PICK S, T, a, b : /\ msg \in Seq(S) /\ T = S \cup {item}
                            /\ a = msg /\ b = msg'
      BY DEF FirstRead
    <3>3. a \in Seq(T) /\ item \in T
      BY <3>2
    <3>4. /\ b \in Seq(T) /\ Len(b) = Len(a) + 1 /\ b[Len(a) + 1] = item
          /\ \A i \in 1..Len(a) : b[i] = a[i]
      BY <3>1, <3>2, <3>3, AppendProperties
    <3>5. Len(a) \in Nat /\ (a # <<>> => Len(a) >= 1) /\ (a = <<>> => Len(a) = 0)
      BY <3>3, LenProperties, EmptySeq
    <3>6. b # <<>>
      <4>1. Len(b) # 0
        BY <3>4, <3>5
      <4> QED
        BY <4>1
    <3>7. ASSUME OnlyChecked PROVE Kept(b[1])
      <4>1. CASE a # <<>>
        <5>1. b[1] = a[1]
          BY <3>4, <3>5, <4>1
        <5>2. Kept(a[1])
          BY <3>1, <3>2, <3>7, <4>1 DEF FirstRead
        <5> QED
          BY <5>1, <5>2
      <4>2. CASE a = <<>>
        <5>1. b[1] = item
          BY <3>4, <3>5, <4>2
        <5>2. PICK j : Reading(1, j)
          BY <3>1, <3>2, <3>7, <4>2 DEF FirstRead
        <5>3. Kept(item)
          BY <5>2 DEF Reading, Kept
        <5> QED
          BY <5>1, <5>3
      <4> QED
        BY <4>1, <4>2
    <3> QED
      BY <2>4, <3>1, <3>2, <3>4, <3>6, <3>7 DEF FirstRead
  <2>11. CASE UNCHANGED vars
    <3>1. sent' = sent /\ pc' = pc /\ msg' = msg /\ base' = base
      BY <2>11 DEF vars
    <3>2. \A j : Reading(1, j)' = Reading(1, j)
      BY <2>11 DEF vars, Reading
    <3> QED
      BY <2>4, <3>1, <3>2 DEF FirstRead
  <2> QED
    BY <2>1, <2>2, <2>3, <2>6, <2>7, <2>8, <2>9, <2>10, <2>11 DEF Next
<1>3. TypeOK /\ FirstRead => NothingMadeUp
  <2> SUFFICES ASSUME TypeOK, FirstRead, pc = "done", Multipart, msg # <<>>,
                      ~Uses(FieldAlarm), ~Uses(FieldVoltage),
                      ~Uses(FieldTemperature)
               PROVE  /\ msg[1].time = sent.items[1].time
                      /\ \E k \in 0..Len(sent.items[1].fields) :
                           msg[1].fields
                             = Held(SubSeq(sent.items[1].fields, 1, k))
    BY DEF NothingMadeUp
  <2>1. OnlyChecked
    BY DEF OnlyChecked
  <2>2. Kept(msg[1])
    BY <2>1 DEF FirstRead
  <2>3. PICK fs, S : fs = sent.items[1].fields /\ fs \in Seq(S)
    <3>1. IsItem(sent.items[1])
      BY ItemsSent DEF TypeOK, Multipart
    <3> QED
      BY <3>1 DEF IsItem
  <2>4. PICK k \in 0..Len(fs) : msg[1].fields = Held(Firsts(fs, k))
    BY <2>2, <2>3 DEF Kept
  <2>5. SubSeq(fs, 1, k) = Firsts(fs, k)
    <3>1. Len(fs) \in Nat /\ 1 \in Nat \ {0}
      BY <2>3, LenProperties
    <3>2. PICK a : a = SubSeq(fs, 1, k)
      OBVIOUS
    <3>3. /\ a \in Seq(S)
          /\ Len(a) = IF 1 <= k THEN k - 1 + 1 ELSE 0
          /\ \A i \in 1..k - 1 + 1 : a[i] = fs[1 + i - 1]
      BY <2>3, <3>1, <3>2, PartOf
    <3>4. Len(a) = k /\ \A i \in 1..k : a[i] = fs[i]
      <4>1. k \in Nat /\ k - 1 + 1 = k /\ \A i \in 1..k : 1 + i - 1 = i
        BY <3>1
      <4> QED
        BY <3>3, <4>1
    <3>5. a = [i \in 1..Len(a) |-> a[i]]
      BY <3>3, LenProperties
    <3> QED
      BY <3>2, <3>4, <3>5 DEF Firsts
  <2> QED
    BY <2>2, <2>3, <2>4, <2>5 DEF Kept
<1> QED
  BY <1>1, <1>2, <1>3, LoopsStayInside, ReceivesBeginning, PTL DEF Spec
=============================================================================
