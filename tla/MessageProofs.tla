--------------------------- MODULE MessageProofs ---------------------------
(***************************************************************************)
(* What Message and Bodies keep for every set of messages: the loops over  *)
(* the items and fields of a message stay inside it whatever bytes it has, *)
(* nothing that arrives whole is refused, the bodies of Bodies are received *)
(* as sent, and one that was cut short loses its end and nothing else.     *)
(***************************************************************************)
EXTENDS Message, SequenceLemmas

---------------------------------------------------------------------------
(* Byte strings, and where one lies in another.                            *)

\* s lies at offset p of d.
At(d, p, s) ==
  p + Len(s) <= Len(d) /\ \A i \in 1..Len(s) : d[p + i] = s[i]

LEMMA FunctionSeq ==
  ASSUME NEW S, NEW n \in Nat, NEW f \in [1..n -> S]
  PROVE  f \in Seq(S) /\ Len(f) = n
<1>1. f \in Seq(S)
  BY SeqDef
<1>2. DOMAIN f = 1..Len(f) /\ Len(f) \in Nat
  BY <1>1, LenProperties
<1>3. 1..n = 1..Len(f)
  BY <1>2
<1> QED
  BY <1>1, <1>2, <1>3

LEMMA Joined ==
  ASSUME NEW a \in Seq(Byte), NEW b \in Seq(Byte)
  PROVE  /\ a \o b \in Seq(Byte) /\ Len(a \o b) = Len(a) + Len(b)
         /\ Len(a) \in Nat /\ Len(b) \in Nat
         /\ At(a \o b, 0, a) /\ At(a \o b, Len(a), b)
<1> DEFINE c == a \o b
<1>1. Len(a) \in Nat /\ Len(b) \in Nat
  BY LenProperties
<1>2. /\ c \in Seq(Byte) /\ Len(c) = Len(a) + Len(b)
      /\ \A i \in 1..Len(a) + Len(b) :
           c[i] = IF i <= Len(a) THEN a[i] ELSE b[i - Len(a)]
  BY ConcatProperties
<1> HIDE DEF c
<1>3. At(c, 0, a)
  BY <1>1, <1>2 DEF At
<1>4. At(c, Len(a), b)
  <2>1. ASSUME NEW i \in 1..Len(b) PROVE c[Len(a) + i] = b[i]
    <3>1. /\ Len(a) + i \in 1..Len(a) + Len(b) /\ ~(Len(a) + i <= Len(a))
          /\ (Len(a) + i) - Len(a) = i
      BY <1>1
    <3> QED
      BY <1>2, <3>1
  <2> QED
    BY <1>1, <1>2, <2>1 DEF At
<1> QED
  BY <1>1, <1>2, <1>3, <1>4 DEF c

\* What lies in the first of two strings lies in both together.
LEMMA AtFirst ==
  ASSUME NEW a \in Seq(Byte), NEW b \in Seq(Byte), NEW s \in Seq(Byte),
         NEW p \in Nat, At(a, p, s)
  PROVE  At(a \o b, p, s)
<1> DEFINE c == a \o b
<1>1. /\ Len(c) = Len(a) + Len(b) /\ Len(a) \in Nat /\ Len(b) \in Nat
      /\ At(c, 0, a) /\ Len(s) \in Nat
  BY Joined, LenProperties
<1> HIDE DEF c
<1>2. ASSUME NEW i \in 1..Len(s) PROVE c[p + i] = s[i]
  <2>1. p + i \in 1..Len(a) /\ 0 + (p + i) = p + i
    BY <1>1 DEF At
  <2>2. c[0 + (p + i)] = a[p + i]
    BY <1>1, <2>1 DEF At
  <2> QED
    BY <2>1, <2>2 DEF At
<1>3. At(c, p, s)
  BY <1>1, <1>2 DEF At
<1> QED
  BY <1>3 DEF c

\* s is made of three, four or five parts.
Parts3(s, a, b, c) ==
  /\ s \in Seq(Byte) /\ Len(s) = Len(a) + Len(b) + Len(c)
  /\ At(s, 0, a) /\ At(s, Len(a), b) /\ At(s, Len(a) + Len(b), c)

Parts4(s, a, b, c, e) ==
  /\ s \in Seq(Byte) /\ Len(s) = Len(a) + Len(b) + Len(c) + Len(e)
  /\ At(s, 0, a) /\ At(s, Len(a), b) /\ At(s, Len(a) + Len(b), c)
  /\ At(s, Len(a) + Len(b) + Len(c), e)

Parts5(s, a, b, c, e, g) ==
  /\ s \in Seq(Byte) /\ Len(s) = Len(a) + Len(b) + Len(c) + Len(e) + Len(g)
  /\ At(s, 0, a) /\ At(s, Len(a), b) /\ At(s, Len(a) + Len(b), c)
  /\ At(s, Len(a) + Len(b) + Len(c), e)
  /\ At(s, Len(a) + Len(b) + Len(c) + Len(e), g)

LEMMA ThreeParts ==
  ASSUME NEW a \in Seq(Byte), NEW b \in Seq(Byte), NEW c \in Seq(Byte)
  PROVE  Parts3(a \o b \o c, a, b, c)
<1> DEFINE s == a \o b
<1>1. /\ s \in Seq(Byte) /\ Len(s) = Len(a) + Len(b) /\ At(s, 0, a)
      /\ At(s, Len(a), b) /\ Len(a) \in Nat /\ Len(b) \in Nat
  BY Joined
<1> HIDE DEF s
<1>2. /\ s \o c \in Seq(Byte) /\ Len(s \o c) = Len(s) + Len(c)
      /\ At(s \o c, Len(s), c)
  BY <1>1, Joined
<1>3. At(s \o c, 0, a) /\ At(s \o c, Len(a), b)
  BY <1>1, AtFirst
<1> QED
  BY <1>1, <1>2, <1>3 DEF s, Parts3

LEMMA FourParts ==
  ASSUME NEW a \in Seq(Byte), NEW b \in Seq(Byte), NEW c \in Seq(Byte),
         NEW e \in Seq(Byte)
  PROVE  Parts4(a \o b \o c \o e, a, b, c, e)
<1> DEFINE s == a \o b \o c
<1>0. Len(a) \in Nat /\ Len(b) \in Nat /\ Len(a) + Len(b) \in Nat
  BY LenProperties
<1>1. Parts3(s, a, b, c)
  BY ThreeParts
<1> HIDE DEF s
<1>2. /\ s \o e \in Seq(Byte) /\ Len(s \o e) = Len(s) + Len(e)
      /\ At(s \o e, Len(s), e)
  BY <1>1, Joined DEF Parts3
<1>3. /\ At(s \o e, 0, a) /\ At(s \o e, Len(a), b)
      /\ At(s \o e, Len(a) + Len(b), c)
  BY <1>0, <1>1, AtFirst DEF Parts3
<1> QED
  BY <1>1, <1>2, <1>3 DEF s, Parts3, Parts4

LEMMA FiveParts ==
  ASSUME NEW a \in Seq(Byte), NEW b \in Seq(Byte), NEW c \in Seq(Byte),
         NEW e \in Seq(Byte), NEW g \in Seq(Byte)
  PROVE  Parts5(a \o b \o c \o e \o g, a, b, c, e, g)
<1> DEFINE s == a \o b \o c \o e
<1>0. /\ Len(a) \in Nat /\ Len(b) \in Nat /\ Len(a) + Len(b) \in Nat
      /\ Len(a) + Len(b) + Len(c) \in Nat
  BY LenProperties
<1>1. Parts4(s, a, b, c, e)
  BY FourParts
<1> HIDE DEF s
<1>2. /\ s \o g \in Seq(Byte) /\ Len(s \o g) = Len(s) + Len(g)
      /\ At(s \o g, Len(s), g)
  BY <1>1, Joined DEF Parts4
<1>3. /\ At(s \o g, 0, a) /\ At(s \o g, Len(a), b)
      /\ At(s \o g, Len(a) + Len(b), c)
      /\ At(s \o g, Len(a) + Len(b) + Len(c), e)
  BY <1>0, <1>1, AtFirst DEF Parts4
<1> QED
  BY <1>1, <1>2, <1>3 DEF s, Parts4, Parts5

\* A string is cut out where it lies.
LEMMA SliceAt ==
  ASSUME NEW d \in Seq(Byte), NEW s \in Seq(Byte), NEW p \in Nat, At(d, p, s)
  PROVE  Slice(d, p, p + Len(s)) = s
<1> DEFINE c == SubSeq(d, p + 1, p + Len(s))
<1>1. Len(d) \in Nat /\ Len(s) \in Nat
  BY LenProperties
<1>2. p + 1 \in Nat \ {0} /\ p + Len(s) \in 0..Len(d)
  BY <1>1 DEF At
<1>3. /\ c \in Seq(Byte)
      /\ Len(c) = IF p + 1 <= p + Len(s) THEN (p + Len(s)) - (p + 1) + 1 ELSE 0
      /\ \A i \in 1..(p + Len(s)) - (p + 1) + 1 : c[i] = d[(p + 1) + i - 1]
  BY <1>2, PartOf
<1> HIDE DEF c
<1>4. Len(c) = Len(s)
  BY <1>1, <1>3
<1>5. ASSUME NEW i \in 1..Len(c) PROVE c[i] = s[i]
  <2>1. /\ i \in 1..(p + Len(s)) - (p + 1) + 1 /\ (p + 1) + i - 1 = p + i
        /\ i \in 1..Len(s)
    BY <1>1, <1>4
  <2>2. c[i] = d[p + i]
    BY <1>3, <2>1
  <2> QED
    BY <2>1, <2>2 DEF At
<1>6. c = s
  BY <1>3, <1>4, <1>5, SeqEqual
<1> QED
  BY <1>6 DEF c, Slice

\* A slice is a byte string.
LEMMA SliceBytes ==
  ASSUME NEW d \in Seq(Byte), NEW p \in Nat, NEW q \in p..Len(d)
  PROVE  Slice(d, p, q) \in Seq(Byte) /\ Len(Slice(d, p, q)) = q - p
<1> DEFINE c == SubSeq(d, p + 1, q)
<1>1. Len(d) \in Nat
  BY LenProperties
<1>2. p + 1 \in Nat \ {0} /\ q \in 0..Len(d)
  BY <1>1
<1>3. c \in Seq(Byte) /\ Len(c) = IF p + 1 <= q THEN q - (p + 1) + 1 ELSE 0
  BY <1>2, PartOf
<1> HIDE DEF c
<1>4. c \in Seq(Byte) /\ Len(c) = q - p
  BY <1>1, <1>2, <1>3
<1> QED
  BY <1>4 DEF c, Slice

\* Numbers.
LEMMA IsByte ==
  ASSUME NEW x \in Int
  PROVE  x \in Byte <=> x >= 0 /\ x <= 255
BY DEF Byte

LEMMA ByteAt ==
  ASSUME NEW d \in Seq(Byte), NEW i \in 1..Len(d)
  PROVE  d[i] \in Byte /\ d[i] \in Nat /\ d[i] <= 255
<1>1. d[i] \in Byte
  BY ElementOfSeq
<1>2. \A x \in Byte : x \in Nat /\ x <= 255
  BY DEF Byte
<1> QED
  BY <1>1, <1>2

LEMMA U16Word ==
  ASSUME NEW d \in Seq(Byte), NEW p \in Nat, p + 2 <= Len(d)
  PROVE  U16(d, p) \in Nat /\ U16(d, p) < 65536
<1>0. Len(d) \in Nat
  BY LenProperties
<1>1. p + 1 \in 1..Len(d) /\ p + 2 \in 1..Len(d)
  BY <1>0
<1>2. /\ d[p + 1] \in Nat /\ d[p + 1] <= 255
      /\ d[p + 2] \in Nat /\ d[p + 2] <= 255
  BY <1>1, ByteAt
<1> QED
  BY <1>2 DEF U16

LEMMA U32Nat ==
  ASSUME NEW d \in Seq(Byte), NEW p \in Nat, p + 4 <= Len(d)
  PROVE  U32(d, p) \in Nat
<1>1. Len(d) \in Nat
  BY LenProperties
<1>2. p + 2 \in Nat /\ p + 2 <= Len(d) /\ (p + 2) + 2 <= Len(d)
  BY <1>1
<1>3. U16(d, p) \in Nat /\ U16(d, p + 2) \in Nat
  BY <1>2, U16Word
<1> QED
  BY <1>3 DEF U32

---------------------------------------------------------------------------
(* Where findFieldEnd says a field ends.                                   *)

\* The loop over the blocks of a list never goes back.
LEMMA BlocksEndBehind ==
  ASSUME NEW d \in Seq(Byte), NEW p \in Nat, p + 2 <= Len(d),
         NEW head \in Nat, head >= 2, NEW unit \in Nat
  PROVE  BlocksEnd(d, p, head, unit) \in Nat /\ BlocksEnd(d, p, head, unit) > p
<1> DEFINE n == U16(d, p)
           V == {q \in Nat : q > p}
           Behind(q) == IF q + head > Len(d) THEN q
                        ELSE q + head + unit * U16(d, q + head - 2)
           Eq(f) == f = [i \in 0..n |->
                           IF i = 0 THEN p + 2
                           ELSE IF f[i - 1] + head > Len(d) THEN f[i - 1]
                           ELSE f[i - 1] + head
                                  + unit * U16(d, f[i - 1] + head - 2)]
<1>1. Len(d) \in Nat /\ n \in Nat
  BY LenProperties, U16Word
<1>2. ASSUME NEW q \in V PROVE Behind(q) \in V
  <2>1. CASE q + head > Len(d)
    BY <2>1
  <2>2. CASE ~(q + head > Len(d))
    <3>1. q \in Nat /\ q + head - 2 \in Nat /\ (q + head - 2) + 2 <= Len(d)
      BY <1>1, <2>2
    <3>2. U16(d, q + head - 2) \in Nat
      BY <3>1, U16Word
    <3>3. unit * U16(d, q + head - 2) \in Nat
      BY <3>2
    <3> QED
      BY <2>2, <3>1, <3>3
  <2> QED
    BY <2>1, <2>2
<1>3. p + 2 \in V
  OBVIOUS
<1> DEFINE step == [x \in Nat \X V |-> Behind(x[2])]
<1>4. step \in [Nat \X V -> V]
  <2> HIDE DEF V, Behind
  <2> QED
    BY <1>2
<1>5. \E f : Solution(f, V, 0, n, p + 2, step)
  <2>1. 0 \in Nat
    OBVIOUS
  <2> DEFINE v == p + 2
  <2> HIDE DEF V, step, n, v
  <2>2. v \in V
    BY <1>3 DEF v
  <2>3. \E f : Solution(f, V, 0, n, v, step)
    BY <1>1, <1>4, <2>1, <2>2, Recursion, Zenon
  <2> QED
    BY <2>3 DEF v
<1>6. PICK f : Solution(f, V, 0, n, p + 2, step)
  BY <1>5
<1>7. Eq(f)
  <2>1. f \in [0..n -> V]
    BY <1>6 DEF Solution
  <2>2. ASSUME NEW i \in 0..n
        PROVE  f[i] = IF i = 0 THEN p + 2 ELSE Behind(f[i - 1])
    <3>1. f[i] = IF i = 0 THEN p + 2 ELSE step[<<i, f[i - 1]>>]
      BY <1>6 DEF Solution
    <3>2. CASE i = 0
      BY <3>1, <3>2
    <3>3. CASE i # 0
      <4>1. i - 1 \in 0..n /\ i \in Nat
        BY <1>1, <3>3
      <4>2. f[i - 1] \in V
        BY <2>1, <4>1
      <4> HIDE DEF V, Behind
      <4> QED
        BY <3>1, <3>3, <4>1, <4>2
    <3> QED
      BY <3>2, <3>3
  <2> QED
    BY <2>1, <2>2
<1> DEFINE end == CHOOSE g : Eq(g)
<1>8. Eq(end)
  BY <1>7
<1>9. BlocksEnd(d, p, head, unit) = end[n]
  BY DEF BlocksEnd
<1> HIDE DEF end
<1>10. ASSUME NEW i \in 0..n, i # 0, end[i - 1] \in V PROVE end[i] \in V
  <2>1. end[i] = Behind(end[i - 1])
    BY <1>8, <1>10
  <2> QED
    BY <1>2, <1>10, <2>1
<1>11. end[0] \in V
  BY <1>1, <1>3, <1>8
<1>12. end[n] \in V
  <2> HIDE DEF V, n
  <2>1. \A i \in 0..n : end[i] \in V
    BY <1>1, <1>10, <1>11, StepByStep
  <2> QED
    BY <1>1, <2>1
<1> QED
  BY <1>9, <1>12

\* A field ends behind its identifier, and is found only if its counts can be
\* read.
LEMMA FieldEndBehind ==
  ASSUME NEW d \in Seq(Byte), NEW p \in Nat, NEW id \in FieldIDs
  PROVE  /\ findFieldEnd(id, d, p) \in Int
         /\ findFieldEnd(id, d, p) # -1 => findFieldEnd(id, d, p) > p
<1> USE DEF FieldVehicle, FieldMotor, FieldFuelCell, FieldEngine,
            FieldPosition, FieldExtreme, FieldAlarm, FieldVoltage,
            FieldTemperature
<1>0. Len(d) \in Nat
  BY LenProperties
<1>1. id \in {1, 2, 3, 4, 5, 6, 7, 8, 9}
  BY DEF FieldIDs
<1>2. MinBody(id) = CASE id = 1 -> 20 [] id = 2 -> 1 [] id = 3 -> 8
                      [] id = 4 -> 5 [] id = 5 -> 8 [] id = 6 -> 10
                      [] id = 7 -> 5 [] id \in {8, 9} -> 2
  BY DEF MinBody
<1>3. CASE p + MinBody(id) > Len(d)
  BY <1>3 DEF findFieldEnd
<1>4. CASE ~(p + MinBody(id) > Len(d))
  <2>1. CASE id = 2
    <3>1. p + 1 \in 1..Len(d)
      BY <1>0, <1>2, <1>4, <2>1
    <3>2. d[p + 1] \in Nat
      BY <3>1, ByteAt
    <3>3. findFieldEnd(id, d, p) = p + 1 + 12 * d[p + 1]
      BY <1>4, <2>1 DEF findFieldEnd
    <3> QED
      BY <3>2, <3>3
  <2>2. CASE id = 3
    <3>1. p + 6 \in Nat /\ (p + 6) + 2 <= Len(d)
      BY <1>0, <1>2, <1>4, <2>2
    <3>2. U16(d, p + 6) \in Nat
      BY <3>1, U16Word
    <3>3. findFieldEnd(id, d, p) = p + 8 + U16(d, p + 6) + 13
      BY <1>4, <2>2 DEF findFieldEnd
    <3> QED
      BY <3>2, <3>3
  <2>3. CASE id = 7
    <3>1. 1 \in Nat /\ 1 + 4 <= Len(d)
      BY <1>0, <1>2, <1>4, <2>3
    <3>2. U32(d, 1) \in Nat
      BY <3>1, U32Nat
    <3>3. findFieldEnd(id, d, p) = p + 5 + U32(d, 1)
      BY <1>4, <2>3 DEF findFieldEnd
    <3> QED
      BY <3>2, <3>3
  <2>4. CASE id \in {8, 9}
    <3>1. p + 2 <= Len(d)
      BY <1>0, <1>2, <1>4, <2>4
    <3>2. /\ BlocksEnd(d, p, 7, 3) \in Nat /\ BlocksEnd(d, p, 7, 3) > p
          /\ BlocksEnd(d, p, 3, 1) \in Nat /\ BlocksEnd(d, p, 3, 1) > p
      <4>1. /\ 7 \in Nat /\ 7 >= 2 /\ 3 \in Nat /\ 3 >= 2 /\ 1 \in Nat
        OBVIOUS
      <4> QED
        BY <3>1, <4>1, BlocksEndBehind
    <3>3. findFieldEnd(id, d, p) = IF id = 8 THEN BlocksEnd(d, p, 7, 3)
                                   ELSE BlocksEnd(d, p, 3, 1)
      BY <1>4, <2>4 DEF findFieldEnd
    <3> QED
      BY <3>2, <3>3
  <2>5. CASE id \in {1, 4, 5, 6}
    <3>1. findFieldEnd(id, d, p) = p + MinBody(id)
      BY <1>4, <2>5 DEF findFieldEnd
    <3>2. MinBody(id) \in {5, 8, 10, 20}
      BY <1>2, <2>5
    <3> QED
      BY <3>1, <3>2
  <2> QED
    BY <1>1, <2>1, <2>2, <2>3, <2>4, <2>5
<1> QED
  BY <1>3, <1>4

---------------------------------------------------------------------------
(* What is sent are bytes.                                                 *)

\* The six numbers of a time without the century.
LEMMA TimeParts ==
  ASSUME NEW t \in Times, NEW i \in 1..6
  PROVE  /\ t[i] \in Nat /\ t[i] - Century(i) \in Nat
         /\ t[i] - Century(i) <= 99
<1>1. t[1] \in Nat /\ t[1] >= 2000 /\ t[1] <= 2099
  BY DEF Times
<1>2. i # 1 => i \in 2..6 /\ t[i] \in Nat /\ t[i] <= 99
  BY DEF Times
<1> QED
  BY <1>1, <1>2 DEF Century

LEMMA TimeBytes ==
  ASSUME NEW t \in Times
  PROVE  /\ encodeTime6(t) \in Seq(Byte) /\ Len(encodeTime6(t)) = 6
         /\ EncodeTime(t) \in Seq(Byte) /\ Len(EncodeTime(t)) = 6
<1>1. encodeBCDTime(t) \in [1..6 -> Byte]
  <2> SUFFICES ASSUME NEW i \in 1..6, NEW n, n = t[i] - Century(i)
               PROVE  16 * (n \div 10) + (n % 10) \in Byte
    BY DEF encodeBCDTime
  <2>1. n \in Nat /\ n <= 99
    BY TimeParts
  <2>2. /\ 16 * (n \div 10) + (n % 10) \in Int
        /\ 16 * (n \div 10) + (n % 10) >= 0
        /\ 16 * (n \div 10) + (n % 10) <= 255
    BY <2>1
  <2> QED
    BY <2>2, IsByte
<1>2. encodeBinaryTime6(t) \in [1..6 -> Byte]
  <2> SUFFICES ASSUME NEW i \in 1..6
               PROVE  t[i] % (IF i = 1 THEN 100 ELSE 256) \in Byte
    BY DEF encodeBinaryTime6
  <2>1. t[i] \in Nat
    BY TimeParts
  <2> DEFINE x == t[i] % 100
             y == t[i] % 256
  <2>2. x \in Int /\ x >= 0 /\ x <= 255 /\ y \in Int /\ y >= 0 /\ y <= 255
    BY <2>1
  <2>3. x \in Byte /\ y \in Byte
    <3> HIDE DEF x, y
    <3> QED
      BY <2>2, IsByte
  <2> QED
    BY <2>3
<1>3. ASSUME NEW f \in [1..6 -> Byte] PROVE f \in Seq(Byte) /\ Len(f) = 6
  BY FunctionSeq
<1>4. /\ encodeBCDTime(t) \in Seq(Byte) /\ Len(encodeBCDTime(t)) = 6
      /\ encodeBinaryTime6(t) \in Seq(Byte) /\ Len(encodeBinaryTime6(t)) = 6
  BY <1>1, <1>2, <1>3
<1> QED
  BY <1>4 DEF encodeTime6, EncodeTime

LEMMA OneByte ==
  ASSUME NEW x \in Byte
  PROVE  <<x>> \in Seq(Byte) /\ Len(<<x>>) = 1 /\ <<x>>[1] = x
OBVIOUS

LEMMA TwoBytes ==
  ASSUME NEW x \in Byte, NEW y \in Byte
  PROVE  /\ <<x, y>> \in Seq(Byte) /\ Len(<<x, y>>) = 2
         /\ <<x, y>>[1] = x /\ <<x, y>>[2] = y
OBVIOUS

\* A remainder of 256 is a byte.
LEMMA LowByte ==
  ASSUME NEW n \in Nat
  PROVE  n % 256 \in Byte /\ n \div 256 \in Nat /\ n \div 65536 \in Nat
<1> DEFINE x == n % 256
<1>1. x \in Int /\ x >= 0 /\ x <= 255
  OBVIOUS
<1>2. x \in Byte
  <2> HIDE DEF x
  <2> QED
    BY <1>1, IsByte
<1>3. n \div 256 \in Nat /\ n \div 65536 \in Nat
  OBVIOUS
<1> QED
  BY <1>2, <1>3

LEMMA PutBytes ==
  ASSUME NEW n \in Nat
  PROVE  /\ PutUint(n, 1) \in Seq(Byte) /\ Len(PutUint(n, 1)) = 1
         /\ PutUint(n, 2) \in Seq(Byte) /\ Len(PutUint(n, 2)) = 2
         /\ PutUint(n, 4) \in Seq(Byte) /\ Len(PutUint(n, 4)) = 4
<1>1. /\ PutUint(n, 1) = <<n % 256>> /\ PutUint(n, 2) = PutU16(n)
      /\ PutUint(n, 4) = PutU16(n \div 65536) \o PutU16(n)
  BY DEF PutUint
<1>2. <<n % 256>> \in Seq(Byte) /\ Len(<<n % 256>>) = 1
  BY LowByte, OneByte
<1>3. ASSUME NEW k \in Nat PROVE PutU16(k) \in Seq(Byte) /\ Len(PutU16(k)) = 2
  <2>1. k % 256 \in Byte /\ (k \div 256) % 256 \in Byte
    <3>1. k % 256 \in Byte /\ k \div 256 \in Nat
      BY LowByte
    <3> QED
      BY <3>1, LowByte
  <2> QED
    BY <2>1, TwoBytes DEF PutU16
<1>4. n \div 65536 \in Nat
  BY LowByte
<1> DEFINE a == PutU16(n \div 65536)
           b == PutU16(n)
           c == <<n % 256>>
<1>5. a \in Seq(Byte) /\ Len(a) = 2 /\ b \in Seq(Byte) /\ Len(b) = 2
  BY <1>3, <1>4
<1>6. a \o b \in Seq(Byte) /\ Len(a \o b) = 4
  <2> HIDE DEF a, b
  <2>1. a \o b \in Seq(Byte) /\ Len(a \o b) = Len(a) + Len(b)
    BY <1>5, Joined
  <2> QED
    BY <1>5, <2>1
<1>7. c \in Seq(Byte) /\ Len(c) = 1
  BY <1>2
<1> HIDE DEF a, b, c
<1>8. PutUint(n, 1) = c /\ PutUint(n, 2) = b /\ PutUint(n, 4) = a \o b
  BY <1>1 DEF a, b, c
<1> QED
  BY <1>5, <1>6, <1>7, <1>8

LEMMA StringBytes ==
  ASSUME NEW s \in Strings
  PROVE  /\ EncodeParamString(s) \in Seq(Byte)
         /\ Len(EncodeParamString(s)) = 1 + Len(s)
         /\ EncodeParamString(s)[1] = Len(s)
         /\ s \in Seq(Byte) /\ Len(s) \in Nat
<1>1. s \in Seq(Byte) /\ Len(s) <= 255 /\ Len(s) \in Nat
  BY LenProperties DEF Strings
<1>2. Len(s) % 256 = Len(s)
  BY <1>1
<1>3. <<Len(s)>> \in Seq(Byte) /\ Len(<<Len(s)>>) = 1 /\ <<Len(s)>>[1] = Len(s)
  BY <1>1, IsByte, OneByte
<1> DEFINE h == <<Len(s)>>
           e == h \o s
<1>4. e \in Seq(Byte) /\ Len(e) = 1 + Len(s) /\ At(e, 0, h)
  BY <1>1, <1>3, Joined
<1>5. e[1] = Len(s)
  <2> HIDE DEF e
  <2> QED
    BY <1>3, <1>4 DEF At
<1> QED
  BY <1>1, <1>2, <1>4, <1>5 DEF EncodeParamString

\* Byte strings made for the elements of a list, one after the other.
LEMMA ListBytes ==
  ASSUME NEW n \in Nat, NEW f \in [1..n -> Seq(Byte)]
  PROVE  FlattenSeq(f) \in Seq(Byte)
<1>1. f \in Seq(Seq(Byte))
  BY FunctionSeq
<1> QED
  BY <1>1, Flattened

LEMMA TLVBytes ==
  ASSUME NEW ids, ids \subseteq Nat, NEW l \in ParamLists(ids), NEW w \in {1, 4}
  PROVE  EncodeTLVs(l, w) \in Seq(Byte)
<1>1. l \in Seq([id : ids, value : Strings])
  BY DEF ParamLists
<1>2. Len(l) \in Nat /\ DOMAIN l = 1..Len(l)
  BY <1>1, LenProperties
<1>3. ASSUME NEW i \in 1..Len(l)
      PROVE  PutUint(l[i].id, w) \o EncodeParamString(l[i].value) \in Seq(Byte)
  <2>1. l[i] \in [id : ids, value : Strings]
    BY <1>1, ElementOfSeq
  <2>2. l[i].id \in Nat /\ l[i].value \in Strings
    BY <2>1
  <2>3. PutUint(l[i].id, w) \in Seq(Byte)
    BY <2>2, PutBytes
  <2>4. EncodeParamString(l[i].value) \in Seq(Byte)
    BY <2>2, StringBytes
  <2> QED
    BY <2>3, <2>4, Joined
<1> DEFINE f == [i \in DOMAIN l |->
                   PutUint(l[i].id, w) \o EncodeParamString(l[i].value)]
<1>4. f \in [1..Len(l) -> Seq(Byte)]
  BY <1>2, <1>3
<1>5. FlattenSeq(f) \in Seq(Byte)
  <2> HIDE DEF f
  <2> QED
    BY <1>2, <1>4, ListBytes
<1> QED
  BY <1>5 DEF EncodeTLVs

---------------------------------------------------------------------------
(* The layout of every body.                                               *)

LEMMA LoginLayout ==
  ASSUME NEW b \in BodiesOf("login")
  PROVE  LET d == EncodeLogin(b)
             n == Len(b.iccid)
         IN /\ d \in Seq(Byte) /\ n \in Nat
            /\ Len(d) = 10 + n + Len(EncodeTLVs(b.list, 1))
            /\ At(d, 0, EncodeTime(b.time)) /\ At(d, 6, PutUint(b.seq, 2))
            /\ At(d, 8, EncodeParamString(b.iccid))
            /\ At(d, 9 + n, <<Len(b.list)>>)
            /\ At(d, 10 + n, EncodeTLVs(b.list, 1))
<1> DEFINE T == EncodeTime(b.time)
           P == PutUint(b.seq, 2)
           S == EncodeParamString(b.iccid)
           C == <<Len(b.list)>>
           L == EncodeTLVs(b.list, 1)
           n == Len(b.iccid)
<1>1. /\ b.time \in Times /\ b.seq \in Nat /\ b.iccid \in Strings
      /\ b.list \in ParamLists(Byte) /\ Len(b.list) = b.count /\ b.count \in Byte
  <2>1. BodiesOf("login") =
          {c \in [time : Times, seq : Word, iccid : Strings, count : Byte,
                  list : ParamLists(Byte)] : c.count = Len(c.list)}
    BY DEF BodiesOf
  <2>2. Word \subseteq Nat
    BY DEF Word
  <2> QED
    BY <2>1, <2>2
<1>2. T \in Seq(Byte) /\ Len(T) = 6
  BY <1>1, TimeBytes
<1>3. P \in Seq(Byte) /\ Len(P) = 2
  BY <1>1, PutBytes
<1>4. S \in Seq(Byte) /\ Len(S) = 1 + n /\ n \in Nat
  BY <1>1, StringBytes
<1>5. C \in Seq(Byte) /\ Len(C) = 1
  BY <1>1, OneByte
<1>6. L \in Seq(Byte)
  <2>1. Byte \subseteq Nat
    BY DEF Byte
  <2> QED
    BY <1>1, <2>1, TLVBytes
<1>7. EncodeLogin(b) = T \o P \o S \o C \o L
  BY DEF EncodeLogin
<1> HIDE DEF T, P, S, C, L, n
<1> DEFINE d == T \o P \o S \o C \o L
<1>8. Parts5(d, T, P, S, C, L)
  BY <1>2, <1>3, <1>4, <1>5, <1>6, FiveParts
<1> HIDE DEF d
<1>9. /\ Len(T) + Len(P) = 8 /\ Len(T) + Len(P) + Len(S) = 9 + n
      /\ Len(T) + Len(P) + Len(S) + Len(C) = 10 + n
  BY <1>2, <1>3, <1>4, <1>5
<1>10. /\ d \in Seq(Byte) /\ Len(d) = 10 + n + Len(L)
       /\ At(d, 0, T) /\ At(d, 6, P) /\ At(d, 8, S) /\ At(d, 9 + n, C)
       /\ At(d, 10 + n, L)
  BY <1>2, <1>8, <1>9 DEF Parts5
<1>11. EncodeLogin(b) = d
  BY <1>7 DEF d
<1> QED
  BY <1>4, <1>10, <1>11 DEF T, P, S, C, L, n

LEMMA CountByte ==
  ASSUME NEW n \in Byte
  PROVE  n % 256 = n /\ n % 256 \in Byte
<1>1. n \in Nat /\ n <= 255
  BY DEF Byte
<1>2. n % 256 = n
  BY <1>1
<1> QED
  BY <1>2

LEMMA IdBytes ==
  ASSUME NEW l \in Seq(LongWord)
  PROVE  FlattenSeq([i \in DOMAIN l |-> PutUint(l[i], 4)]) \in Seq(Byte)
<1> DEFINE f == [i \in DOMAIN l |-> PutUint(l[i], 4)]
<1>1. Len(l) \in Nat /\ DOMAIN l = 1..Len(l)
  BY LenProperties
<1>2. ASSUME NEW i \in 1..Len(l) PROVE PutUint(l[i], 4) \in Seq(Byte)
  <2>1. l[i] \in Nat
    BY ElementOfSeq DEF LongWord
  <2> QED
    BY <2>1, PutBytes
<1>3. f \in [1..Len(l) -> Seq(Byte)]
  BY <1>1, <1>2
<1> HIDE DEF f
<1>4. FlattenSeq(f) \in Seq(Byte)
  BY <1>1, <1>3, ListBytes
<1> QED
  BY <1>4 DEF f

LEMMA LogoutLayout ==
  ASSUME NEW b \in BodiesOf("logout")
  PROVE  LET d == EncodeLogout(b) IN
         /\ d \in Seq(Byte) /\ Len(d) = 8
         /\ At(d, 0, EncodeTime(b.time))
         /\ At(d, 6, PutUint(b.seq, 2))
<1> DEFINE T == EncodeTime(b.time)
           P == PutUint(b.seq, 2)
<1>1. b.time \in Times /\ b.seq \in Nat
  <2>1. BodiesOf("logout") =
          [time : Times, seq : Word]
    BY DEF BodiesOf
  <2>2. Word \subseteq Nat /\ LongWord \subseteq Nat /\ Byte \subseteq Nat
    BY DEF Word, LongWord, Byte
  <2>3. b \in [time : Times, seq : Word]
    BY <2>1
  <2> QED
    BY <2>2, <2>3
<1>2. T \in Seq(Byte) /\ Len(T) = 6
  BY <1>1, TimeBytes
<1>3. P \in Seq(Byte) /\ Len(P) = 2
  BY <1>1, PutBytes
<1>4. EncodeLogout(b) = T \o P
  BY DEF EncodeLogout
<1> HIDE DEF T, P
<1> DEFINE d == T \o P
<1>5. /\ d \in Seq(Byte) /\ Len(d) = Len(T) + Len(P)
      /\ At(d, 0, T) /\ At(d, Len(T), P)
  BY <1>2, <1>3, Joined
<1> HIDE DEF d
<1>6. /\ d \in Seq(Byte) /\ Len(d) = 8
      /\ At(d, 0, T)
      /\ At(d, 6, P)
  BY <1>2, <1>3, <1>5
<1>7. EncodeLogout(b) = d
  BY <1>4 DEF d
<1> QED
  BY <1>6, <1>7 DEF T, P

LEMMA PlatLogoutLayout ==
  ASSUME NEW b \in BodiesOf("platlogout")
  PROVE  LET d == SendPlatLogout(b) IN
         /\ d \in Seq(Byte) /\ Len(d) = 8
         /\ At(d, 0, encodeTime6(b.time))
         /\ At(d, 6, <<0, 0>>)
<1> DEFINE T == encodeTime6(b.time)
           Z == <<0, 0>>
<1>1. b.time \in Times
  <2>1. BodiesOf("platlogout") =
          [time : Times, seq : {0}]
    BY DEF BodiesOf
  <2>2. Word \subseteq Nat /\ LongWord \subseteq Nat /\ Byte \subseteq Nat
    BY DEF Word, LongWord, Byte
  <2>3. b \in [time : Times, seq : {0}]
    BY <2>1
  <2> QED
    BY <2>2, <2>3
<1>2. T \in Seq(Byte) /\ Len(T) = 6
  BY <1>1, TimeBytes
<1>3. Z \in Seq(Byte) /\ Len(Z) = 2
  BY TwoBytes, IsByte
<1>4. SendPlatLogout(b) = T \o Z
  BY DEF SendPlatLogout
<1> HIDE DEF T, Z
<1> DEFINE d == T \o Z
<1>5. /\ d \in Seq(Byte) /\ Len(d) = Len(T) + Len(Z)
      /\ At(d, 0, T) /\ At(d, Len(T), Z)
  BY <1>2, <1>3, Joined
<1> HIDE DEF d
<1>6. /\ d \in Seq(Byte) /\ Len(d) = 8
      /\ At(d, 0, T)
      /\ At(d, 6, Z)
  BY <1>2, <1>3, <1>5
<1>7. SendPlatLogout(b) = d
  BY <1>4 DEF d
<1> QED
  BY <1>6, <1>7 DEF T, Z

LEMMA PlatLoginLayout ==
  ASSUME NEW b \in BodiesOf("platlogin")
  PROVE  LET d == SendPlatLogin(b) IN
         /\ d \in Seq(Byte) /\ Len(d) = 10 + Len(b.user) + Len(b.password)
         /\ At(d, 0, encodeTime6(b.time))
         /\ At(d, 6, <<0, 0>>)
         /\ At(d, 8, EncodeParamString(b.user))
         /\ At(d, 9 + Len(b.user), EncodeParamString(b.password))
<1> DEFINE T == encodeTime6(b.time)
           Z == <<0, 0>>
           U == EncodeParamString(b.user)
           W == EncodeParamString(b.password)
<1>1. b.time \in Times /\ b.user \in Strings /\ b.password \in Strings
  <2>1. BodiesOf("platlogin") =
          [time : Times, seq : {0}, user : Strings, password : Strings]
    BY DEF BodiesOf
  <2>2. Word \subseteq Nat /\ LongWord \subseteq Nat /\ Byte \subseteq Nat
    BY DEF Word, LongWord, Byte
  <2>3. b \in [time : Times, seq : {0}, user : Strings, password : Strings]
    BY <2>1
  <2> QED
    BY <2>2, <2>3
<1>2. T \in Seq(Byte) /\ Len(T) = 6
  BY <1>1, TimeBytes
<1>3. Z \in Seq(Byte) /\ Len(Z) = 2
  BY TwoBytes, IsByte
<1>4. U \in Seq(Byte) /\ Len(U) = 1 + Len(b.user) /\ Len(b.user) \in Nat
  BY <1>1, StringBytes
<1>5. W \in Seq(Byte) /\ Len(W) = 1 + Len(b.password)
      /\ Len(b.password) \in Nat
  BY <1>1, StringBytes
<1>6. SendPlatLogin(b) = T \o Z \o U \o W
  BY DEF SendPlatLogin
<1> HIDE DEF T, Z, U, W
<1> DEFINE d == T \o Z \o U \o W
<1>7. Parts4(d, T, Z, U, W)
  BY <1>2, <1>3, <1>4, <1>5, FourParts
<1> HIDE DEF d
<1>8. /\ Len(T) + Len(Z) = 8
      /\ Len(T) + Len(Z) + Len(U) = 9 + Len(b.user)
  BY <1>2, <1>3, <1>4, <1>5
<1>9. /\ d \in Seq(Byte) /\ Len(d) = 10 + Len(b.user) + Len(b.password)
      /\ At(d, 0, T)
      /\ At(d, 6, Z)
      /\ At(d, 8, U)
      /\ At(d, 9 + Len(b.user), W)
  <2> DEFINE u == Len(b.user)
             w == Len(b.password)
  <2>1. u \in Nat /\ w \in Nat /\ Len(U) = 1 + u /\ Len(W) = 1 + w
    BY <1>4, <1>5
  <2>2. Len(T) = 6 /\ Len(Z) = 2
    BY <1>2, <1>3
  <2> HIDE DEF u, w
  <2>3. Len(T) + Len(Z) + Len(U) + Len(W) = 10 + u + w
    BY <2>1, <2>2
  <2>4. Len(T) + Len(Z) + Len(U) + Len(W) = 10 + Len(b.user) + Len(b.password)
    BY <2>3 DEF u, w
  <2> QED
    BY <1>7, <1>8, <2>2, <2>4 DEF Parts4
<1>10. SendPlatLogin(b) = d
  BY <1>6 DEF d
<1> QED
  BY <1>9, <1>10 DEF T, Z, U, W

LEMMA ParamSettingLayout ==
  ASSUME NEW b \in BodiesOf("paramsetting")
  PROVE  LET d == SendParamSetting(b) IN
         /\ d \in Seq(Byte) /\ Len(d) = 7 + Len(EncodeTLVs(b.list, 4))
         /\ At(d, 0, encodeTime6(b.time))
         /\ At(d, 6, <<Len(b.list) % 256>>)
         /\ At(d, 7, EncodeTLVs(b.list, 4))
<1> DEFINE T == encodeTime6(b.time)
           C == <<Len(b.list) % 256>>
           L == EncodeTLVs(b.list, 4)
<1>1. /\ b.time \in Times /\ b.list \in ParamLists(LongWord)
      /\ Len(b.list) = b.count /\ b.count \in Byte /\ LongWord \subseteq Nat
  <2>1. BodiesOf("paramsetting") =
          {c \in [time : Times, count : Byte, list : ParamLists(LongWord)] :
             c.count = Len(c.list)}
    BY DEF BodiesOf
  <2>2. Word \subseteq Nat /\ LongWord \subseteq Nat /\ Byte \subseteq Nat
    BY DEF Word, LongWord, Byte
  <2>3. b \in {c \in [time : Times, count : Byte, list : ParamLists(LongWord)] :
             c.count = Len(c.list)}
    BY <2>1
  <2> QED
    BY <2>2, <2>3
<1>2. T \in Seq(Byte) /\ Len(T) = 6
  BY <1>1, TimeBytes
<1>3. C \in Seq(Byte) /\ Len(C) = 1
  BY <1>1, CountByte, OneByte
<1>4. L \in Seq(Byte) /\ Len(L) \in Nat
  BY <1>1, TLVBytes, LenProperties
<1>5. SendParamSetting(b) = T \o C \o L
  BY DEF SendParamSetting
<1> HIDE DEF T, C, L
<1> DEFINE d == T \o C \o L
<1>6. Parts3(d, T, C, L)
  BY <1>2, <1>3, <1>4, ThreeParts
<1> HIDE DEF d
<1>7. Len(T) + Len(C) = 7
  BY <1>2, <1>3, <1>4
<1>8. /\ d \in Seq(Byte) /\ Len(d) = 7 + Len(L)
      /\ At(d, 0, T)
      /\ At(d, 6, C)
      /\ At(d, 7, L)
  BY <1>2, <1>3, <1>4, <1>6, <1>7 DEF Parts3
<1>9. SendParamSetting(b) = d
  BY <1>5 DEF d
<1> QED
  BY <1>8, <1>9 DEF T, C, L

LEMMA ParamAnswerLayout ==
  ASSUME NEW b \in BodiesOf("paramanswer")
  PROVE  LET d == sendParamQueryResponse(b) IN
         /\ d \in Seq(Byte) /\ Len(d) = 1 + Len(EncodeTLVs(b.list, 4))
         /\ At(d, 0, <<b.count>>)
         /\ At(d, 1, EncodeTLVs(b.list, 4))
<1> DEFINE C == <<b.count>>
           L == EncodeTLVs(b.list, 4)
<1>1. /\ b.list \in ParamLists(LongWord) /\ b.count \in Byte
      /\ LongWord \subseteq Nat
  <2>1. BodiesOf("paramanswer") =
          {c \in [count : Byte, list : ParamLists(LongWord)] :
             c.count = Len(c.list)}
    BY DEF BodiesOf
  <2>2. Word \subseteq Nat /\ LongWord \subseteq Nat /\ Byte \subseteq Nat
    BY DEF Word, LongWord, Byte
  <2>3. b \in {c \in [count : Byte, list : ParamLists(LongWord)] :
             c.count = Len(c.list)}
    BY <2>1
  <2> QED
    BY <2>2, <2>3
<1>2. C \in Seq(Byte) /\ Len(C) = 1
  BY <1>1, OneByte
<1>3. L \in Seq(Byte) /\ Len(L) \in Nat
  BY <1>1, TLVBytes, LenProperties
<1>4. sendParamQueryResponse(b) = C \o L
  BY DEF sendParamQueryResponse
<1> HIDE DEF C, L
<1> DEFINE d == C \o L
<1>5. /\ d \in Seq(Byte) /\ Len(d) = Len(C) + Len(L)
      /\ At(d, 0, C) /\ At(d, Len(C), L)
  BY <1>2, <1>3, Joined
<1> HIDE DEF d
<1>6. /\ d \in Seq(Byte) /\ Len(d) = 1 + Len(L)
      /\ At(d, 0, C)
      /\ At(d, 1, L)
  BY <1>2, <1>3, <1>5
<1>7. sendParamQueryResponse(b) = d
  BY <1>4 DEF d
<1> QED
  BY <1>6, <1>7 DEF C, L

LEMMA LoginResponseLayout ==
  ASSUME NEW b \in BodiesOf("loginresponse")
  PROVE  LET d == EncodeLoginResponse(b) IN
         /\ d \in Seq(Byte) /\ Len(d) = 9 + Len(b.token)
         /\ At(d, 0, encodeTime6(b.time))
         /\ At(d, 6, PutUint(b.seq, 2))
         /\ At(d, 8, <<b.result>>)
         /\ At(d, 9, b.token)
<1> DEFINE T == encodeTime6(b.time)
           P == PutUint(b.seq, 2)
           C == <<b.result>>
           K == b.token
<1>1. /\ b.time \in Times /\ b.seq \in Nat /\ b.result \in Byte
      /\ b.token \in Seq(Byte)
  <2>1. BodiesOf("loginresponse") =
          [time : Times, seq : Word, result : Byte, token : Seq(Byte)]
    BY DEF BodiesOf
  <2>2. Word \subseteq Nat /\ LongWord \subseteq Nat /\ Byte \subseteq Nat
    BY DEF Word, LongWord, Byte
  <2>3. b \in [time : Times, seq : Word, result : Byte, token : Seq(Byte)]
    BY <2>1
  <2> QED
    BY <2>2, <2>3
<1>2. T \in Seq(Byte) /\ Len(T) = 6
  BY <1>1, TimeBytes
<1>3. P \in Seq(Byte) /\ Len(P) = 2
  BY <1>1, PutBytes
<1>4. C \in Seq(Byte) /\ Len(C) = 1
  BY <1>1, OneByte
<1>5. K \in Seq(Byte) /\ Len(K) \in Nat
  BY <1>1, LenProperties
<1>6. EncodeLoginResponse(b) = T \o P \o C \o K
  BY DEF EncodeLoginResponse
<1> HIDE DEF T, P, C, K
<1> DEFINE d == T \o P \o C \o K
<1>7. Parts4(d, T, P, C, K)
  BY <1>2, <1>3, <1>4, <1>5, FourParts
<1> HIDE DEF d
<1>8. /\ Len(T) + Len(P) = 8
      /\ Len(T) + Len(P) + Len(C) = 9
  BY <1>2, <1>3, <1>4, <1>5
<1>9. /\ d \in Seq(Byte) /\ Len(d) = 9 + Len(K)
      /\ At(d, 0, T)
      /\ At(d, 6, P)
      /\ At(d, 8, C)
      /\ At(d, 9, K)
  BY <1>2, <1>3, <1>4, <1>5, <1>7, <1>8 DEF Parts4
<1>10. EncodeLoginResponse(b) = d
  BY <1>6 DEF d
<1> QED
  BY <1>9, <1>10 DEF T, P, C, K

LEMMA ParamQueryLayout ==
  ASSUME NEW b \in BodiesOf("paramquery")
  PROVE  LET d == SendParamQuery(b) IN
         /\ d \in Seq(Byte)
         /\ Len(d) = 7 + Len(FlattenSeq([i \in DOMAIN b.ids |->
                                           PutUint(b.ids[i], 4)]))
         /\ At(d, 0, encodeTime6(b.time))
         /\ At(d, 6, <<Len(b.ids) % 256>>)
         /\ At(d, 7, FlattenSeq([i \in DOMAIN b.ids |-> PutUint(b.ids[i], 4)]))
<1> DEFINE T == encodeTime6(b.time)
           C == <<Len(b.ids) % 256>>
           L == FlattenSeq([i \in DOMAIN b.ids |-> PutUint(b.ids[i], 4)])
<1>1. /\ b.time \in Times /\ b.ids \in Seq(LongWord)
      /\ Len(b.ids) = b.count /\ b.count \in Byte /\ LongWord \subseteq Nat
  <2>1. BodiesOf("paramquery") =
          {c \in [time : Times, count : Byte, ids : Seq(LongWord)] :
             c.count = Len(c.ids)}
    BY DEF BodiesOf
  <2>2. Word \subseteq Nat /\ LongWord \subseteq Nat /\ Byte \subseteq Nat
    BY DEF Word, LongWord, Byte
  <2>3. b \in {c \in [time : Times, count : Byte, ids : Seq(LongWord)] :
             c.count = Len(c.ids)}
    BY <2>1
  <2> QED
    BY <2>2, <2>3
<1>2. T \in Seq(Byte) /\ Len(T) = 6
  BY <1>1, TimeBytes
<1>3. C \in Seq(Byte) /\ Len(C) = 1
  BY <1>1, CountByte, OneByte
<1>4. L \in Seq(Byte) /\ Len(L) \in Nat
  BY <1>1, IdBytes, LenProperties
<1>5. SendParamQuery(b) = T \o C \o L
  BY DEF SendParamQuery
<1> HIDE DEF T, C, L
<1> DEFINE d == T \o C \o L
<1>6. Parts3(d, T, C, L)
  BY <1>2, <1>3, <1>4, ThreeParts
<1> HIDE DEF d
<1>7. Len(T) + Len(C) = 7
  BY <1>2, <1>3, <1>4
<1>8. /\ d \in Seq(Byte) /\ Len(d) = 7 + Len(L)
      /\ At(d, 0, T)
      /\ At(d, 6, C)
      /\ At(d, 7, L)
  BY <1>2, <1>3, <1>4, <1>6, <1>7 DEF Parts3
<1>9. SendParamQuery(b) = d
  BY <1>5 DEF d
<1> QED
  BY <1>8, <1>9 DEF T, C, L

---------------------------------------------------------------------------
(* No decoder refuses what its encoder made.                               *)

Accepts(d, result) == d \in Seq(Byte) /\ result.err = FALSE

\* The byte in front of a string is its length, and the string is there.
LEMMA LoginAccepted ==
  ASSUME NEW b \in BodiesOf("login")
  PROVE  Accepts(EncodeLogin(b), DecodeLoginData(EncodeLogin(b)))
<1> DEFINE d == EncodeLogin(b)
           n == Len(b.iccid)
           S == EncodeParamString(b.iccid)
           L == EncodeTLVs(b.list, 1)
<1>1. d \in Seq(Byte) /\ n \in Nat /\ Len(d) = 10 + n + Len(L) /\ At(d, 8, S)
  BY LoginLayout
<1>2. Len(L) \in Nat
  <2>1. BodiesOf("login") =
          {c \in [time : Times, seq : Word, iccid : Strings, count : Byte,
                  list : ParamLists(Byte)] : c.count = Len(c.list)}
    BY DEF BodiesOf
  <2>2. b.list \in ParamLists(Byte)
    BY <2>1
  <2>3. Byte \subseteq Nat
    BY DEF Byte
  <2> QED
    BY <2>2, <2>3, TLVBytes, LenProperties
<1>3. S[1] = n /\ Len(S) = 1 + n
  <2>1. BodiesOf("login") =
          {c \in [time : Times, seq : Word, iccid : Strings, count : Byte,
                  list : ParamLists(Byte)] : c.count = Len(c.list)}
    BY DEF BodiesOf
  <2>2. b.iccid \in Strings
    BY <2>1
  <2> QED
    BY <2>2, StringBytes
<1> HIDE DEF d, n, S, L
<1>4. d[9] = n
  <2>1. 1 \in 1..Len(S) /\ 8 + 1 = 9
    BY <1>1, <1>3
  <2>2. d[8 + 1] = S[1]
    BY <1>1, <2>1 DEF At
  <2> QED
    BY <1>3, <2>1, <2>2
<1>5. ~(Len(d) < 9 \/ 9 + d[9] > Len(d))
  BY <1>1, <1>2, <1>4
<1>6. DecodeLoginData(d).err = FALSE
  BY <1>5 DEF DecodeLoginData, Decoded
<1> QED
  BY <1>1, <1>6 DEF d, Accepts

LEMMA LogoutAccepted ==
  ASSUME NEW b \in BodiesOf("logout")
  PROVE  Accepts(EncodeLogout(b), DecodeLogoutData(EncodeLogout(b)))
<1> DEFINE d == EncodeLogout(b)
<1>1. d \in Seq(Byte) /\ Len(d) >= 8
  <2>1. d \in Seq(Byte) /\ Len(d) = 8
    BY LogoutLayout
  <2> HIDE DEF d
  <2> QED
    BY <2>1
<1> HIDE DEF d
<1>2. ~(Len(d) < 8)
  BY <1>1, LenProperties
<1>3. DecodeLogoutData(d).err = FALSE
  BY <1>2 DEF DecodeLogoutData, Decoded
<1> QED
  BY <1>1, <1>3 DEF d, Accepts

LEMMA PlatLogoutAccepted ==
  ASSUME NEW b \in BodiesOf("platlogout")
  PROVE  Accepts(SendPlatLogout(b), DecodePlatLogoutResponse(SendPlatLogout(b)))
<1> DEFINE d == SendPlatLogout(b)
<1>1. d \in Seq(Byte) /\ Len(d) >= 8
  <2>1. d \in Seq(Byte) /\ Len(d) = 8
    BY PlatLogoutLayout
  <2> HIDE DEF d
  <2> QED
    BY <2>1
<1> HIDE DEF d
<1>2. ~(Len(d) < 8)
  BY <1>1, LenProperties
<1>3. DecodePlatLogoutResponse(d).err = FALSE
  BY <1>2 DEF DecodePlatLogoutResponse, DecodeLogoutData, Decoded
<1> QED
  BY <1>1, <1>3 DEF d, Accepts

LEMMA PlatLoginAccepted ==
  ASSUME NEW b \in BodiesOf("platlogin")
  PROVE  Accepts(SendPlatLogin(b), DecodePlatLoginResponse(SendPlatLogin(b)))
<1> DEFINE d == SendPlatLogin(b)
<1>1. d \in Seq(Byte) /\ Len(d) >= 8
  <2> DEFINE u == Len(b.user)
             w == Len(b.password)
  <2>1. d \in Seq(Byte) /\ Len(d) = 10 + u + w
    BY PlatLoginLayout
  <2>2. BodiesOf("platlogin") =
          [time : Times, seq : {0}, user : Strings, password : Strings]
    BY DEF BodiesOf
  <2>3. b.user \in Strings /\ b.password \in Strings
    <3>1. b \in [time : Times, seq : {0}, user : Strings, password : Strings]
      BY <2>2
    <3> QED
      BY <3>1
  <2>4. u \in Nat /\ w \in Nat
    BY <2>3, StringBytes
  <2> HIDE DEF d, u, w
  <2> QED
    BY <2>1, <2>4
<1> HIDE DEF d
<1>2. ~(Len(d) < 8)
  BY <1>1, LenProperties
<1>3. DecodePlatLoginResponse(d).err = FALSE
  BY <1>2 DEF DecodePlatLoginResponse, Decoded
<1> QED
  BY <1>1, <1>3 DEF d, Accepts

LEMMA ParamQueryAccepted ==
  ASSUME NEW b \in BodiesOf("paramquery")
  PROVE  Accepts(SendParamQuery(b), DecodeParamQueryData(SendParamQuery(b)))
<1> DEFINE d == SendParamQuery(b)
<1>1. d \in Seq(Byte) /\ Len(d) >= 7
  <2> DEFINE L == FlattenSeq([i \in DOMAIN b.ids |-> PutUint(b.ids[i], 4)])
  <2>1. d \in Seq(Byte) /\ Len(d) = 7 + Len(L) 
    BY ParamQueryLayout
  <2>2. Len(L) \in Nat
    <3>1. BodiesOf("paramquery") =
            {c \in [time : Times, count : Byte, ids : Seq(LongWord)] :
               c.count = Len(c.ids)}
      BY DEF BodiesOf
    <3>2. b.ids \in Seq(LongWord)
      BY <3>1
    <3> QED
      BY <3>2, IdBytes, LenProperties
  <2> HIDE DEF d, L
  <2> QED
    BY <2>1, <2>2
<1> HIDE DEF d
<1>2. ~(Len(d) < 7)
  BY <1>1, LenProperties
<1>3. DecodeParamQueryData(d).err = FALSE
  BY <1>2 DEF DecodeParamQueryData, Decoded
<1> QED
  BY <1>1, <1>3 DEF d, Accepts

LEMMA ParamSettingAccepted ==
  ASSUME NEW b \in BodiesOf("paramsetting")
  PROVE  Accepts(SendParamSetting(b), DecodeParamSettingData(SendParamSetting(b)))
<1> DEFINE d == SendParamSetting(b)
<1>1. d \in Seq(Byte) /\ Len(d) >= 7
  <2> DEFINE L == EncodeTLVs(b.list, 4)
  <2>1. d \in Seq(Byte) /\ Len(d) = 7 + Len(L) 
    BY ParamSettingLayout
  <2>2. Len(L) \in Nat
    <3>1. BodiesOf("paramsetting") =
            {c \in [time : Times, count : Byte, list : ParamLists(LongWord)] :
               c.count = Len(c.list)}
      BY DEF BodiesOf
    <3>2. b.list \in ParamLists(LongWord)
      BY <3>1
    <3>3. LongWord \subseteq Nat
      BY DEF LongWord
    <3> QED
      BY <3>2, <3>3, TLVBytes, LenProperties
  <2> HIDE DEF d, L
  <2> QED
    BY <2>1, <2>2
<1> HIDE DEF d
<1>2. ~(Len(d) < 7)
  BY <1>1, LenProperties
<1>3. DecodeParamSettingData(d).err = FALSE
  BY <1>2 DEF DecodeParamSettingData, Decoded
<1> QED
  BY <1>1, <1>3 DEF d, Accepts

LEMMA ParamAnswerAccepted ==
  ASSUME NEW b \in BodiesOf("paramanswer")
  PROVE  Accepts(sendParamQueryResponse(b), ReadParamAnswer(sendParamQueryResponse(b)))
<1> DEFINE d == sendParamQueryResponse(b)
<1>1. d \in Seq(Byte) /\ Len(d) >= 1
  <2> DEFINE L == EncodeTLVs(b.list, 4)
  <2>1. d \in Seq(Byte) /\ Len(d) = 1 + Len(L) 
    BY ParamAnswerLayout
  <2>2. Len(L) \in Nat
    <3>1. BodiesOf("paramanswer") =
            {c \in [count : Byte, list : ParamLists(LongWord)] :
               c.count = Len(c.list)}
      BY DEF BodiesOf
    <3>2. b.list \in ParamLists(LongWord)
      BY <3>1
    <3>3. LongWord \subseteq Nat
      BY DEF LongWord
    <3> QED
      BY <3>2, <3>3, TLVBytes, LenProperties
  <2> HIDE DEF d, L
  <2> QED
    BY <2>1, <2>2
<1> HIDE DEF d
<1>2. ~(Len(d) < 1)
  BY <1>1, LenProperties
<1>3. ReadParamAnswer(d).err = FALSE
  BY <1>2 DEF ReadParamAnswer, Decoded
<1> QED
  BY <1>1, <1>3 DEF d, Accepts

LEMMA LoginResponseAccepted ==
  ASSUME NEW b \in BodiesOf("loginresponse")
  PROVE  Accepts(EncodeLoginResponse(b), ReadLoginResponse(EncodeLoginResponse(b)))
<1> DEFINE d == EncodeLoginResponse(b)
<1>1. d \in Seq(Byte) /\ Len(d) >= 9
  <2> DEFINE L == b.token
  <2>1. d \in Seq(Byte) /\ Len(d) = 9 + Len(L) 
    BY LoginResponseLayout
  <2>2. Len(L) \in Nat
    <3>1. BodiesOf("loginresponse") =
            [time : Times, seq : Word, result : Byte, token : Seq(Byte)]
      BY DEF BodiesOf
    <3>2. b.token \in Seq(Byte)
      <4>1. b \in [time : Times, seq : Word, result : Byte, token : Seq(Byte)]
        BY <3>1
      <4> QED
        BY <4>1
    <3> QED
      BY <3>2, LenProperties
  <2> HIDE DEF d, L
  <2> QED
    BY <2>1, <2>2
<1> HIDE DEF d
<1>2. ~(Len(d) < 9)
  BY <1>1, LenProperties
<1>3. ReadLoginResponse(d).err = FALSE
  BY <1>2 DEF ReadLoginResponse, Decoded
<1> QED
  BY <1>1, <1>3 DEF d, Accepts

LEMMA BodyAccepted ==
  ASSUME NEW kind \in BodyKinds, NEW b \in BodiesOf(kind)
  PROVE  Accepts(EncodeBody(kind, b), DecodeBody(kind, EncodeBody(kind, b)))
<1>1. CASE kind = "login"
  <2>1. /\ EncodeBody(kind, b) = EncodeLogin(b)
        /\ \A d : DecodeBody(kind, d) = DecodeLoginData(d)
    BY <1>1 DEF EncodeBody, DecodeBody
  <2>2. Accepts(EncodeLogin(b), DecodeLoginData(EncodeLogin(b)))
    BY <1>1, LoginAccepted
  <2> QED
    BY <2>1, <2>2
<1>2. CASE kind = "logout"
  <2>1. /\ EncodeBody(kind, b) = EncodeLogout(b)
        /\ \A d : DecodeBody(kind, d) = DecodeLogoutData(d)
    BY <1>2 DEF EncodeBody, DecodeBody
  <2>2. Accepts(EncodeLogout(b), DecodeLogoutData(EncodeLogout(b)))
    BY <1>2, LogoutAccepted
  <2> QED
    BY <2>1, <2>2
<1>3. CASE kind = "platlogout"
  <2>1. /\ EncodeBody(kind, b) = SendPlatLogout(b)
        /\ \A d : DecodeBody(kind, d) = DecodePlatLogoutResponse(d)
    BY <1>3 DEF EncodeBody, DecodeBody
  <2>2. Accepts(SendPlatLogout(b), DecodePlatLogoutResponse(SendPlatLogout(b)))
    BY <1>3, PlatLogoutAccepted
  <2> QED
    BY <2>1, <2>2
<1>4. CASE kind = "platlogin"
  <2>1. /\ EncodeBody(kind, b) = SendPlatLogin(b)
        /\ \A d : DecodeBody(kind, d) = DecodePlatLoginResponse(d)
    BY <1>4 DEF EncodeBody, DecodeBody
  <2>2. Accepts(SendPlatLogin(b), DecodePlatLoginResponse(SendPlatLogin(b)))
    BY <1>4, PlatLoginAccepted
  <2> QED
    BY <2>1, <2>2
<1>5. CASE kind = "paramquery"
  <2>1. /\ EncodeBody(kind, b) = SendParamQuery(b)
        /\ \A d : DecodeBody(kind, d) = DecodeParamQueryData(d)
    BY <1>5 DEF EncodeBody, DecodeBody
  <2>2. Accepts(SendParamQuery(b), DecodeParamQueryData(SendParamQuery(b)))
    BY <1>5, ParamQueryAccepted
  <2> QED
    BY <2>1, <2>2
<1>6. CASE kind = "paramsetting"
  <2>1. /\ EncodeBody(kind, b) = SendParamSetting(b)
        /\ \A d : DecodeBody(kind, d) = DecodeParamSettingData(d)
    BY <1>6 DEF EncodeBody, DecodeBody
  <2>2. Accepts(SendParamSetting(b), DecodeParamSettingData(SendParamSetting(b)))
    BY <1>6, ParamSettingAccepted
  <2> QED
    BY <2>1, <2>2
<1>7. CASE kind = "paramanswer"
  <2>1. /\ EncodeBody(kind, b) = sendParamQueryResponse(b)
        /\ \A d : DecodeBody(kind, d) = ReadParamAnswer(d)
    BY <1>7 DEF EncodeBody, DecodeBody
  <2>2. Accepts(sendParamQueryResponse(b), ReadParamAnswer(sendParamQueryResponse(b)))
    BY <1>7, ParamAnswerAccepted
  <2> QED
    BY <2>1, <2>2
<1>8. CASE kind = "loginresponse"
  <2>1. /\ EncodeBody(kind, b) = EncodeLoginResponse(b)
        /\ \A d : DecodeBody(kind, d) = ReadLoginResponse(d)
    BY <1>8 DEF EncodeBody, DecodeBody
  <2>2. Accepts(EncodeLoginResponse(b), ReadLoginResponse(EncodeLoginResponse(b)))
    BY <1>8, LoginResponseAccepted
  <2> QED
    BY <2>1, <2>2
<1> QED
  BY <1>1, <1>2, <1>3, <1>4, <1>5, <1>6, <1>7, <1>8 DEF BodyKinds

---------------------------------------------------------------------------
(* Lists: where the entries of an encoded list lie, and what TLVs finds.   *)

LEMMA AtInside ==
  ASSUME NEW d \in Seq(Byte), NEW s \in Seq(Byte), NEW t \in Seq(Byte),
         NEW p \in Nat, NEW q \in Nat, At(d, p, s), At(s, q, t)
  PROVE  At(d, p + q, t)
<1>1. Len(d) \in Nat /\ Len(s) \in Nat /\ Len(t) \in Nat
  BY LenProperties
<1>2. ASSUME NEW i \in 1..Len(t) PROVE d[p + q + i] = t[i]
  <2>1. q + i \in 1..Len(s) /\ p + (q + i) = p + q + i
    BY <1>1 DEF At
  <2>2. d[p + (q + i)] = s[q + i]
    BY <2>1 DEF At
  <2> QED
    BY <2>1, <2>2 DEF At
<1> QED
  BY <1>1, <1>2 DEF At

\* The byte strings of seqs lie in d one after the other, the i-th from
\* offset off[i - 1] to off[i].
Laid(d, seqs, n, off) ==
  /\ off \in [0..n -> Nat] /\ off[0] = 0 /\ off[n] = Len(d)
  /\ \A i \in 1..n : /\ off[i] = off[i - 1] + Len(seqs[i])
                     /\ At(d, off[i - 1], seqs[i])

LEMMA ListLaid ==
  ASSUME NEW n \in Nat, NEW f \in [1..n -> Seq(Byte)]
  PROVE  \E off : Laid(FlattenSeq(f), f, n, off)
<1>1. f \in Seq(Seq(Byte)) /\ Len(f) = n
  BY FunctionSeq
<1>2. CASE n = 0
  <2>1. FlattenSeq(f) = f
    BY <1>1, <1>2 DEF FlattenSeq
  <2> DEFINE off == [i \in 0..n |-> 0]
  <2>2. off \in [0..n -> Nat] /\ off[0] = 0 /\ off[n] = 0
    BY <1>2
  <2> HIDE DEF off
  <2>3. Laid(f, f, n, off)
    BY <1>1, <1>2, <2>2 DEF Laid
  <2> QED
    BY <2>1, <2>3
<1>3. CASE n # 0
  <2>1. PICK g : Flattens(g, Byte, f) /\ FlattenSeq(f) = g[n]
    BY <1>1, <1>3, FlattenedStepwise
  <2>2. \A i \in 1..n : /\ g[i] \in Seq(Byte) /\ f[i] \in Seq(Byte)
                        /\ Len(g[i]) \in Nat /\ Len(f[i]) \in Nat
    BY <1>1, <2>1, LenProperties DEF Flattens
  <2>3. g[1] = f[1] /\ \A i \in 1..n : i # 1 => g[i] = g[i - 1] \o f[i]
    <3>1. \A i \in 1..n : g[i] = IF i = 1 THEN f[1] ELSE g[i - 1] \o f[i]
      BY <1>1, <2>1 DEF Flattens
    <3>2. 1 \in 1..n
      BY <1>3
    <3>3. g[1] = f[1]
      BY <3>1, <3>2
    <3> QED
      BY <3>1, <3>3
  <2> DEFINE off == [i \in 0..n |-> IF i = 0 THEN 0 ELSE Len(g[i])]
  <2>4. off \in [0..n -> Nat]
    BY <2>2
  <2>5. /\ off[0] = 0 /\ \A i \in 1..n : off[i] = Len(g[i])
    OBVIOUS
  <2> HIDE DEF off
  <2>6. ASSUME NEW i \in 1..n
        PROVE  off[i] = off[i - 1] + Len(f[i]) /\ At(g[i], off[i - 1], f[i])
    <3>1. CASE i = 1
      <4>1. off[i - 1] = 0 /\ g[i] = f[i] /\ off[i] = Len(f[i])
        BY <2>3, <2>5, <3>1
      <4>2. At(f[i], 0, f[i])
        BY <2>2 DEF At
      <4> QED
        BY <2>2, <4>1, <4>2
    <3>2. CASE i # 1
      <4>1. i - 1 \in 1..n
        BY <3>2
      <4> DEFINE a == g[i - 1]
                 b == f[i]
      <4>2. a \in Seq(Byte) /\ b \in Seq(Byte) /\ g[i] = a \o b
        BY <2>2, <2>3, <3>2, <4>1
      <4>3. off[i - 1] = Len(a) /\ off[i] = Len(g[i])
        BY <2>5, <4>1
      <4> HIDE DEF a, b
      <4>4. Len(a \o b) = Len(a) + Len(b) /\ At(a \o b, Len(a), b)
        BY <4>2, Joined
      <4>5. off[i] = off[i - 1] + Len(b) /\ At(g[i], off[i - 1], b)
        BY <4>2, <4>3, <4>4
      <4> QED
        BY <4>5 DEF b
    <3> QED
      BY <3>1, <3>2
  <2>7. ASSUME NEW i \in 1..n PROVE At(g[n], off[i - 1], f[i])
    <3> DEFINE b == f[i]
               o == off[i - 1]
               S == {s \in Seq(Byte) : At(s, o, b)}
    <3>1. o \in Nat /\ b \in Seq(Byte) /\ i \in Nat
      BY <2>2, <2>4
    <3>2. g[i] \in S
      BY <2>2, <2>6
    <3>3. ASSUME NEW k \in i..n, k # i, g[k - 1] \in S PROVE g[k] \in S
      <4>1. k - 1 \in 1..n /\ k \in 1..n /\ k # 1
        BY <3>3
      <4>2. g[k] = g[k - 1] \o f[k] /\ f[k] \in Seq(Byte) /\ g[k] \in Seq(Byte)
        BY <2>2, <2>3, <4>1
      <4>3. g[k - 1] \in Seq(Byte) /\ At(g[k - 1], o, b)
        BY <3>3
      <4> HIDE DEF o, b
      <4>4. At(g[k - 1] \o f[k], o, b)
        BY <3>1, <4>2, <4>3, AtFirst
      <4> QED
        BY <4>2, <4>4
    <3> HIDE DEF S
    <3>4. \A k \in i..n : g[k] \in S
      BY <3>1, <3>2, <3>3, StepByStep
    <3>5. g[n] \in S
      BY <3>4
    <3> QED
      BY <3>5 DEF S
  <2>8. off[n] = Len(g[n])
    BY <1>3, <2>5
  <2>9. Laid(g[n], f, n, off)
    BY <2>4, <2>5, <2>6, <2>7, <2>8 DEF Laid
  <2> QED
    BY <2>1, <2>9
<1> QED
  BY <1>2, <1>3

\* The strings stay inside.
LEMMA LaidInside ==
  ASSUME NEW d \in Seq(Byte), NEW n \in Nat, NEW f \in [1..n -> Seq(Byte)],
         NEW off, Laid(d, f, n, off), NEW i \in 1..n
  PROVE  off[i - 1] \in Nat /\ off[i] \in Nat /\ off[i] <= Len(d)
<1>1. i \in 0..n /\ i - 1 \in 0..n /\ Len(f[i]) \in Nat /\ Len(d) \in Nat
  BY LenProperties
<1>2. /\ off[i - 1] \in Nat /\ off[i] \in Nat
      /\ off[i] = off[i - 1] + Len(f[i]) /\ At(d, off[i - 1], f[i])
  BY <1>1 DEF Laid
<1> QED
  BY <1>1, <1>2 DEF At

\* Uint16 undoes PutUint16, up to what two bytes can hold.
LEMMA U16Read ==
  ASSUME NEW d \in Seq(Byte), NEW p \in Nat, NEW n \in Nat, At(d, p, PutU16(n))
  PROVE  U16(d, p) = n % 65536
<1> DEFINE x == (n \div 256) % 256
           y == n % 256
           s == <<x, y>>
<1>1. /\ x \in Nat /\ y \in Nat /\ 256 * x + y = n % 65536
  OBVIOUS
<1> HIDE DEF x, y
<1>2. PutU16(n) = s
  BY DEF PutU16, x, y
<1>3. Len(s) = 2 /\ s[1] = x /\ s[2] = y
  OBVIOUS
<1>4. 1 \in 1..Len(s) /\ 2 \in 1..Len(s)
  BY <1>3
<1> HIDE DEF s
<1>5. d[p + 1] = x /\ d[p + 2] = y
  BY <1>2, <1>3, <1>4 DEF At
<1> QED
  BY <1>1, <1>5 DEF U16

LEMMA Halves ==
  ASSUME NEW n \in Nat
  PROVE  65536 * (n \div 65536) + (n % 65536) = n
OBVIOUS

LEMMA UintRead ==
  ASSUME NEW d \in Seq(Byte), NEW p \in Nat, NEW n \in Nat
  PROVE  /\ n \in Byte /\ At(d, p, PutUint(n, 1)) => Uint(d, p, 1) = n
         /\ n \in Word /\ At(d, p, PutUint(n, 2)) => U16(d, p) = n
         /\ n \in LongWord /\ At(d, p, PutUint(n, 4)) => U32(d, p) = n
<1>1. ASSUME n \in Byte, At(d, p, PutUint(n, 1)) PROVE Uint(d, p, 1) = n
  <2>1. PutUint(n, 1) = <<n>>
    BY <1>1, CountByte DEF PutUint
  <2> DEFINE s == <<n>>
  <2>2. Len(s) = 1 /\ s[1] = n /\ At(d, p, s)
    BY <1>1, <2>1
  <2> HIDE DEF s
  <2>3. d[p + 1] = n
    BY <2>2 DEF At
  <2> QED
    BY <2>3 DEF Uint
<1>2. ASSUME n \in Word, At(d, p, PutUint(n, 2)) PROVE U16(d, p) = n
  <2>1. PutUint(n, 2) = PutU16(n)
    BY DEF PutUint
  <2>2. U16(d, p) = n % 65536
    BY <1>2, <2>1, U16Read
  <2>3. n % 65536 = n
    BY <1>2 DEF Word
  <2> QED
    BY <2>2, <2>3
<1>3. ASSUME n \in LongWord, At(d, p, PutUint(n, 4)) PROVE U32(d, p) = n
  <2> DEFINE h == n \div 65536
             a == PutU16(h)
             b == PutU16(n)
  <2>1. PutUint(n, 4) = a \o b
    BY DEF PutUint
  <2>2. h \in Nat /\ h < 65536 /\ 65536 * h + (n % 65536) = n /\ h % 65536 = h
    <3>1. h \in Nat /\ h < 65536
      BY <1>3 DEF LongWord, Word
    <3>2. 65536 * h + (n % 65536) = n
      BY Halves
    <3> HIDE DEF h
    <3> QED
      BY <3>1, <3>2
  <2>3. ASSUME NEW k \in Nat PROVE PutU16(k) \in Seq(Byte) /\ Len(PutU16(k)) = 2
    BY PutBytes DEF PutUint
  <2> HIDE DEF h
  <2>4. a \in Seq(Byte) /\ b \in Seq(Byte) /\ Len(a) = 2
    <3>1. h \in Nat /\ n \in Nat
      BY <2>2
    <3>2. PutU16(h) \in Seq(Byte) /\ Len(PutU16(h)) = 2
      BY <2>3, <3>1
    <3>3. PutU16(n) \in Seq(Byte)
      BY <2>3, <3>1
    <3> QED
      BY <3>2, <3>3
  <2> HIDE DEF a, b
  <2>5. At(a \o b, 0, a) /\ At(a \o b, Len(a), b) /\ a \o b \in Seq(Byte)
    BY <2>4, Joined
  <2>6. At(d, p, a \o b)
    BY <1>3, <2>1
  <2>7. At(d, p + 0, a) /\ At(d, p + 2, b)
    <3>1. 0 \in Nat /\ 2 \in Nat
      OBVIOUS
    <3> DEFINE c == a \o b
    <3> HIDE DEF c
    <3>2. c \in Seq(Byte) /\ At(d, p, c) /\ At(c, 0, a) /\ At(c, 2, b)
      BY <2>4, <2>5, <2>6 DEF c
    <3> QED
      BY <2>4, <3>1, <3>2, AtInside
  <2>8. U16(d, p) = h /\ U16(d, p + 2) = n % 65536
    <3>1. p + 0 = p /\ p + 2 \in Nat
      OBVIOUS
    <3>2. U16(d, p) = h % 65536
      BY <2>2, <2>7, <3>1, U16Read DEF a
    <3>3. U16(d, p + 2) = n % 65536
      BY <2>7, <3>1, U16Read DEF b
    <3> QED
      BY <2>2, <3>2, <3>3
  <2> DEFINE m == n % 65536
  <2>9. 65536 * h + m = n /\ U16(d, p) = h /\ U16(d, p + 2) = m
    BY <2>2, <2>8
  <2> HIDE DEF m
  <2> QED
    BY <2>9 DEF U32
<1> QED
  BY <1>1, <1>2, <1>3

\* v lies at p with its length in front of it.
StringIs(d, p, v) ==
  /\ p + 1 + Len(v) <= Len(d) /\ d[p + 1] = Len(v)
  /\ Slice(d, p + 1, p + 1 + Len(v)) = v

LEMMA StringRead ==
  ASSUME NEW d \in Seq(Byte), NEW p \in Nat, NEW v \in Strings,
         At(d, p, EncodeParamString(v))
  PROVE  StringIs(d, p, v)
<1> DEFINE n == Len(v)
           h == <<n % 256>>
           e == h \o v
<1>1. v \in Seq(Byte) /\ n \in Nat /\ n <= 255
  BY LenProperties DEF Strings
<1>2. n % 256 = n
  BY <1>1
<1>3. n \in Byte
  BY <1>1, IsByte
<1>4. h \in Seq(Byte) /\ Len(h) = 1 /\ h[1] = n
  BY <1>2, <1>3, OneByte
<1>5. e = EncodeParamString(v)
  BY DEF EncodeParamString
<1> HIDE DEF h
<1>6. /\ e \in Seq(Byte) /\ Len(e) = Len(h) + Len(v)
      /\ At(e, 0, h) /\ At(e, Len(h), v)
  BY <1>1, <1>4, Joined
<1> HIDE DEF e
<1>7. At(d, p, e) /\ At(e, 1, v)
  BY <1>4, <1>5, <1>6
<1>8. d[p + 1] = n
  <2>1. e[1] = n /\ Len(e) = 1 + n
    BY <1>4, <1>6 DEF At
  <2>2. 1 \in 1..Len(e)
    BY <1>1, <2>1
  <2> QED
    BY <1>7, <2>1, <2>2 DEF At
<1>9. At(d, p + 1, v)
  <2>1. 1 \in Nat
    OBVIOUS
  <2> QED
    BY <1>1, <1>6, <1>7, <2>1, AtInside
<1>10. Slice(d, p + 1, p + 1 + n) = v
  <2>1. p + 1 \in Nat
    OBVIOUS
  <2> QED
    BY <1>1, <1>9, <2>1, SliceAt
<1>11. p + 1 + n <= Len(d)
  BY <1>9 DEF At
<1> QED
  BY <1>8, <1>10, <1>11 DEF StringIs

\* The entry e of a list lies at q behind a head that ends with the length of
\* its value.
EntryAt(d, q, head, e) ==
  /\ q + head <= Len(d) /\ d[q + head] = Len(e.value)
  /\ q + head + Len(e.value) <= Len(d)
  /\ Uint(d, q, head - 1) = e.id
  /\ Slice(d, q + head, q + head + Len(e.value)) = e.value

EncodeEntry(e, w) == PutUint(e.id, w) \o EncodeParamString(e.value)

\* An identifier of a list whose identifiers take w bytes.
FitsId(id, w) == (w = 1 /\ id \in Byte) \/ (w = 4 /\ id \in LongWord)

LEMMA FitsIdNat ==
  ASSUME NEW id, NEW w, FitsId(id, w)
  PROVE  w \in {1, 4} /\ id \in Nat
<1>1. \A x \in Byte : x \in Nat
  BY DEF Byte
<1>2. \A x \in LongWord : x \in Nat
  BY DEF LongWord
<1> QED
  BY <1>1, <1>2 DEF FitsId

LEMMA EntryRead ==
  ASSUME NEW d \in Seq(Byte), NEW q \in Nat, NEW w, NEW e,
         FitsId(e.id, w), e.value \in Strings, At(d, q, EncodeEntry(e, w))
  PROVE  EntryAt(d, q, w + 1, e)
<1> DEFINE a == PutUint(e.id, w)
           b == EncodeParamString(e.value)
           c == a \o b
           n == Len(e.value)
<1>1. w \in {1, 4} /\ e.id \in Nat
  BY FitsIdNat
<1>2. a \in Seq(Byte) /\ Len(a) = w
  BY <1>1, PutBytes
<1>3. b \in Seq(Byte) /\ n \in Nat
  BY StringBytes
<1> HIDE DEF a, b
<1>4. c \in Seq(Byte) /\ At(c, 0, a) /\ At(c, Len(a), b)
  BY <1>2, <1>3, Joined
<1>5. At(d, q, c)
  BY DEF EncodeEntry, a, b
<1> HIDE DEF c
<1>6. At(d, q + 0, a) /\ At(d, q + w, b)
  <2>1. 0 \in Nat /\ w \in Nat /\ At(c, w, b)
    BY <1>1, <1>2, <1>4
  <2> QED
    BY <1>2, <1>3, <1>4, <1>5, <2>1, AtInside
<1>7. StringIs(d, q + w, e.value)
  <2>1. q + w \in Nat
    BY <1>1
  <2> QED
    BY <1>6, <2>1, StringRead DEF b
<1>8. Uint(d, q, w) = e.id
  <2>1. q + 0 = q
    OBVIOUS
  <2>2. At(d, q, PutUint(e.id, w))
    BY <1>6, <2>1 DEF a
  <2>3. CASE w = 1 /\ e.id \in Byte
    BY <1>1, <2>2, <2>3, UintRead
  <2>4. CASE w = 4 /\ e.id \in LongWord
    <3>1. U32(d, q) = e.id
      BY <1>1, <2>2, <2>4, UintRead
    <3> QED
      BY <2>4, <3>1 DEF Uint
  <2> QED
    BY <2>3, <2>4 DEF FitsId
<1> DEFINE head == w + 1
           r == q + head
<1>9. q + w + 1 = r /\ head - 1 = w /\ r \in Nat
  BY <1>1
<1>10. /\ r + n <= Len(d) /\ d[r] = n /\ Slice(d, r, r + n) = e.value
  <2> HIDE DEF r, n
  <2> QED
    BY <1>7, <1>9 DEF StringIs, n
<1>11. r <= Len(d)
  <2>1. Len(d) \in Nat
    BY LenProperties
  <2> HIDE DEF r, n
  <2> QED
    BY <1>3, <1>9, <1>10, <2>1
<1>12. Uint(d, q, head - 1) = e.id
  <2> HIDE DEF head
  <2> QED
    BY <1>8, <1>9
<1>13. EntryAt(d, q, head, e)
  <2> HIDE DEF head
  <2> QED
    BY <1>10, <1>11, <1>12 DEF EntryAt
<1> QED
  BY <1>13

\* d is the beginning of e.
Cut(d, e) == Len(d) <= Len(e) /\ \A i \in 1..Len(d) : d[i] = e[i]

\* What lies in e and does not reach behind d lies in d.
LEMMA AtCut ==
  ASSUME NEW d \in Seq(Byte), NEW e \in Seq(Byte), Cut(d, e),
         NEW p \in Nat, NEW s \in Seq(Byte), At(e, p, s), p + Len(s) <= Len(d)
  PROVE  At(d, p, s)
<1>1. Len(d) \in Nat /\ Len(s) \in Nat
  BY LenProperties
<1>2. \A i \in 1..Len(s) : p + i \in 1..Len(d)
  BY <1>1
<1> QED
  BY <1>2 DEF At, Cut

\* The first k elements of a list are a prefix of it.
Firsts(t, k) == [i \in 1..k |-> t[i]]

LEMMA FirstOnes ==
  ASSUME NEW S, NEW t \in Seq(S), NEW k \in 0..Len(t)
  PROVE  IsPrefix(Firsts(t, k), t)
<1> DEFINE f == [i \in 1..k |-> t[i]]
<1>1. Len(t) \in Nat /\ k \in Nat /\ k <= Len(t)
  BY LenProperties
<1>2. \A i \in 1..k : t[i] \in S
  BY <1>1, ElementOfSeq
<1>3. f \in [1..k -> S] /\ \A i \in 1..k : f[0 + i] = t[0 + i]
  BY <1>2
<1> HIDE DEF f
<1>4. f \in Seq(S) /\ Len(f) = k
  BY <1>1, <1>3, FunctionSeq
<1>5. 0 \in Nat /\ 0 + k <= Len(f) /\ 0 + k <= Len(t) /\ 0 + k = k /\ 0 + 1 = 1
  BY <1>1, <1>4
<1>6. SubSeq(f, 0 + 1, 0 + k) = SubSeq(t, 0 + 1, 0 + k)
  BY <1>1, <1>3, <1>4, <1>5, EqualParts
<1>7. IsPrefix(f, t)
  BY <1>1, <1>4, <1>5, <1>6 DEF IsPrefix
<1> QED
  BY <1>7 DEF f, Firsts

\* An entry that starts at q is there as a whole.
Fit(d, q, head) == q + head <= Len(d) /\ q + head + d[q + head] <= Len(d)

\* What TLVs reports of the entry at q.
Entry(d, q, head) ==
  [id |-> Uint(d, q, head - 1),
   value |-> Slice(d, q + head, q + head + d[q + head])]

\* The loop of TLVs over entries at h[1], h[2], ... of which the first k are
\* there and the next is not.
StopsAt(d, p, n, head, h, k) ==
  /\ n # 0 => h[1] = p
  /\ \A i \in 1..n : i <= k => Fit(d, h[i], head)
  /\ k < n => ~Fit(d, h[k + 1], head)
  /\ \A i \in 1..n : i # 1 /\ i <= k + 1 =>
       h[i] = h[i - 1] + head + d[h[i - 1] + head]

LEMMA TLVsStop ==
  ASSUME NEW d, NEW p, NEW n \in Nat, NEW head, NEW h, NEW k \in 0..n,
         StopsAt(d, p, n, head, h, k)
  PROVE  TLVs(d, p, n, head) = [i \in 1..k |-> Entry(d, h[i], head)]
<1> DEFINE Eq(g) == g = [i \in 1..n |->
                           IF i = 1 THEN p
                           ELSE IF Fit(d, g[i - 1], head)
                                THEN g[i - 1] + head + d[g[i - 1] + head]
                                ELSE g[i - 1]]
           g0 == [i \in 1..n |-> IF i <= k THEN h[i] ELSE h[k + 1]]
           start == CHOOSE g : Eq(g)
<1>1. \A i \in 1..n : i \in Nat /\ (i # 1 => i - 1 \in 1..n /\ i - 1 \in Nat)
  OBVIOUS
<1>2. ASSUME NEW i \in 1..n
      PROVE  g0[i] = IF i = 1 THEN p
                     ELSE IF Fit(d, g0[i - 1], head)
                          THEN g0[i - 1] + head + d[g0[i - 1] + head]
                          ELSE g0[i - 1]
  <2>1. CASE i = 1
    <3>1. g0[1] = h[1]
      <4>1. k = 0 => k + 1 = 1
        OBVIOUS
      <4> QED
        BY <2>1, <4>1
    <3> QED
      BY <2>1, <3>1 DEF StopsAt
  <2>2. CASE i # 1 /\ i <= k + 1
    <3>1. i - 1 \in 1..n /\ i - 1 <= k /\ (i <= k \/ i = k + 1)
      BY <1>1, <2>2
    <3>2. g0[i - 1] = h[i - 1] /\ g0[i] = h[i]
      BY <3>1
    <3>3. Fit(d, h[i - 1], head)
      BY <3>1 DEF StopsAt
    <3>4. h[i] = h[i - 1] + head + d[h[i - 1] + head]
      BY <2>2 DEF StopsAt
    <3> HIDE DEF g0
    <3> QED
      BY <2>2, <3>2, <3>3, <3>4
  <2>3. CASE i > k + 1
    <3>1. i - 1 \in 1..n /\ ~(i - 1 <= k) /\ ~(i <= k) /\ k < n /\ i # 1
      BY <1>1, <2>3
    <3>2. g0[i - 1] = h[k + 1] /\ g0[i] = h[k + 1]
      BY <3>1
    <3>3. ~Fit(d, h[k + 1], head)
      BY <3>1 DEF StopsAt
    <3> HIDE DEF g0
    <3> QED
      BY <3>1, <3>2, <3>3
  <2> QED
    BY <2>1, <2>2, <2>3
<1>3. Eq(g0)
  <2>1. g0 = [i \in 1..n |-> g0[i]]
    OBVIOUS
  <2> HIDE DEF g0
  <2> QED
    BY <1>2, <2>1
<1>4. Eq(start)
  BY <1>3
<1>5. TLVs(d, p, n, head) =
        [i \in {j \in 1..n : Fit(d, start[j], head)} |->
           Entry(d, start[i], head)]
  BY DEF TLVs, Fit, Entry
<1> HIDE DEF start
<1>6. \A i \in 1..n : start[i] = g0[i]
  <2> DEFINE pair == [i \in 1..n |-> <<start[i], g0[i]>>]
             Same == {x \in {pair[i] : i \in 1..n} : x[1] = x[2]}
  <2>1. CASE n = 0
    BY <2>1
  <2>2. CASE n # 0
    <3>1. 1 \in 1..n /\ 1 \in Nat
      BY <2>2
    <3>2. pair[1] \in Same
      <4>1. start[1] = p
        BY <1>4, <3>1
      <4>2. g0[1] = p
        BY <1>2, <3>1
      <4> QED
        BY <3>1, <4>1, <4>2
    <3>3. ASSUME NEW i \in 1..n, i # 1, pair[i - 1] \in Same
          PROVE  pair[i] \in Same
      <4>1. i - 1 \in 1..n
        BY <1>1, <3>3
      <4> HIDE DEF g0
      <4>2. start[i - 1] = g0[i - 1]
        <5>1. pair[i - 1] = <<start[i - 1], g0[i - 1]>>
          BY <4>1
        <5>2. pair[i - 1][1] = pair[i - 1][2]
          BY <3>3
        <5> HIDE DEF pair, Same
        <5> QED
          BY <5>1, <5>2
      <4>3. start[i] = IF Fit(d, start[i - 1], head)
                       THEN start[i - 1] + head + d[start[i - 1] + head]
                       ELSE start[i - 1]
        BY <1>4, <3>3
      <4>4. start[i] = g0[i]
        BY <1>2, <3>3, <4>2, <4>3
      <4> QED
        BY <4>4
    <3>4. \A i \in 1..n : pair[i] \in Same
      <4> HIDE DEF pair, Same
      <4> QED
        BY <3>1, <3>2, <3>3, StepByStep
    <3>5. ASSUME NEW i \in 1..n PROVE start[i] = g0[i]
      <4> HIDE DEF g0
      <4>1. pair[i] = <<start[i], g0[i]>> /\ pair[i][1] = pair[i][2]
        BY <3>4
      <4> HIDE DEF pair
      <4> QED
        BY <4>1
    <3> QED
      BY <3>5
  <2> QED
    BY <2>1, <2>2
<1>7. ASSUME NEW i \in 1..n
      PROVE  /\ Fit(d, start[i], head) <=> i \in 1..k
             /\ i \in 1..k => start[i] = h[i]
  <2>1. CASE i <= k
    <3>1. start[i] = h[i] /\ i \in 1..k
      BY <1>6, <2>1
    <3>2. Fit(d, h[i], head)
      BY <2>1 DEF StopsAt
    <3> QED
      BY <3>1, <3>2
  <2>2. CASE ~(i <= k)
    <3>1. start[i] = h[k + 1] /\ k < n /\ i \notin 1..k
      BY <1>6, <2>2
    <3>2. ~Fit(d, h[k + 1], head)
      BY <3>1 DEF StopsAt
    <3> QED
      BY <3>1, <3>2
  <2> QED
    BY <2>1, <2>2
<1> DEFINE D == {j \in 1..n : Fit(d, start[j], head)}
<1>8. D = 1..k
  <2>1. \A j : j \in 1..k => j \in 1..n
    OBVIOUS
  <2> QED
    BY <1>7, <2>1
<1>9. \A i \in D : Entry(d, start[i], head) = Entry(d, h[i], head)
  <2>1. \A i \in D : start[i] = h[i]
    BY <1>7, <1>8
  <2> QED
    BY <2>1
<1> HIDE DEF D
<1> QED
  BY <1>5, <1>8, <1>9 DEF D

LEMMA TLVsNone ==
  ASSUME NEW d, NEW p, NEW head, NEW S, NEW l \in Seq(S)
  PROVE  IsPrefix(TLVs(d, p, 0, head), l)
<1>1. PICK n \in Nat : n = 0
  OBVIOUS
<1>2. StopsAt(d, p, n, head, <<>>, n) /\ n \in 0..n /\ n \in 0..Len(l)
  BY <1>1, LenProperties DEF StopsAt
<1>3. PICK h : StopsAt(d, p, n, head, h, n)
  BY <1>2
<1>4. TLVs(d, p, n, head) = [i \in 1..n |-> Entry(d, h[i], head)]
  BY <1>2, <1>3, TLVsStop
<1>5. \A i \in 1..n : Entry(d, h[i], head) = l[i]
  BY <1>1
<1>6. TLVs(d, p, n, head) = Firsts(l, n)
  BY <1>4, <1>5 DEF Firsts
<1>7. IsPrefix(Firsts(l, n), l)
  BY <1>2, FirstOnes
<1> QED
  BY <1>1, <1>6, <1>7

\* The entries of l lie in e behind p, the i-th from off[i - 1] to off[i].
Listed(e, p, l, w, off) ==
  /\ off \in [0..Len(l) -> Nat] /\ off[0] = 0
  /\ \A i \in 1..Len(l) :
       /\ EncodeEntry(l[i], w) \in Seq(Byte)
       /\ off[i] = off[i - 1] + Len(EncodeEntry(l[i], w))
       /\ At(e, p + off[i - 1], EncodeEntry(l[i], w))
       /\ Len(l[i].value) \in Nat
       /\ off[i] = off[i - 1] + (w + 1) + Len(l[i].value)
       /\ l[i].value \in Strings /\ FitsId(l[i].id, w)

LEMMA EntriesListed ==
  ASSUME NEW e \in Seq(Byte), NEW p \in Nat, NEW ids, NEW w,
         \A id \in ids : FitsId(id, w), NEW l \in ParamLists(ids),
         At(e, p, EncodeTLVs(l, w))
  PROVE  \E off : Listed(e, p, l, w, off)
<1> DEFINE n == Len(l)
           head == w + 1
           f == [i \in DOMAIN l |-> EncodeEntry(l[i], w)]
           F == EncodeTLVs(l, w)
<1>1. l \in Seq([id : ids, value : Strings]) /\ n \in Nat /\ DOMAIN l = 1..n
  BY LenProperties DEF ParamLists
<1>2. \A i \in 1..n : /\ l[i] \in [id : ids, value : Strings]
                      /\ l[i].value \in Strings /\ FitsId(l[i].id, w)
  <2>1. \A i \in 1..n : l[i] \in [id : ids, value : Strings]
    BY <1>1, ElementOfSeq
  <2> QED
    BY <2>1
<1>3. ASSUME NEW i \in 1..n
      PROVE  /\ EncodeEntry(l[i], w) \in Seq(Byte) /\ w \in {1, 4}
             /\ Len(l[i].value) \in Nat
             /\ Len(EncodeEntry(l[i], w)) = head + Len(l[i].value)
  <2> DEFINE a == PutUint(l[i].id, w)
             b == EncodeParamString(l[i].value)
             k == Len(l[i].value)
  <2>1. w \in {1, 4} /\ l[i].id \in Nat
    BY <1>2, FitsIdNat
  <2>2. a \in Seq(Byte) /\ Len(a) = w
    BY <2>1, PutBytes
  <2>3. b \in Seq(Byte) /\ Len(b) = 1 + k /\ k \in Nat
    BY <1>2, StringBytes
  <2> HIDE DEF a, b
  <2>4. a \o b \in Seq(Byte) /\ Len(a \o b) = Len(a) + Len(b)
    BY <2>2, <2>3, Joined
  <2>5. EncodeEntry(l[i], w) = a \o b
    BY DEF EncodeEntry, a, b
  <2> HIDE DEF k
  <2>6. Len(a) + Len(b) = head + k
    BY <2>1, <2>2, <2>3
  <2> QED
    BY <2>1, <2>3, <2>4, <2>5, <2>6 DEF k
<1>4. f \in [1..n -> Seq(Byte)] /\ F = FlattenSeq(f)
  BY <1>1, <1>3 DEF EncodeTLVs, EncodeEntry
<1>5. F \in Seq(Byte) /\ At(e, p, F)
  <2> HIDE DEF f
  <2> QED
    BY <1>1, <1>4, ListBytes
<1>6. PICK off : Laid(F, f, n, off)
  <2> HIDE DEF f, F, n
  <2> QED
    BY <1>1, <1>4, ListLaid
<1>7. \A i \in 1..n : f[i] = EncodeEntry(l[i], w)
  BY <1>1
<1> HIDE DEF f, F
<1>8. ASSUME NEW i \in 1..n
      PROVE  /\ off[i] = off[i - 1] + Len(EncodeEntry(l[i], w))
             /\ At(e, p + off[i - 1], EncodeEntry(l[i], w))
             /\ off[i] = off[i - 1] + head + Len(l[i].value)
  <2> DEFINE o == off[i - 1]
             s == f[i]
             k == Len(l[i].value)
  <2>1. o \in Nat /\ off[i] \in Nat
    <3> HIDE DEF n
    <3> QED
      BY <1>1, <1>4, <1>5, <1>6, LaidInside
  <2>2. At(F, o, s) /\ off[i] = o + Len(s)
    BY <1>6 DEF Laid
  <2>3. s \in Seq(Byte) /\ s = EncodeEntry(l[i], w) /\ Len(s) = head + k
    BY <1>3, <1>4, <1>7
  <2>4. w \in {1, 4} /\ k \in Nat
    BY <1>2, <1>3
  <2> HIDE DEF o, s, k
  <2>5. At(e, p + o, s)
    BY <1>5, <2>1, <2>2, <2>3, AtInside
  <2>6. off[i] = o + head + k
    BY <2>1, <2>2, <2>3, <2>4
  <2> QED
    BY <2>2, <2>3, <2>5, <2>6 DEF o, k
<1>9. off \in [0..n -> Nat] /\ off[0] = 0
  BY <1>6 DEF Laid
<1>10. Listed(e, p, l, w, off)
  <2> HIDE DEF n, head
  <2> QED
    BY <1>2, <1>3, <1>8, <1>9 DEF Listed, n, head
<1> QED
  BY <1>10

\* In the beginning d of e, TLVs finds the first k entries of a list that lies
\* in e, and all in e itself.
FindsFirsts(d, e, p, l, w) ==
  \E k \in 0..Len(l) :
    /\ TLVs(d, p, Len(l), w + 1) = Firsts(l, k)
    /\ Len(d) = Len(e) => k = Len(l)

LEMMA TLVsFirst ==
  ASSUME NEW d \in Seq(Byte), NEW e \in Seq(Byte), Cut(d, e),
         NEW p \in Nat, NEW ids, NEW w, \A id \in ids : FitsId(id, w),
         NEW l \in ParamLists(ids), At(e, p, EncodeTLVs(l, w))
  PROVE  FindsFirsts(d, e, p, l, w)
<1> DEFINE n == Len(l)
           head == w + 1
<1>1. l \in Seq([id : ids, value : Strings]) /\ n \in Nat /\ DOMAIN l = 1..n
  BY LenProperties DEF ParamLists
<1>2. PICK off : Listed(e, p, l, w, off)
  BY EntriesListed
<1>3. Len(d) \in Nat /\ Len(e) \in Nat
  BY LenProperties
<1> DEFINE h == [i \in 1..n |-> p + off[i - 1]]
           There(i) == p + off[i] <= Len(d)
<1>4. ASSUME NEW i \in 1..n
      PROVE  /\ h[i] \in Nat /\ head \in Nat \ {0}
             /\ Fit(d, h[i], head) <=> There(i)
             /\ There(i) => /\ Entry(d, h[i], head) = l[i]
                            /\ h[i] + head + d[h[i] + head] = p + off[i]
  <2> DEFINE o == off[i - 1]
             s == EncodeEntry(l[i], w)
             k == Len(l[i].value)
             q == p + o
  <2>1. i \in 0..n /\ i - 1 \in 0..n /\ h[i] = q
    BY <1>1
  <2>2. o \in Nat /\ off[i] \in Nat
    BY <1>2, <2>1 DEF Listed
  <2>3. /\ s \in Seq(Byte) /\ off[i] = o + Len(s) /\ At(e, q, s)
        /\ k \in Nat /\ off[i] = o + head + k
        /\ l[i].value \in Strings /\ FitsId(l[i].id, w)
    BY <1>2 DEF Listed
  <2>4. w \in {1, 4} /\ head \in Nat \ {0}
    BY <2>3, FitsIdNat
  <2>5. l[i] \in [id : ids, value : Strings]
    BY <1>1, ElementOfSeq
  <2> HIDE DEF h, o, s, head, n
  <2>6. q \in Nat /\ p + off[i] = q + head + k /\ p + off[i] = q + Len(s)
    <3>1. Len(s) \in Nat
      BY <2>3, LenProperties
    <3>2. PICK x \in Nat : x = off[i]
      BY <2>2
    <3>3. x = o + Len(s) /\ x = o + head + k /\ k \in Nat
      BY <2>3, <3>2
    <3> HIDE DEF k
    <3>4. p + o \in Nat /\ p + x = (p + o) + head + k /\ p + x = (p + o) + Len(s)
      BY <2>2, <2>4, <3>1, <3>3
    <3> QED
      BY <3>2, <3>4
  <2> HIDE DEF q
  <2>7. EntryAt(e, q, head, l[i])
    <3>1. EntryAt(e, q, w + 1, l[i])
      BY <2>3, <2>6, EntryRead DEF s
    <3> QED
      BY <3>1 DEF head
  <2>8. ASSUME There(i)
        PROVE  /\ Entry(d, q, head) = l[i] /\ Fit(d, q, head)
               /\ q + head + d[q + head] = p + off[i]
    <3>1. At(d, q, s)
      <4>1. q + Len(s) <= Len(d)
        BY <2>6, <2>8
      <4> QED
        BY <2>3, <2>6, <4>1, AtCut
    <3>2. EntryAt(d, q, head, l[i])
      <4>1. EntryAt(d, q, w + 1, l[i])
        BY <2>3, <2>6, <3>1, EntryRead DEF s
      <4> QED
        BY <4>1 DEF head
    <3>3. /\ q + head <= Len(d) /\ d[q + head] = k /\ q + head + k <= Len(d)
          /\ Uint(d, q, head - 1) = l[i].id
          /\ Slice(d, q + head, q + head + k) = l[i].value
      BY <3>2 DEF EntryAt
    <3> HIDE DEF k
    <3>4. l[i] = [id |-> l[i].id, value |-> l[i].value]
      BY <2>5
    <3>5. Entry(d, q, head) = [id |-> l[i].id, value |-> l[i].value]
      BY <3>3 DEF Entry
    <3>6. Fit(d, q, head)
      BY <3>3 DEF Fit
    <3>7. q + head + d[q + head] = p + off[i]
      BY <2>6, <3>3
    <3> QED
      BY <3>4, <3>5, <3>6, <3>7
  <2>9. ASSUME Fit(d, q, head) PROVE There(i)
    <3>1. q + head <= Len(d) /\ q + head + d[q + head] <= Len(d)
      BY <2>9 DEF Fit
    <3>2. q + head \in 1..Len(d)
      BY <1>3, <2>4, <2>6, <3>1
    <3>3. d[q + head] = e[q + head]
      BY <3>2 DEF Cut
    <3>4. e[q + head] = k
      BY <2>7 DEF EntryAt
    <3> QED
      BY <2>6, <3>1, <3>3, <3>4
  <2> QED
    BY <2>1, <2>4, <2>6, <2>8, <2>9
<1>5. ASSUME NEW i \in 1..n, i # 1
      PROVE  i - 1 \in 1..n /\ h[i] = p + off[i - 1]
  BY <1>1, <1>5
<1>6. n # 0 => h[1] = p
  <2>1. off[0] = 0
    BY <1>2 DEF Listed
  <2> QED
    BY <1>1, <2>1
<1> HIDE DEF h
<1>7. PICK k \in 0..n : /\ \A i \in 1..n : i <= k => There(i)
                        /\ k < n => ~There(k + 1)
  <2> DEFINE Missing == {i \in 1..n : ~There(i)}
  <2>1. CASE Missing = {}
    <3>1. n \in 0..n /\ \A i \in 1..n : There(i)
      BY <1>1, <2>1
    <3> HIDE DEF There
    <3> QED
      BY <1>1, <3>1
  <2>2. CASE Missing # {}
    <3>1. Missing \in SUBSET Nat
      OBVIOUS
    <3>2. PICK m \in Missing : \A y \in Missing : m <= y
      BY <2>2, <3>1, LeastNat
    <3>3. m \in 1..n /\ ~There(m)
      BY <3>2
    <3>4. \A i \in 1..n : i <= m - 1 => There(i)
      <4> SUFFICES ASSUME NEW i \in 1..n, i <= m - 1, ~There(i) PROVE FALSE
        OBVIOUS
      <4>1. m <= i
        BY <3>2
      <4> QED
        BY <3>3, <4>1
    <3>5. m - 1 \in 0..n /\ (m - 1) + 1 = m
      BY <1>1, <3>3
    <3> HIDE DEF There, Missing
    <3> QED
      BY <3>3, <3>4, <3>5
  <2> QED
    BY <2>1, <2>2
<1>8. StopsAt(d, p, n, head, h, k)
  <2> HIDE DEF There, head, n
  <2>1. \A i \in 1..n : i <= k => Fit(d, h[i], head)
    BY <1>4, <1>7
  <2>2. k < n => ~Fit(d, h[k + 1], head)
    <3>1. k < n => k + 1 \in 1..n
      BY <1>1
    <3> QED
      BY <1>4, <1>7, <3>1
  <2>3. ASSUME NEW i \in 1..n, i # 1, i <= k + 1
        PROVE  h[i] = h[i - 1] + head + d[h[i - 1] + head]
    <3>1. i - 1 \in 1..n /\ h[i] = p + off[i - 1] /\ i - 1 <= k
      BY <1>1, <1>5, <2>3
    <3>2. There(i - 1)
      BY <1>7, <3>1
    <3> QED
      BY <1>4, <3>1, <3>2
  <2> QED
    BY <1>6, <2>1, <2>2, <2>3 DEF StopsAt
<1>9. TLVs(d, p, n, head) = [i \in 1..k |-> Entry(d, h[i], head)]
  <2> HIDE DEF n, head
  <2> QED
    BY <1>1, <1>8, TLVsStop
<1>10. [i \in 1..k |-> Entry(d, h[i], head)] = Firsts(l, k)
  <2> HIDE DEF There, head
  <2>1. \A i \in 1..k : i \in 1..n /\ i <= k
    BY <1>1
  <2>2. \A i \in 1..k : Entry(d, h[i], head) = l[i]
    BY <1>4, <1>7, <2>1
  <2> QED
    BY <2>2 DEF Firsts
<1>11. Len(d) = Len(e) => ~(k < n)
  <2> SUFFICES ASSUME Len(d) = Len(e), k < n PROVE FALSE
    OBVIOUS
  <2> DEFINE s == EncodeEntry(l[k + 1], w)
             o == off[(k + 1) - 1]
  <2>1. k + 1 \in 1..n /\ (k + 1) - 1 \in 0..n
    BY <1>1
  <2>2. s \in Seq(Byte) /\ off[k + 1] = o + Len(s) /\ At(e, p + o, s)
    BY <1>2, <2>1 DEF Listed
  <2>3. o \in Nat
    BY <1>2, <2>1 DEF Listed
  <2> HIDE DEF s, o
  <2>4. Len(s) \in Nat /\ (p + o) + Len(s) <= Len(e)
    BY <2>2, LenProperties DEF At
  <2>5. p + off[k + 1] <= Len(d)
    BY <1>3, <2>2, <2>3, <2>4
  <2> QED
    BY <1>7, <2>5
<1>12. Len(d) = Len(e) => k = n
  <2>1. n \in Nat /\ k \in 0..n
    BY <1>1
  <2> HIDE DEF n
  <2> QED
    BY <1>11, <2>1
<1>13. TLVs(d, p, n, head) = Firsts(l, k)
  BY <1>9, <1>10
<1> QED
  BY <1>12, <1>13 DEF FindsFirsts

LEMMA TLVsCut ==
  ASSUME NEW d \in Seq(Byte), NEW e \in Seq(Byte), Cut(d, e),
         NEW p \in Nat, NEW ids, NEW w, \A id \in ids : FitsId(id, w),
         NEW l \in ParamLists(ids), At(e, p, EncodeTLVs(l, w))
  PROVE  IsPrefix(TLVs(d, p, Len(l), w + 1), l)
<1>1. l \in Seq([id : ids, value : Strings])
  BY DEF ParamLists
<1>2. FindsFirsts(d, e, p, l, w)
  BY TLVsFirst
<1>3. PICK k \in 0..Len(l) : TLVs(d, p, Len(l), w + 1) = Firsts(l, k)
  BY <1>2 DEF FindsFirsts
<1>4. IsPrefix(Firsts(l, k), l)
  BY <1>1, FirstOnes
<1> QED
  BY <1>3, <1>4

\* TLVs gives back an encoded list, whatever lies in front of it and behind.
LEMMA TLVsRead ==
  ASSUME NEW d \in Seq(Byte), NEW p \in Nat, NEW ids, NEW w,
         \A id \in ids : FitsId(id, w), NEW l \in ParamLists(ids),
         At(d, p, EncodeTLVs(l, w))
  PROVE  TLVs(d, p, Len(l), w + 1) = l
<1>1. l \in Seq([id : ids, value : Strings])
  BY DEF ParamLists
<1>2. Cut(d, d)
  BY LenProperties DEF Cut
<1>3. FindsFirsts(d, d, p, l, w)
  BY <1>2, TLVsFirst
<1>4. TLVs(d, p, Len(l), w + 1) = Firsts(l, Len(l))
  BY <1>3, Zenon DEF FindsFirsts
<1>5. l = Firsts(l, Len(l))
  BY <1>1, LenProperties DEF Firsts
<1> QED
  BY <1>4, <1>5

---------------------------------------------------------------------------
(* The decoders of Bodies give back what the encoders were given.          *)

LEMMA TimeRead ==
  ASSUME NEW d \in Seq(Byte), NEW t \in Times, At(d, 0, encodeBCDTime(t))
  PROVE  decodeTime6(Slice(d, 0, 6)) = t /\ parseBCDTime6(Slice(d, 0, 6)) = t
<1> DEFINE e == encodeBCDTime(t)
<1>1. e \in Seq(Byte) /\ Len(e) = 6
  BY TimeBytes DEF encodeTime6
<1>2. Slice(d, 0, 6) = e
  <2>1. Slice(d, 0, 0 + Len(e)) = e
    <3> HIDE DEF e
    <3>1. 0 \in Nat
      OBVIOUS
    <3> QED
      BY <1>1, <3>1, SliceAt DEF e
  <2> HIDE DEF e
  <2>2. 0 + Len(e) = 6
    BY <1>1
  <2> QED
    BY <2>1, <2>2
<1>3. ASSUME NEW i \in 1..6
      PROVE  Century(i) + 10 * (e[i] \div 16) + (e[i] % 16) = t[i]
  <2> DEFINE n == t[i] - Century(i)
             c == Century(i)
             x == e[i]
  <2>1. t[i] \in Nat /\ n \in Nat /\ n <= 99
    BY TimeParts
  <2>2. c \in Nat
    BY DEF Century
  <2>3. x = 16 * (n \div 10) + (n % 10)
    BY DEF encodeBCDTime
  <2>4. c + n = t[i]
    BY <2>1, <2>2
  <2> HIDE DEF n, x, c
  <2>5. x \div 16 = n \div 10 /\ x % 16 = n % 10
    BY <2>1, <2>3
  <2>6. 10 * (n \div 10) + (n % 10) = n
    BY <2>1
  <2> DEFINE y == 10 * (x \div 16)
             z == x % 16
  <2>7. y \in Int /\ z \in Int /\ y + z = n
    BY <2>1, <2>5, <2>6
  <2>8. c + y + z = t[i]
    <3> HIDE DEF y, z
    <3> QED
      BY <2>2, <2>4, <2>7
  <2> QED
    BY <2>8 DEF c, x
<1>4. t = [i \in 1..6 |-> t[i]]
  BY DEF Times
<1>5. parseBCDTime6(e) = t
  <2> HIDE DEF e
  <2> QED
    BY <1>3, <1>4 DEF parseBCDTime6
<1>6. decodeTime6(e) = parseBCDTime6(e)
  BY DEF decodeTime6, defaultDecoder
<1> QED
  BY <1>2, <1>5, <1>6

\* A single byte of a layout.
LEMMA ByteRead ==
  ASSUME NEW d, NEW p \in Nat, NEW x, At(d, p, <<x>>)
  PROVE  d[p + 1] = x
<1> DEFINE s == <<x>>
<1>1. Len(s) = 1 /\ s[1] = x /\ At(d, p, s)
  OBVIOUS
<1> HIDE DEF s
<1> QED
  BY <1>1 DEF At

\* The two bytes of a layout that a platform leaves zero.
LEMMA ZeroRead ==
  ASSUME NEW d, At(d, 6, <<0, 0>>)
  PROVE  U16(d, 6) = 0
<1> DEFINE s == <<0, 0>>
<1>1. Len(s) = 2 /\ s[1] = 0 /\ s[2] = 0 /\ At(d, 6, s)
  OBVIOUS
<1> HIDE DEF s
<1>2. d[6 + 1] = 0 /\ d[6 + 2] = 0
  BY <1>1 DEF At
<1> QED
  BY <1>2 DEF U16

LEMMA LoginRead ==
  ASSUME TimeCodec = "BCD", NEW b \in BodiesOf("login")
  PROVE  DecodeLoginData(EncodeLogin(b)) = Decoded(b)
<1> DEFINE d == EncodeLogin(b)
           n == Len(b.iccid)
           F == EncodeTLVs(b.list, 1)
<1>1. BodiesOf("login") =
        {c \in [time : Times, seq : Word, iccid : Strings, count : Byte,
                list : ParamLists(Byte)] : c.count = Len(c.list)}
  BY DEF BodiesOf
<1>2. /\ b \in [time : Times, seq : Word, iccid : Strings, count : Byte,
                list : ParamLists(Byte)]
      /\ b.count = Len(b.list)
  BY <1>1
<1>3. /\ b.time \in Times /\ b.seq \in Word /\ b.seq \in Nat
      /\ b.iccid \in Strings /\ b.list \in ParamLists(Byte)
  <2>1. \A x \in Word : x \in Nat
    BY DEF Word
  <2> QED
    BY <1>2, <2>1
<1>4. /\ d \in Seq(Byte) /\ n \in Nat /\ Len(d) = 10 + n + Len(F)
      /\ At(d, 0, encodeBCDTime(b.time)) /\ At(d, 6, PutUint(b.seq, 2))
      /\ At(d, 8, EncodeParamString(b.iccid))
      /\ At(d, 9 + n, <<Len(b.list)>>) /\ At(d, 10 + n, F)
  BY LoginLayout DEF EncodeTime
<1> HIDE DEF d
<1>5. decodeTime6(Slice(d, 0, 6)) = b.time
  BY <1>3, <1>4, TimeRead
<1>6. U16(d, 6) = b.seq
  <2>1. 6 \in Nat
    OBVIOUS
  <2> QED
    BY <1>3, <1>4, <2>1, UintRead
<1>7. StringIs(d, 8, b.iccid)
  <2>1. 8 \in Nat
    OBVIOUS
  <2> QED
    BY <1>3, <1>4, <2>1, StringRead
<1>8. d[9] = n /\ Slice(d, 9, 9 + n) = b.iccid
  <2>1. 8 + 1 = 9
    OBVIOUS
  <2> QED
    BY <1>7, <2>1 DEF StringIs
<1> HIDE DEF n, F
<1>9. Len(F) \in Nat
  <2>1. Byte \subseteq Nat
    BY DEF Byte
  <2> QED
    BY <1>3, <2>1, TLVBytes, LenProperties DEF F
<1>10. d[(9 + n) + 1] = Len(b.list)
  <2>1. 9 + n \in Nat
    BY <1>4
  <2> QED
    BY <1>4, <2>1, ByteRead
<1>11. TLVs(d, (9 + n) + 1, Len(b.list), 2) = b.list
  <2>1. \A x \in Byte : FitsId(x, 1)
    BY DEF FitsId
  <2>2. 10 + n \in Nat /\ 10 + n = (9 + n) + 1 /\ 1 + 1 = 2
    BY <1>4
  <2>3. At(d, 10 + n, EncodeTLVs(b.list, 1))
    BY <1>4 DEF F
  <2>4. TLVs(d, 10 + n, Len(b.list), 1 + 1) = b.list
    BY <1>3, <1>4, <2>1, <2>2, <2>3, TLVsRead
  <2> QED
    BY <2>2, <2>4
<1>12. ~(Len(d) < 9 \/ 9 + d[9] > Len(d)) /\ 9 + n < Len(d)
  BY <1>4, <1>8, <1>9
<1> DEFINE p == 9 + n
           value == [time |-> decodeTime6(Slice(d, 0, 6)), seq |-> U16(d, 6),
                     iccid |-> Slice(d, 9, p), count |-> d[p + 1],
                     list |-> TLVs(d, p + 1, d[p + 1], 2)]
<1>13. DecodeLoginData(d) = Decoded(value)
  BY <1>8, <1>12 DEF DecodeLoginData
<1>14. value = [time |-> b.time, seq |-> b.seq, iccid |-> b.iccid,
                count |-> b.count, list |-> b.list]
  BY <1>2, <1>5, <1>6, <1>8, <1>10, <1>11
<1>15. b = [time |-> b.time, seq |-> b.seq, iccid |-> b.iccid,
            count |-> b.count, list |-> b.list]
  BY <1>2
<1> HIDE DEF value
<1>16. DecodeLoginData(d) = Decoded(b)
  BY <1>13, <1>14, <1>15
<1> QED
  BY <1>16 DEF d

LEMMA LogoutRead ==
  ASSUME TimeCodec = "BCD", NEW b \in BodiesOf("logout")
  PROVE  DecodeLogoutData(EncodeLogout(b)) = Decoded(b)
<1> DEFINE d == EncodeLogout(b)
<1>1. BodiesOf("logout") = [time : Times, seq : Word]
  BY DEF BodiesOf
<1>2. b \in [time : Times, seq : Word]
  BY <1>1
<1>3. b.time \in Times /\ b.seq \in Word /\ b.seq \in Nat
  <2>1. \A x \in Word : x \in Nat
    BY DEF Word
  <2> QED
    BY <1>2, <2>1
<1>4. /\ d \in Seq(Byte) /\ Len(d) = 8
      /\ At(d, 0, encodeBCDTime(b.time)) /\ At(d, 6, PutUint(b.seq, 2))
  BY LogoutLayout DEF EncodeTime
<1> HIDE DEF d
<1>5. decodeTime6(Slice(d, 0, 6)) = b.time
  BY <1>3, <1>4, TimeRead
<1>6. U16(d, 6) = b.seq
  <2>1. 6 \in Nat
    OBVIOUS
  <2> QED
    BY <1>3, <1>4, <2>1, UintRead
<1>7. DecodeLogoutData(d) = Decoded([time |-> b.time, seq |-> b.seq])
  BY <1>4, <1>5, <1>6 DEF DecodeLogoutData
<1>8. b = [time |-> b.time, seq |-> b.seq]
  BY <1>2
<1>9. DecodeLogoutData(d) = Decoded(b)
  BY <1>7, <1>8
<1> QED
  BY <1>9 DEF d

LEMMA PlatLogoutRead ==
  ASSUME NEW b \in BodiesOf("platlogout")
  PROVE  DecodePlatLogoutResponse(SendPlatLogout(b)) = Decoded(b)
<1> DEFINE d == SendPlatLogout(b)
<1>1. BodiesOf("platlogout") = [time : Times, seq : {0}]
  BY DEF BodiesOf
<1>2. b \in [time : Times, seq : {0}]
  BY <1>1
<1>3. b.time \in Times /\ b.seq = 0
  BY <1>2
<1>4. /\ d \in Seq(Byte) /\ Len(d) = 8
      /\ At(d, 0, encodeBCDTime(b.time)) /\ At(d, 6, <<0, 0>>)
  BY PlatLogoutLayout DEF encodeTime6
<1> HIDE DEF d
<1>5. decodeTime6(Slice(d, 0, 6)) = b.time
  BY <1>3, <1>4, TimeRead
<1>6. U16(d, 6) = b.seq
  BY <1>3, <1>4, ZeroRead
<1>7. DecodePlatLogoutResponse(d) = Decoded([time |-> b.time, seq |-> b.seq])
  BY <1>4, <1>5, <1>6 DEF DecodePlatLogoutResponse, DecodeLogoutData
<1>8. b = [time |-> b.time, seq |-> b.seq]
  BY <1>2
<1>9. DecodePlatLogoutResponse(d) = Decoded(b)
  BY <1>7, <1>8
<1> QED
  BY <1>9 DEF d

\* A string that is there is read, with the bytes it takes.
LEMMA ParamStringRead ==
  ASSUME NEW d \in Seq(Byte), NEW p \in Nat, NEW v \in Strings,
         At(d, p, EncodeParamString(v))
  PROVE  decodeParamString(d, p) = [s |-> v, n |-> 1 + Len(v)]
<1>1. StringIs(d, p, v)
  BY StringRead
<1>2. Len(v) \in Nat /\ Len(d) \in Nat
  BY LenProperties DEF Strings
<1>3. ~(Len(d) - p < 1 \/ p + 1 + d[p + 1] > Len(d))
  BY <1>1, <1>2 DEF StringIs
<1>4. d[p + 1] = Len(v) /\ Slice(d, p + 1, p + 1 + Len(v)) = v
  BY <1>1 DEF StringIs
<1> QED
  BY <1>3, <1>4 DEF decodeParamString

LEMMA PlatLoginRead ==
  ASSUME NEW b \in BodiesOf("platlogin")
  PROVE  DecodePlatLoginResponse(SendPlatLogin(b)) = Decoded(b)
<1> DEFINE d == SendPlatLogin(b)
           n == Len(b.user)
<1>1. BodiesOf("platlogin") =
        [time : Times, seq : {0}, user : Strings, password : Strings]
  BY DEF BodiesOf
<1>2. b \in [time : Times, seq : {0}, user : Strings, password : Strings]
  BY <1>1
<1>3. /\ b.time \in Times /\ b.seq = 0
      /\ b.user \in Strings /\ b.password \in Strings
  BY <1>2
<1>4. /\ d \in Seq(Byte)
      /\ At(d, 0, encodeBCDTime(b.time)) /\ At(d, 6, <<0, 0>>)
      /\ At(d, 8, EncodeParamString(b.user))
      /\ At(d, 9 + n, EncodeParamString(b.password))
  BY PlatLoginLayout DEF encodeTime6
<1>5. n \in Nat
  BY <1>3, StringBytes
<1>6. Accepts(d, DecodePlatLoginResponse(d))
  BY PlatLoginAccepted
<1> HIDE DEF d, n
<1>7. decodeTime6(Slice(d, 0, 6)) = b.time
  BY <1>3, <1>4, TimeRead
<1>8. U16(d, 6) = b.seq
  BY <1>3, <1>4, ZeroRead
<1>9. decodeParamString(d, 8) = [s |-> b.user, n |-> 1 + n]
  <2>1. 8 \in Nat
    OBVIOUS
  <2> QED
    BY <1>3, <1>4, <2>1, ParamStringRead DEF n
<1>10. decodeParamString(d, 8 + (1 + n)).s = b.password
  <2>1. 9 + n \in Nat /\ 8 + (1 + n) = 9 + n
    BY <1>5
  <2>2. decodeParamString(d, 9 + n)
          = [s |-> b.password, n |-> 1 + Len(b.password)]
    BY <1>3, <1>4, <2>1, ParamStringRead
  <2> QED
    BY <2>1, <2>2
<1>11. ~(Len(d) < 8)
  <2>1. DecodePlatLoginResponse(d) # Malformed
    <3>1. Malformed.err = TRUE
      BY DEF Malformed
    <3> QED
      BY <1>6, <3>1 DEF Accepts
  <2> QED
    BY <2>1 DEF DecodePlatLoginResponse
<1> DEFINE u == decodeParamString(d, 8)
           value == [time |-> decodeTime6(Slice(d, 0, 6)), seq |-> U16(d, 6),
                     user |-> u.s, password |-> decodeParamString(d, 8 + u.n).s]
<1>12. DecodePlatLoginResponse(d) = Decoded(value)
  BY <1>11 DEF DecodePlatLoginResponse
<1>13. u.s = b.user /\ u.n = 1 + n
  BY <1>9
<1> HIDE DEF u
<1>14. value = [time |-> b.time, seq |-> b.seq, user |-> b.user,
                password |-> b.password]
  BY <1>7, <1>8, <1>10, <1>13
<1>15. b = [time |-> b.time, seq |-> b.seq, user |-> b.user,
            password |-> b.password]
  BY <1>2
<1> HIDE DEF value
<1>16. DecodePlatLoginResponse(d) = Decoded(b)
  BY <1>12, <1>14, <1>15
<1> QED
  BY <1>16 DEF d

LEMMA LongIds == \A x \in LongWord : FitsId(x, 4) /\ x \in Nat
BY DEF FitsId, LongWord

LEMMA ParamSettingRead ==
  ASSUME NEW b \in BodiesOf("paramsetting")
  PROVE  DecodeParamSettingData(SendParamSetting(b)) = Decoded(b)
<1> DEFINE d == SendParamSetting(b)
<1>1. BodiesOf("paramsetting") =
        {c \in [time : Times, count : Byte, list : ParamLists(LongWord)] :
           c.count = Len(c.list)}
  BY DEF BodiesOf
<1>2. /\ b \in [time : Times, count : Byte, list : ParamLists(LongWord)]
      /\ b.count = Len(b.list)
  BY <1>1
<1>3. /\ b.time \in Times /\ b.list \in ParamLists(LongWord)
      /\ Len(b.list) \in Byte
  BY <1>2
<1>4. /\ d \in Seq(Byte) /\ At(d, 0, encodeBCDTime(b.time))
      /\ At(d, 6, <<Len(b.list) % 256>>) /\ At(d, 7, EncodeTLVs(b.list, 4))
  BY ParamSettingLayout DEF encodeTime6
<1>5. Accepts(d, DecodeParamSettingData(d))
  BY ParamSettingAccepted
<1> HIDE DEF d
<1>6. decodeTime6(Slice(d, 0, 6)) = b.time
  BY <1>3, <1>4, TimeRead
<1>7. d[7] = Len(b.list)
  <2>1. At(d, 6, <<Len(b.list)>>)
    BY <1>3, <1>4, CountByte
  <2>2. 6 \in Nat /\ 6 + 1 = 7
    OBVIOUS
  <2>3. d[6 + 1] = Len(b.list)
    BY <2>1, <2>2, ByteRead
  <2> QED
    BY <2>2, <2>3
<1>8. TLVs(d, 7, Len(b.list), 5) = b.list
  <2>1. 7 \in Nat /\ 4 + 1 = 5
    OBVIOUS
  <2>2. TLVs(d, 7, Len(b.list), 4 + 1) = b.list
    BY <1>3, <1>4, <2>1, LongIds, TLVsRead
  <2> QED
    BY <2>1, <2>2
<1>9. ~(Len(d) < 7)
  <2>1. DecodeParamSettingData(d) # Malformed
    <3>1. Malformed.err = TRUE
      BY DEF Malformed
    <3> QED
      BY <1>5, <3>1 DEF Accepts
  <2> QED
    BY <2>1 DEF DecodeParamSettingData
<1>10. DecodeParamSettingData(d)
         = Decoded([time |-> b.time, count |-> b.count, list |-> b.list])
  BY <1>2, <1>6, <1>7, <1>8, <1>9 DEF DecodeParamSettingData
<1>11. b = [time |-> b.time, count |-> b.count, list |-> b.list]
  BY <1>2
<1>12. DecodeParamSettingData(d) = Decoded(b)
  BY <1>10, <1>11
<1> QED
  BY <1>12 DEF d

LEMMA ParamAnswerRead ==
  ASSUME NEW b \in BodiesOf("paramanswer")
  PROVE  ReadParamAnswer(sendParamQueryResponse(b)) = Decoded(b)
<1> DEFINE d == sendParamQueryResponse(b)
<1>1. BodiesOf("paramanswer") =
        {c \in [count : Byte, list : ParamLists(LongWord)] :
           c.count = Len(c.list)}
  BY DEF BodiesOf
<1>2. /\ b \in [count : Byte, list : ParamLists(LongWord)]
      /\ b.count = Len(b.list)
  BY <1>1
<1>3. b.list \in ParamLists(LongWord)
  BY <1>2
<1>4. d \in Seq(Byte) /\ At(d, 0, <<b.count>>) /\ At(d, 1, EncodeTLVs(b.list, 4))
  BY ParamAnswerLayout
<1>5. Accepts(d, ReadParamAnswer(d))
  BY ParamAnswerAccepted
<1> HIDE DEF d
<1>6. d[1] = Len(b.list)
  <2>1. 0 \in Nat /\ 0 + 1 = 1
    OBVIOUS
  <2>2. d[0 + 1] = b.count
    BY <1>4, <2>1, ByteRead
  <2> QED
    BY <1>2, <2>1, <2>2
<1>7. TLVs(d, 1, Len(b.list), 5) = b.list
  <2>1. 1 \in Nat /\ 4 + 1 = 5
    OBVIOUS
  <2>2. TLVs(d, 1, Len(b.list), 4 + 1) = b.list
    BY <1>3, <1>4, <2>1, LongIds, TLVsRead
  <2> QED
    BY <2>1, <2>2
<1>8. ~(Len(d) < 1)
  <2>1. ReadParamAnswer(d) # Malformed
    <3>1. Malformed.err = TRUE
      BY DEF Malformed
    <3> QED
      BY <1>5, <3>1 DEF Accepts
  <2> QED
    BY <2>1 DEF ReadParamAnswer
<1>9. ReadParamAnswer(d) = Decoded([count |-> b.count, list |-> b.list])
  BY <1>2, <1>6, <1>7, <1>8 DEF ReadParamAnswer
<1>10. b = [count |-> b.count, list |-> b.list]
  BY <1>2
<1>11. ReadParamAnswer(d) = Decoded(b)
  BY <1>9, <1>10
<1> QED
  BY <1>11 DEF d

LEMMA LoginResponseRead ==
  ASSUME NEW b \in BodiesOf("loginresponse")
  PROVE  ReadLoginResponse(EncodeLoginResponse(b)) = Decoded(b)
<1> DEFINE d == EncodeLoginResponse(b)
           n == Len(b.token)
<1>1. BodiesOf("loginresponse") =
        [time : Times, seq : Word, result : Byte, token : Seq(Byte)]
  BY DEF BodiesOf
<1>2. b \in [time : Times, seq : Word, result : Byte, token : Seq(Byte)]
  BY <1>1
<1>3. /\ b.time \in Times /\ b.seq \in Word /\ b.seq \in Nat
      /\ b.token \in Seq(Byte)
  <2>1. \A x \in Word : x \in Nat
    BY DEF Word
  <2> QED
    BY <1>2, <2>1
<1>4. /\ d \in Seq(Byte) /\ Len(d) = 9 + n /\ At(d, 0, encodeBCDTime(b.time))
      /\ At(d, 6, PutUint(b.seq, 2)) /\ At(d, 8, <<b.result>>)
      /\ At(d, 9, b.token)
  BY LoginResponseLayout DEF encodeTime6
<1>5. n \in Nat
  BY <1>3, LenProperties
<1> HIDE DEF d
<1>6. parseBCDTime6(Slice(d, 0, 6)) = b.time
  BY <1>3, <1>4, TimeRead
<1>7. U16(d, 6) = b.seq
  <2>1. 6 \in Nat
    OBVIOUS
  <2> QED
    BY <1>3, <1>4, <2>1, UintRead
<1>8. d[9] = b.result
  <2>1. 8 \in Nat /\ 8 + 1 = 9
    OBVIOUS
  <2>2. d[8 + 1] = b.result
    BY <1>4, <2>1, ByteRead
  <2> QED
    BY <2>1, <2>2
<1>9. Slice(d, 9, Len(d)) = b.token
  <2>1. 9 \in Nat
    OBVIOUS
  <2>2. Slice(d, 9, 9 + n) = b.token
    BY <1>3, <1>4, <2>1, SliceAt
  <2> QED
    BY <1>4, <2>2
<1> HIDE DEF n
<1>10. ~(Len(d) < 9)
  BY <1>4, <1>5
<1>11. ReadLoginResponse(d)
         = Decoded([time |-> b.time, seq |-> b.seq, result |-> b.result,
                    token |-> b.token])
  BY <1>6, <1>7, <1>8, <1>9, <1>10 DEF ReadLoginResponse
<1>12. b = [time |-> b.time, seq |-> b.seq, result |-> b.result,
            token |-> b.token]
  BY <1>2
<1>13. ReadLoginResponse(d) = Decoded(b)
  BY <1>11, <1>12
<1> QED
  BY <1>13 DEF d

\* Identifiers of four bytes each, one after the other.
LEMMA IdsRead ==
  ASSUME NEW l \in Seq(LongWord), NEW d \in Seq(Byte), NEW p \in Nat,
         At(d, p, FlattenSeq([i \in DOMAIN l |-> PutUint(l[i], 4)]))
  PROVE  /\ Len(FlattenSeq([i \in DOMAIN l |-> PutUint(l[i], 4)])) = 4 * Len(l)
         /\ \A i \in 1..Len(l) : U32(d, p + 4 * (i - 1)) = l[i]
<1> DEFINE n == Len(l)
           f == [i \in DOMAIN l |-> PutUint(l[i], 4)]
           F == FlattenSeq(f)
<1>1. n \in Nat /\ DOMAIN l = 1..n
  BY LenProperties
<1>2. \A i \in 1..n : l[i] \in LongWord /\ l[i] \in Nat
  BY ElementOfSeq, LongIds
<1>3. f \in [1..n -> Seq(Byte)] /\ \A i \in 1..n : Len(f[i]) = 4
  BY <1>1, <1>2, PutBytes
<1>4. \A i \in 1..n : f[i] = PutUint(l[i], 4)
  BY <1>1
<1> HIDE DEF f, n
<1>5. F \in Seq(Byte)
  BY <1>1, <1>3, ListBytes
<1>6. PICK off : Laid(F, f, n, off)
  BY <1>1, <1>3, ListLaid
<1>7. At(d, p, F)
  BY DEF f
<1> HIDE DEF F
<1>8. /\ off \in [0..n -> Nat] /\ off[0] = 0 /\ off[n] = Len(F)
      /\ \A i \in 1..n : off[i] = off[i - 1] + 4 /\ At(F, off[i - 1], f[i])
  BY <1>3, <1>6 DEF Laid
<1> DEFINE diff == [i \in 0..n |-> off[i] - 4 * i]
<1>9. \A i \in 0..n : diff[i] \in {0}
  <2>1. diff[0] \in {0}
    BY <1>1, <1>8
  <2>2. \A i \in 0..n : i # 0 /\ diff[i - 1] \in {0} => diff[i] \in {0}
    <3> SUFFICES ASSUME NEW i \in 0..n, i # 0, diff[i - 1] \in {0}
                 PROVE  diff[i] \in {0}
      OBVIOUS
    <3>1. i \in 1..n /\ i - 1 \in 0..n
      BY <1>1
    <3>2. off[i] = off[i - 1] + 4 /\ off[i - 1] \in Nat
      BY <1>8, <3>1
    <3>3. off[i - 1] - 4 * (i - 1) = 0
      BY <3>1
    <3> QED
      BY <3>1, <3>2, <3>3
  <2> HIDE DEF diff
  <2>3. 0 \in Nat
    OBVIOUS
  <2> QED
    BY <1>1, <2>1, <2>2, <2>3, StepByStep
<1>10. \A i \in 0..n : off[i] = 4 * i
  <2> SUFFICES ASSUME NEW i \in 0..n PROVE off[i] = 4 * i
    OBVIOUS
  <2>1. off[i] - 4 * i = 0 /\ off[i] \in Nat /\ i \in Int
    BY <1>8, <1>9
  <2> DEFINE o == off[i]
  <2> HIDE DEF o
  <2>2. o = 4 * i
    <3>1. o \in Int /\ i \in Int /\ o - 4 * i = 0
      BY <2>1 DEF o
    <3>2. \A x, y \in Int : x - y = 0 => x = y
      OBVIOUS
    <3>3. 4 * i \in Int
      BY <3>1
    <3> QED
      BY <3>1, <3>2, <3>3, Zenon
  <2> QED
    BY <2>2 DEF o
<1>11. Len(F) = 4 * n
  BY <1>1, <1>8, <1>10
<1>12. ASSUME NEW i \in 1..n PROVE U32(d, p + 4 * (i - 1)) = l[i]
  <2> DEFINE o == 4 * (i - 1)
             s == f[i]
             x == l[i]
  <2>1. i - 1 \in 0..n /\ o \in Nat
    BY <1>1
  <2>2. At(F, o, s)
    BY <1>8, <1>10, <2>1
  <2>3. s \in Seq(Byte) /\ s = PutUint(x, 4) /\ x \in LongWord /\ x \in Nat
    BY <1>2, <1>3, <1>4
  <2> HIDE DEF o, s, x
  <2>4. At(d, p + o, s) /\ p + o \in Nat
    BY <1>5, <1>7, <2>1, <2>2, <2>3, AtInside
  <2>5. U32(d, p + o) = x
    BY <2>3, <2>4, UintRead
  <2> QED
    BY <2>5 DEF o, x
<1> QED
  BY <1>11, <1>12 DEF F, f, n

LEMMA ParamQueryRead ==
  ASSUME NEW b \in BodiesOf("paramquery")
  PROVE  DecodeParamQueryData(SendParamQuery(b)) = Decoded(b)
<1> DEFINE d == SendParamQuery(b)
           n == Len(b.ids)
           F == FlattenSeq([i \in DOMAIN b.ids |-> PutUint(b.ids[i], 4)])
<1>1. BodiesOf("paramquery") =
        {c \in [time : Times, count : Byte, ids : Seq(LongWord)] :
           c.count = Len(c.ids)}
  BY DEF BodiesOf
<1>2. /\ b \in [time : Times, count : Byte, ids : Seq(LongWord)]
      /\ b.count = n
  BY <1>1
<1>3. b.time \in Times /\ b.ids \in Seq(LongWord) /\ n \in Byte
  BY <1>2
<1>4. n \in Nat /\ DOMAIN b.ids = 1..n
  BY <1>3, LenProperties
<1>5. /\ d \in Seq(Byte) /\ Len(d) = 7 + Len(F) /\ At(d, 0, encodeBCDTime(b.time))
      /\ At(d, 6, <<n % 256>>) /\ At(d, 7, F)
  BY ParamQueryLayout DEF encodeTime6
<1> HIDE DEF d
<1>6. Len(F) = 4 * n /\ \A i \in 1..n : U32(d, 7 + 4 * (i - 1)) = b.ids[i]
  <2>1. 7 \in Nat
    OBVIOUS
  <2> QED
    BY <1>3, <1>5, <2>1, IdsRead
<1> HIDE DEF n, F
<1>7. decodeTime6(Slice(d, 0, 6)) = b.time
  BY <1>3, <1>5, TimeRead
<1>8. d[7] = n
  <2>1. At(d, 6, <<n>>)
    BY <1>3, <1>5, CountByte
  <2>2. 6 \in Nat /\ 6 + 1 = 7
    OBVIOUS
  <2>3. d[6 + 1] = n
    BY <2>1, <2>2, ByteRead
  <2> QED
    BY <2>2, <2>3
<1>9. (Len(d) - 7) \div 4 = n /\ ~(Len(d) < 7)
  BY <1>4, <1>5, <1>6
<1>10. Min({d[7], (Len(d) - 7) \div 4}) = n
  <2>1. {d[7], (Len(d) - 7) \div 4} = {n}
    BY <1>8, <1>9
  <2>2. Min({n}) = n
    <3>1. {n} \in SUBSET Nat /\ {n} # {}
      BY <1>4
    <3>2. Min({n}) \in {n}
      BY <3>1, LeastNat
    <3> QED
      BY <3>2
  <2> QED
    BY <2>1, <2>2
<1>11. [i \in 1..n |-> U32(d, 4 * i + 3)] = b.ids
  <2>1. ASSUME NEW i \in 1..n PROVE U32(d, 4 * i + 3) = b.ids[i]
    <3>1. 4 * i + 3 = 7 + 4 * (i - 1)
      BY <1>4
    <3> QED
      BY <1>6, <3>1
  <2>2. b.ids = [i \in 1..n |-> b.ids[i]]
    BY <1>3, <1>4
  <2> QED
    BY <2>1, <2>2
<1>12. DecodeParamQueryData(d)
         = Decoded([time |-> b.time, count |-> b.count, ids |-> b.ids])
  <2> DEFINE m == Min({d[7], (Len(d) - 7) \div 4})
  <2>1. DecodeParamQueryData(d)
          = Decoded([time |-> decodeTime6(Slice(d, 0, 6)), count |-> d[7],
                     ids |-> [i \in 1..m |-> U32(d, 4 * i + 3)]])
    BY <1>9 DEF DecodeParamQueryData
  <2>2. m = n
    BY <1>10
  <2> HIDE DEF m
  <2> QED
    BY <1>2, <1>7, <1>8, <1>11, <2>1, <2>2
<1>13. b = [time |-> b.time, count |-> b.count, ids |-> b.ids]
  BY <1>2
<1>14. DecodeParamQueryData(d) = Decoded(b)
  BY <1>12, <1>13
<1> QED
  BY <1>14 DEF d

LEMMA BodyRead ==
  ASSUME TimeCodec = "BCD", NEW kind \in BodyKinds, NEW b \in BodiesOf(kind)
  PROVE  DecodeBody(kind, EncodeBody(kind, b)) = Decoded(b)
<1>1. CASE kind = "login"
  <2>1. /\ EncodeBody(kind, b) = EncodeLogin(b)
        /\ \A d : DecodeBody(kind, d) = DecodeLoginData(d)
    BY <1>1 DEF EncodeBody, DecodeBody
  <2>2. DecodeLoginData(EncodeLogin(b)) = Decoded(b)
    BY <1>1, LoginRead
  <2> QED
    BY <2>1, <2>2
<1>2. CASE kind = "logout"
  <2>1. /\ EncodeBody(kind, b) = EncodeLogout(b)
        /\ \A d : DecodeBody(kind, d) = DecodeLogoutData(d)
    BY <1>2 DEF EncodeBody, DecodeBody
  <2>2. DecodeLogoutData(EncodeLogout(b)) = Decoded(b)
    BY <1>2, LogoutRead
  <2> QED
    BY <2>1, <2>2
<1>3. CASE kind = "platlogout"
  <2>1. /\ EncodeBody(kind, b) = SendPlatLogout(b)
        /\ \A d : DecodeBody(kind, d) = DecodePlatLogoutResponse(d)
    BY <1>3 DEF EncodeBody, DecodeBody
  <2>2. DecodePlatLogoutResponse(SendPlatLogout(b)) = Decoded(b)
    BY <1>3, PlatLogoutRead
  <2> QED
    BY <2>1, <2>2
<1>4. CASE kind = "platlogin"
  <2>1. /\ EncodeBody(kind, b) = SendPlatLogin(b)
        /\ \A d : DecodeBody(kind, d) = DecodePlatLoginResponse(d)
    BY <1>4 DEF EncodeBody, DecodeBody
  <2>2. DecodePlatLoginResponse(SendPlatLogin(b)) = Decoded(b)
    BY <1>4, PlatLoginRead
  <2> QED
    BY <2>1, <2>2
<1>5. CASE kind = "paramquery"
  <2>1. /\ EncodeBody(kind, b) = SendParamQuery(b)
        /\ \A d : DecodeBody(kind, d) = DecodeParamQueryData(d)
    BY <1>5 DEF EncodeBody, DecodeBody
  <2>2. DecodeParamQueryData(SendParamQuery(b)) = Decoded(b)
    BY <1>5, ParamQueryRead
  <2> QED
    BY <2>1, <2>2
<1>6. CASE kind = "paramsetting"
  <2>1. /\ EncodeBody(kind, b) = SendParamSetting(b)
        /\ \A d : DecodeBody(kind, d) = DecodeParamSettingData(d)
    BY <1>6 DEF EncodeBody, DecodeBody
  <2>2. DecodeParamSettingData(SendParamSetting(b)) = Decoded(b)
    BY <1>6, ParamSettingRead
  <2> QED
    BY <2>1, <2>2
<1>7. CASE kind = "paramanswer"
  <2>1. /\ EncodeBody(kind, b) = sendParamQueryResponse(b)
        /\ \A d : DecodeBody(kind, d) = ReadParamAnswer(d)
    BY <1>7 DEF EncodeBody, DecodeBody
  <2>2. ReadParamAnswer(sendParamQueryResponse(b)) = Decoded(b)
    BY <1>7, ParamAnswerRead
  <2> QED
    BY <2>1, <2>2
<1>8. CASE kind = "loginresponse"
  <2>1. /\ EncodeBody(kind, b) = EncodeLoginResponse(b)
        /\ \A d : DecodeBody(kind, d) = ReadLoginResponse(d)
    BY <1>8 DEF EncodeBody, DecodeBody
  <2>2. ReadLoginResponse(EncodeLoginResponse(b)) = Decoded(b)
    BY <1>8, LoginResponseRead
  <2> QED
    BY <2>1, <2>2
<1> QED
  BY <1>1, <1>2, <1>3, <1>4, <1>5, <1>6, <1>7, <1>8 DEF BodyKinds

---------------------------------------------------------------------------
(* The decoders of Bodies on a body that was cut short.                    *)

\* The time, the number behind it and single bytes, as far as they are there.
LEMMA TimeCut ==
  ASSUME NEW d \in Seq(Byte), NEW e \in Seq(Byte), Cut(d, e), Len(d) >= 6,
         NEW t \in Times, At(e, 0, encodeBCDTime(t))
  PROVE  decodeTime6(Slice(d, 0, 6)) = t /\ parseBCDTime6(Slice(d, 0, 6)) = t
<1> DEFINE s == encodeBCDTime(t)
<1>1. s \in Seq(Byte) /\ Len(s) = 6
  BY TimeBytes DEF encodeTime6
<1> HIDE DEF s
<1>2. 0 \in Nat /\ 0 + Len(s) <= Len(d)
  BY <1>1, LenProperties
<1>3. At(d, 0, s)
  BY <1>1, <1>2, AtCut DEF s
<1> QED
  BY <1>3, TimeRead DEF s

LEMMA SeqCut ==
  ASSUME NEW d \in Seq(Byte), NEW e \in Seq(Byte), Cut(d, e), Len(d) >= 8,
         NEW n \in Word, At(e, 6, PutUint(n, 2))
  PROVE  U16(d, 6) = n
<1> DEFINE s == PutUint(n, 2)
<1>0. n \in Nat
  BY DEF Word
<1>1. s \in Seq(Byte) /\ Len(s) = 2
  BY <1>0, PutBytes
<1> HIDE DEF s
<1>2. 6 \in Nat /\ 6 + Len(s) <= Len(d)
  BY <1>1, LenProperties
<1>3. At(d, 6, s)
  BY <1>1, <1>2, AtCut DEF s
<1> QED
  BY <1>0, <1>2, <1>3, UintRead DEF s

LEMMA ZeroCut ==
  ASSUME NEW d \in Seq(Byte), NEW e \in Seq(Byte), Cut(d, e), Len(d) >= 8,
         At(e, 6, <<0, 0>>)
  PROVE  U16(d, 6) = 0
<1> DEFINE s == <<0, 0>>
<1>0. 0 \in Byte
  BY DEF Byte
<1>1. s \in Seq(Byte) /\ Len(s) = 2
  BY <1>0, TwoBytes
<1> HIDE DEF s
<1>2. 6 \in Nat /\ 6 + Len(s) <= Len(d)
  BY <1>1, LenProperties
<1>3. At(d, 6, s)
  BY <1>1, <1>2, AtCut DEF s
<1> QED
  BY <1>3, ZeroRead DEF s

LEMMA ByteCut ==
  ASSUME NEW d \in Seq(Byte), NEW e \in Seq(Byte), Cut(d, e),
         NEW p \in Nat, p + 1 <= Len(d), NEW x, At(e, p, <<x>>)
  PROVE  d[p + 1] = x
<1>1. e[p + 1] = x
  BY ByteRead
<1>2. p + 1 \in 1..Len(d)
  BY LenProperties
<1> QED
  BY <1>1, <1>2 DEF Cut

\* A string is read if all of it is there; otherwise nothing is.
LEMMA StringCut ==
  ASSUME NEW d \in Seq(Byte), NEW e \in Seq(Byte), Cut(d, e),
         NEW p \in Nat, NEW v \in Strings, At(e, p, EncodeParamString(v))
  PROVE  IF p + 1 + Len(v) <= Len(d)
         THEN decodeParamString(d, p) = [s |-> v, n |-> 1 + Len(v)]
         ELSE decodeParamString(d, p) = [s |-> <<>>, n |-> 0]
<1>1. Len(d) \in Nat
  BY LenProperties
<1>2. /\ EncodeParamString(v) \in Seq(Byte)
      /\ Len(EncodeParamString(v)) = 1 + Len(v) /\ Len(v) \in Nat
  BY StringBytes
<1>3. CASE p + 1 + Len(v) <= Len(d)
  <2>1. p + Len(EncodeParamString(v)) <= Len(d)
    BY <1>2, <1>3
  <2>2. At(d, p, EncodeParamString(v))
    BY <1>2, <2>1, AtCut
  <2> QED
    BY <1>3, <2>2, ParamStringRead
<1>4. CASE ~(p + 1 + Len(v) <= Len(d))
  <2>1. Len(d) - p < 1 \/ p + 1 + d[p + 1] > Len(d)
    <3>1. CASE Len(d) - p < 1
      BY <3>1
    <3>2. CASE ~(Len(d) - p < 1)
      <4>1. p + 1 \in 1..Len(d)
        BY <1>1, <3>2
      <4>2. d[p + 1] = e[p + 1]
        BY <4>1 DEF Cut
      <4>3. e[p + 1] = Len(v)
        BY StringRead DEF StringIs
      <4> QED
        BY <1>1, <1>2, <1>4, <4>2, <4>3
    <3> QED
      BY <3>1, <3>2
  <2>2. decodeParamString(d, p) = [s |-> <<>>, n |-> 0]
    BY <2>1 DEF decodeParamString
  <2> QED
    BY <1>4, <2>2
<1> QED
  BY <1>3, <1>4

\* A decoder refuses the beginning of a body, or reports the body without its
\* end.
RefusesOrKeeps(result, b) == result.err = TRUE \/ LosesEnd(result.value, b)

LEMMA Refuses == \A b : RefusesOrKeeps(Malformed, b)
BY DEF RefusesOrKeeps, Malformed

LEMMA Keeps ==
  ASSUME NEW v, NEW b, LosesEnd(v, b)
  PROVE  RefusesOrKeeps(Decoded(v), b)
<1>1. Decoded(v).value = v
  BY DEF Decoded
<1> QED
  BY <1>1 DEF RefusesOrKeeps

LEMMA LogoutCut ==
  ASSUME TimeCodec = "BCD", NEW b \in BodiesOf("logout"),
         NEW d \in Seq(Byte), Cut(d, EncodeLogout(b))
  PROVE  RefusesOrKeeps(DecodeLogoutData(d), b)
<1> DEFINE e == EncodeLogout(b)
<1>1. BodiesOf("logout") = [time : Times, seq : Word]
  BY DEF BodiesOf
<1>2. b \in [time : Times, seq : Word]
  BY <1>1
<1>3. b.time \in Times /\ b.seq \in Word
  BY <1>2
<1>4. /\ e \in Seq(Byte) /\ At(e, 0, encodeBCDTime(b.time))
      /\ At(e, 6, PutUint(b.seq, 2)) /\ Cut(d, e)
  BY LogoutLayout DEF EncodeTime
<1> HIDE DEF e
<1>5. CASE Len(d) < 8
  BY <1>5, Refuses DEF DecodeLogoutData
<1>6. CASE ~(Len(d) < 8)
  <2>1. Len(d) >= 8 /\ Len(d) >= 6
    BY <1>6, LenProperties
  <2>2. decodeTime6(Slice(d, 0, 6)) = b.time
    BY <1>3, <1>4, <2>1, TimeCut
  <2>3. U16(d, 6) = b.seq
    BY <1>3, <1>4, <2>1, SeqCut
  <2>4. DecodeLogoutData(d) = Decoded([time |-> b.time, seq |-> b.seq])
    BY <1>6, <2>2, <2>3 DEF DecodeLogoutData
  <2>5. LosesEnd([time |-> b.time, seq |-> b.seq], b)
    BY DEF LosesEnd
  <2> QED
    BY <2>4, <2>5, Keeps
<1> QED
  BY <1>5, <1>6

LEMMA PlatLogoutCut ==
  ASSUME NEW b \in BodiesOf("platlogout"),
         NEW d \in Seq(Byte), Cut(d, SendPlatLogout(b))
  PROVE  RefusesOrKeeps(DecodePlatLogoutResponse(d), b)
<1> DEFINE e == SendPlatLogout(b)
<1>1. BodiesOf("platlogout") = [time : Times, seq : {0}]
  BY DEF BodiesOf
<1>2. b \in [time : Times, seq : {0}]
  BY <1>1
<1>3. b.time \in Times /\ b.seq = 0
  BY <1>2
<1>4. /\ e \in Seq(Byte) /\ At(e, 0, encodeBCDTime(b.time))
      /\ At(e, 6, <<0, 0>>) /\ Cut(d, e)
  BY PlatLogoutLayout DEF encodeTime6
<1> HIDE DEF e
<1> USE DEF DecodePlatLogoutResponse
<1>5. CASE Len(d) < 8
  BY <1>5, Refuses DEF DecodeLogoutData
<1>6. CASE ~(Len(d) < 8)
  <2>1. Len(d) >= 8 /\ Len(d) >= 6
    BY <1>6, LenProperties
  <2>2. decodeTime6(Slice(d, 0, 6)) = b.time
    BY <1>3, <1>4, <2>1, TimeCut
  <2>3. U16(d, 6) = b.seq
    BY <1>3, <1>4, <2>1, ZeroCut
  <2>4. DecodeLogoutData(d) = Decoded([time |-> b.time, seq |-> b.seq])
    BY <1>6, <2>2, <2>3 DEF DecodeLogoutData
  <2>5. LosesEnd([time |-> b.time, seq |-> b.seq], b)
    BY DEF LosesEnd
  <2> QED
    BY <2>4, <2>5, Keeps
<1> QED
  BY <1>5, <1>6

LEMMA PlatLoginCut ==
  ASSUME NEW b \in BodiesOf("platlogin"),
         NEW d \in Seq(Byte), Cut(d, SendPlatLogin(b))
  PROVE  RefusesOrKeeps(DecodePlatLoginResponse(d), b)
<1> DEFINE e == SendPlatLogin(b)
           n == Len(b.user)
<1>1. BodiesOf("platlogin") =
        [time : Times, seq : {0}, user : Strings, password : Strings]
  BY DEF BodiesOf
<1>2. b \in [time : Times, seq : {0}, user : Strings, password : Strings]
  BY <1>1
<1>3. /\ b.time \in Times /\ b.seq = 0
      /\ b.user \in Strings /\ b.password \in Strings
  BY <1>2
<1>4. /\ e \in Seq(Byte) /\ Cut(d, e)
      /\ At(e, 0, encodeBCDTime(b.time)) /\ At(e, 6, <<0, 0>>)
      /\ At(e, 8, EncodeParamString(b.user))
      /\ At(e, 9 + n, EncodeParamString(b.password))
  BY PlatLoginLayout DEF encodeTime6
<1>5. n \in Nat /\ Len(d) \in Nat
  BY <1>3, StringBytes, LenProperties
<1> HIDE DEF e
<1>6. CASE Len(d) < 8
  BY <1>6, Refuses DEF DecodePlatLoginResponse
<1>7. CASE ~(Len(d) < 8)
  <2>1. Len(d) >= 8 /\ Len(d) >= 6
    BY <1>5, <1>7
  <2>2. decodeTime6(Slice(d, 0, 6)) = b.time
    BY <1>3, <1>4, <2>1, TimeCut
  <2>3. U16(d, 6) = b.seq
    BY <1>3, <1>4, <2>1, ZeroCut
  <2> DEFINE u == decodeParamString(d, 8)
             v == decodeParamString(d, 8 + u.n)
  <2>4. IF 8 + 1 + n <= Len(d)
        THEN u = [s |-> b.user, n |-> 1 + n]
        ELSE u = [s |-> <<>>, n |-> 0]
    <3>1. 8 \in Nat
      OBVIOUS
    <3> QED
      BY <1>3, <1>4, <3>1, StringCut
  <2> HIDE DEF n
  <2>5. IF (9 + n) + 1 + Len(b.password) <= Len(d)
        THEN decodeParamString(d, 9 + n)
               = [s |-> b.password, n |-> 1 + Len(b.password)]
        ELSE decodeParamString(d, 9 + n) = [s |-> <<>>, n |-> 0]
    <3>1. 9 + n \in Nat
      BY <1>5
    <3> QED
      BY <1>3, <1>4, <3>1, StringCut
  <2> HIDE DEF u
  <2>6. u.s \in {<<>>, b.user} /\ v.s \in {<<>>, b.password}
    <3>1. CASE 8 + 1 + n <= Len(d)
      <4>1. u.s = b.user /\ u.n = 1 + n
        BY <2>4, <3>1
      <4>2. 8 + u.n = 9 + n
        BY <1>5, <4>1
      <4>3. v = decodeParamString(d, 9 + n)
        BY <4>2
      <4> HIDE DEF v
      <4>4. v.s \in {<<>>, b.password}
        BY <2>5, <4>3
      <4> QED
        BY <4>1, <4>4
    <3>2. CASE ~(8 + 1 + n <= Len(d))
      <4>1. u.s = <<>> /\ u.n = 0
        BY <2>4, <3>2
      <4>2. 8 + u.n = 8
        BY <4>1
      <4>3. v = u
        BY <4>2 DEF u
      <4> HIDE DEF v
      <4> QED
        BY <4>1, <4>3
    <3> QED
      BY <3>1, <3>2
  <2>7. DecodePlatLoginResponse(d)
          = Decoded([time |-> b.time, seq |-> b.seq,
                     user |-> u.s, password |-> v.s])
    BY <1>7, <2>2, <2>3 DEF DecodePlatLoginResponse, u
  <2> HIDE DEF v
  <2>8. LosesEnd([time |-> b.time, seq |-> b.seq,
                  user |-> u.s, password |-> v.s], b)
    BY <2>6 DEF LosesEnd
  <2> QED
    BY <2>7, <2>8, Keeps
<1> QED
  BY <1>6, <1>7

LEMMA ParamSettingCut ==
  ASSUME NEW b \in BodiesOf("paramsetting"),
         NEW d \in Seq(Byte), Cut(d, SendParamSetting(b))
  PROVE  RefusesOrKeeps(DecodeParamSettingData(d), b)
<1> DEFINE e == SendParamSetting(b)
<1>1. BodiesOf("paramsetting") =
        {c \in [time : Times, count : Byte, list : ParamLists(LongWord)] :
           c.count = Len(c.list)}
  BY DEF BodiesOf
<1>2. /\ b \in [time : Times, count : Byte, list : ParamLists(LongWord)]
      /\ b.count = Len(b.list)
  BY <1>1
<1>3. /\ b.time \in Times /\ b.list \in ParamLists(LongWord)
      /\ Len(b.list) \in Byte
  BY <1>2
<1>4. /\ e \in Seq(Byte) /\ Cut(d, e) /\ At(e, 0, encodeBCDTime(b.time))
      /\ At(e, 6, <<Len(b.list)>>) /\ At(e, 7, EncodeTLVs(b.list, 4))
  <2>1. Len(b.list) % 256 = Len(b.list)
    BY <1>3, CountByte
  <2> QED
    BY <2>1, ParamSettingLayout DEF encodeTime6
<1> HIDE DEF e
<1>5. CASE Len(d) < 7
  BY <1>5, Refuses DEF DecodeParamSettingData
<1>6. CASE ~(Len(d) < 7)
  <2>1. Len(d) >= 6 /\ 6 \in Nat /\ 6 + 1 <= Len(d) /\ 6 + 1 = 7
    BY <1>6, LenProperties
  <2>2. decodeTime6(Slice(d, 0, 6)) = b.time
    BY <1>3, <1>4, <2>1, TimeCut
  <2>3. d[7] = Len(b.list)
    <3>1. d[6 + 1] = Len(b.list)
      BY <1>4, <2>1, ByteCut
    <3> QED
      BY <2>1, <3>1
  <2> DEFINE l == TLVs(d, 7, Len(b.list), 5)
  <2>4. IsPrefix(l, b.list)
    <3>1. 7 \in Nat /\ 4 + 1 = 5
      OBVIOUS
    <3>2. IsPrefix(TLVs(d, 7, Len(b.list), 4 + 1), b.list)
      BY <1>3, <1>4, <3>1, LongIds, TLVsCut
    <3> QED
      BY <3>1, <3>2
  <2>5. DecodeParamSettingData(d)
          = Decoded([time |-> b.time, count |-> b.count, list |-> l])
    BY <1>2, <1>6, <2>2, <2>3 DEF DecodeParamSettingData
  <2> HIDE DEF l
  <2>6. LosesEnd([time |-> b.time, count |-> b.count, list |-> l], b)
    BY <2>4 DEF LosesEnd
  <2> QED
    BY <2>5, <2>6, Keeps
<1> QED
  BY <1>5, <1>6

LEMMA ParamAnswerCut ==
  ASSUME NEW b \in BodiesOf("paramanswer"),
         NEW d \in Seq(Byte), Cut(d, sendParamQueryResponse(b))
  PROVE  RefusesOrKeeps(ReadParamAnswer(d), b)
<1> DEFINE e == sendParamQueryResponse(b)
<1>1. BodiesOf("paramanswer") =
        {c \in [count : Byte, list : ParamLists(LongWord)] :
           c.count = Len(c.list)}
  BY DEF BodiesOf
<1>2. /\ b \in [count : Byte, list : ParamLists(LongWord)]
      /\ b.count = Len(b.list)
  BY <1>1
<1>3. b.list \in ParamLists(LongWord)
  BY <1>2
<1>4. /\ e \in Seq(Byte) /\ Cut(d, e) /\ At(e, 0, <<b.count>>)
      /\ At(e, 1, EncodeTLVs(b.list, 4))
  BY ParamAnswerLayout
<1> HIDE DEF e
<1>5. CASE Len(d) < 1
  BY <1>5, Refuses DEF ReadParamAnswer
<1>6. CASE ~(Len(d) < 1)
  <2>1. 0 \in Nat /\ 0 + 1 <= Len(d) /\ 0 + 1 = 1
    BY <1>6, LenProperties
  <2>2. d[1] = Len(b.list)
    <3>1. d[0 + 1] = b.count
      BY <1>4, <2>1, ByteCut
    <3> QED
      BY <1>2, <2>1, <3>1
  <2> DEFINE l == TLVs(d, 1, Len(b.list), 5)
  <2>3. IsPrefix(l, b.list)
    <3>1. 1 \in Nat /\ 4 + 1 = 5
      OBVIOUS
    <3>2. IsPrefix(TLVs(d, 1, Len(b.list), 4 + 1), b.list)
      BY <1>3, <1>4, <3>1, LongIds, TLVsCut
    <3> QED
      BY <3>1, <3>2
  <2>4. ReadParamAnswer(d) = Decoded([count |-> b.count, list |-> l])
    BY <1>2, <1>6, <2>2 DEF ReadParamAnswer
  <2> HIDE DEF l
  <2>5. LosesEnd([count |-> b.count, list |-> l], b)
    BY <2>3 DEF LosesEnd
  <2> QED
    BY <2>4, <2>5, Keeps
<1> QED
  BY <1>5, <1>6

LEMMA LoginResponseCut ==
  ASSUME NEW b \in BodiesOf("loginresponse"),
         NEW d \in Seq(Byte), Cut(d, EncodeLoginResponse(b))
  PROVE  RefusesOrKeeps(ReadLoginResponse(d), b)
<1> DEFINE e == EncodeLoginResponse(b)
<1>1. BodiesOf("loginresponse") =
        [time : Times, seq : Word, result : Byte, token : Seq(Byte)]
  BY DEF BodiesOf
<1>2. b \in [time : Times, seq : Word, result : Byte, token : Seq(Byte)]
  BY <1>1
<1>3. /\ b.time \in Times /\ b.seq \in Word /\ b.token \in Seq(Byte)
  BY <1>2
<1>4. /\ e \in Seq(Byte) /\ Cut(d, e) /\ Len(e) = 9 + Len(b.token)
      /\ At(e, 0, encodeBCDTime(b.time)) /\ At(e, 6, PutUint(b.seq, 2))
      /\ At(e, 8, <<b.result>>) /\ At(e, 9, b.token)
  BY LoginResponseLayout DEF encodeTime6
<1>5. Len(d) \in Nat /\ Len(b.token) \in Nat
  BY <1>3, LenProperties
<1> HIDE DEF e
<1>6. CASE Len(d) < 9
  BY <1>6, Refuses DEF ReadLoginResponse
<1>7. CASE ~(Len(d) < 9)
  <2>1. /\ Len(d) >= 6 /\ Len(d) >= 8 /\ 8 \in Nat /\ 8 + 1 <= Len(d)
        /\ 8 + 1 = 9
    BY <1>5, <1>7
  <2>2. parseBCDTime6(Slice(d, 0, 6)) = b.time
    BY <1>3, <1>4, <2>1, TimeCut
  <2>3. U16(d, 6) = b.seq
    BY <1>3, <1>4, <2>1, SeqCut
  <2>4. d[9] = b.result
    <3>1. d[8 + 1] = b.result
      BY <1>4, <2>1, ByteCut
    <3> QED
      BY <2>1, <3>1
  <2> DEFINE t == Slice(d, 9, Len(d))
             k == Len(d) - 9
             f == Firsts(b.token, k)
  <2>5. k \in 0..Len(b.token) /\ k \in Nat /\ 9 + k = Len(d)
    BY <1>4, <1>5, <1>7 DEF Cut
  <2>6. t = f
    <3>1. t \in Seq(Byte) /\ Len(t) = k
      <4>1. 9 \in Nat /\ Len(d) \in 9..Len(d)
        BY <1>5, <2>1
      <4> QED
        BY <4>1, SliceBytes
    <3>2. f \in Seq(Byte) /\ Len(f) = k
      <4>1. \A i \in 1..k : b.token[i] \in Byte
        BY <1>3, <1>5, <2>5, ElementOfSeq
      <4>2. f \in [1..k -> Byte]
        BY <4>1 DEF Firsts
      <4> HIDE DEF f, k, t
      <4> QED
        BY <2>5, <4>2, FunctionSeq
    <3>3. ASSUME NEW i \in 1..k PROVE t[i] = b.token[i]
      <4>1. 10 \in Nat \ {0} /\ Len(d) \in 0..Len(d)
        BY <1>5
      <4>2. \A j \in 1..Len(d) - 10 + 1 : SubSeq(d, 10, Len(d))[j] = d[10 + j - 1]
        BY <4>1, PartOf
      <4>3. i \in 1..Len(d) - 10 + 1 /\ 10 + i - 1 = 9 + i /\ 9 + i \in 1..Len(d)
        BY <1>5, <2>5
      <4>4. t = SubSeq(d, 10, Len(d))
        BY DEF Slice
      <4>5. t[i] = d[9 + i]
        BY <4>2, <4>3, <4>4
      <4>6. d[9 + i] = e[9 + i]
        BY <1>4, <4>3 DEF Cut
      <4>7. e[9 + i] = b.token[i]
        <5>1. i \in 1..Len(b.token)
          BY <1>5, <2>5
        <5> QED
          BY <1>4, <5>1 DEF At
      <4> QED
        BY <4>5, <4>6, <4>7
    <3> HIDE DEF k, t
    <3>4. \A i \in 1..Len(t) : t[i] = f[i]
      BY <3>1, <3>3 DEF Firsts
    <3> HIDE DEF f
    <3> QED
      BY <3>1, <3>2, <3>4, SeqEqual
  <2>7. IsPrefix(t, b.token)
    <3> HIDE DEF t, k
    <3> QED
      BY <1>3, <2>5, <2>6, FirstOnes
  <2>8. ReadLoginResponse(d)
          = Decoded([time |-> b.time, seq |-> b.seq, result |-> b.result,
                     token |-> t])
    BY <1>7, <2>2, <2>3, <2>4 DEF ReadLoginResponse
  <2> HIDE DEF t
  <2>9. LosesEnd([time |-> b.time, seq |-> b.seq, result |-> b.result,
                  token |-> t], b)
    BY <2>7 DEF LosesEnd
  <2> QED
    BY <2>8, <2>9, Keeps
<1> QED
  BY <1>6, <1>7

\* The identifiers of a query that are there.
LEMMA ParamQueryCut ==
  ASSUME NEW b \in BodiesOf("paramquery"),
         NEW d \in Seq(Byte), Cut(d, SendParamQuery(b))
  PROVE  RefusesOrKeeps(DecodeParamQueryData(d), b)
<1> DEFINE e == SendParamQuery(b)
           n == Len(b.ids)
           F == FlattenSeq([i \in DOMAIN b.ids |-> PutUint(b.ids[i], 4)])
<1>1. BodiesOf("paramquery") =
        {c \in [time : Times, count : Byte, ids : Seq(LongWord)] :
           c.count = Len(c.ids)}
  BY DEF BodiesOf
<1>2. /\ b \in [time : Times, count : Byte, ids : Seq(LongWord)]
      /\ b.count = n
  BY <1>1
<1>3. b.time \in Times /\ b.ids \in Seq(LongWord) /\ n \in Byte
  BY <1>2
<1>4. n \in Nat /\ DOMAIN b.ids = 1..n /\ Len(d) \in Nat
  BY <1>3, LenProperties
<1>5. /\ e \in Seq(Byte) /\ Cut(d, e) /\ At(e, 0, encodeBCDTime(b.time))
      /\ At(e, 6, <<n>>) /\ At(e, 7, F)
  <2>1. n % 256 = n
    BY <1>3, CountByte
  <2> QED
    BY <2>1, ParamQueryLayout DEF encodeTime6
<1> HIDE DEF e
<1>6. \A i \in 1..n : U32(e, 7 + 4 * (i - 1)) = b.ids[i]
  <2>1. 7 \in Nat
    OBVIOUS
  <2> QED
    BY <1>3, <1>5, <2>1, IdsRead
<1> HIDE DEF n, F
<1>7. CASE Len(d) < 7
  BY <1>7, Refuses DEF DecodeParamQueryData
<1>8. CASE ~(Len(d) < 7)
  <2>1. Len(d) >= 6 /\ 6 \in Nat /\ 6 + 1 <= Len(d) /\ 6 + 1 = 7
    BY <1>4, <1>8
  <2>2. decodeTime6(Slice(d, 0, 6)) = b.time
    BY <1>3, <1>5, <2>1, TimeCut
  <2>3. d[7] = n
    <3>1. d[6 + 1] = n
      BY <1>5, <2>1, ByteCut
    <3> QED
      BY <2>1, <3>1
  <2>4. PICK x \in Nat : x = (Len(d) - 7) \div 4 /\ 7 + 4 * x <= Len(d)
    BY <1>4, <1>8
  <2>5. PICK m \in Nat : m = Min({n, x}) /\ m <= n /\ m <= x
    <3>1. {n, x} \in SUBSET Nat /\ {n, x} # {}
      BY <1>4
    <3>2. Min({n, x}) \in {n, x} /\ \A y \in {n, x} : Min({n, x}) <= y
      BY <3>1, LeastNat
    <3> QED
      BY <1>4, <3>2
  <2> DEFINE l == [i \in 1..m |-> U32(d, 4 * i + 3)]
  <2>6. ASSUME NEW i \in 1..m PROVE U32(d, 4 * i + 3) = b.ids[i]
    <3>1. PICK q \in Nat : q = 4 * i + 3 /\ q = 7 + 4 * (i - 1)
      OBVIOUS
    <3>2. q + 4 <= Len(d) /\ i \in 1..n
      BY <1>4, <2>4, <2>5, <3>1
    <3>3. /\ q + 1 \in 1..Len(d) /\ q + 2 \in 1..Len(d)
          /\ (q + 2) + 1 \in 1..Len(d) /\ (q + 2) + 2 \in 1..Len(d)
      BY <1>4, <3>2
    <3>4. /\ d[q + 1] = e[q + 1] /\ d[q + 2] = e[q + 2]
          /\ d[(q + 2) + 1] = e[(q + 2) + 1] /\ d[(q + 2) + 2] = e[(q + 2) + 2]
      BY <1>5, <3>3 DEF Cut
    <3>5. U32(d, q) = U32(e, q)
      <4>1. U16(d, q) = U16(e, q) /\ U16(d, q + 2) = U16(e, q + 2)
        BY <3>4 DEF U16
      <4> QED
        BY <4>1 DEF U32
    <3>6. U32(e, q) = b.ids[i]
      BY <1>6, <3>1, <3>2
    <3> QED
      BY <3>1, <3>5, <3>6
  <2>7. l = Firsts(b.ids, m)
    BY <2>6 DEF Firsts
  <2>8. IsPrefix(l, b.ids)
    <3>1. m \in 0..Len(b.ids)
      BY <1>4, <2>5 DEF n
    <3> QED
      BY <1>3, <2>7, <3>1, FirstOnes
  <2>9. DecodeParamQueryData(d)
          = Decoded([time |-> b.time, count |-> b.count, ids |-> l])
    BY <1>2, <1>8, <2>2, <2>3, <2>4, <2>5 DEF DecodeParamQueryData
  <2> HIDE DEF l
  <2>10. LosesEnd([time |-> b.time, count |-> b.count, ids |-> l], b)
    BY <2>8 DEF LosesEnd
  <2> QED
    BY <2>9, <2>10, Keeps
<1> QED
  BY <1>7, <1>8

\* A login whose count is missing has no list.
LEMMA LoginCut ==
  ASSUME TimeCodec = "BCD", NEW b \in BodiesOf("login"),
         NEW d \in Seq(Byte), Cut(d, EncodeLogin(b))
  PROVE  RefusesOrKeeps(DecodeLoginData(d), b)
<1> DEFINE e == EncodeLogin(b)
           n == Len(b.iccid)
           S == EncodeParamString(b.iccid)
<1>1. BodiesOf("login") =
        {c \in [time : Times, seq : Word, iccid : Strings, count : Byte,
                list : ParamLists(Byte)] : c.count = Len(c.list)}
  BY DEF BodiesOf
<1>2. /\ b \in [time : Times, seq : Word, iccid : Strings, count : Byte,
                list : ParamLists(Byte)]
      /\ b.count = Len(b.list)
  BY <1>1
<1>3. /\ b.time \in Times /\ b.seq \in Word /\ b.iccid \in Strings
      /\ b.list \in ParamLists(Byte)
  BY <1>2
<1>4. /\ e \in Seq(Byte) /\ Cut(d, e) /\ n \in Nat
      /\ At(e, 0, encodeBCDTime(b.time)) /\ At(e, 6, PutUint(b.seq, 2))
      /\ At(e, 8, S) /\ At(e, 9 + n, <<Len(b.list)>>)
      /\ At(e, 10 + n, EncodeTLVs(b.list, 1))
  BY LoginLayout DEF EncodeTime
<1>5. Len(d) \in Nat /\ S \in Seq(Byte) /\ Len(S) = 1 + n
  BY <1>3, LenProperties, StringBytes
<1> HIDE DEF e
<1>6. e[9] = n
  <2>1. 8 \in Nat /\ 8 + 1 = 9
    OBVIOUS
  <2>2. StringIs(e, 8, b.iccid)
    BY <1>3, <1>4, <2>1, StringRead
  <2> QED
    BY <2>1, <2>2 DEF StringIs
<1>7. CASE Len(d) < 9 \/ 9 + d[9] > Len(d)
  BY <1>7, Refuses DEF DecodeLoginData
<1>8. CASE ~(Len(d) < 9 \/ 9 + d[9] > Len(d))
  <2>1. d[9] = n
    <3>1. 9 \in 1..Len(d)
      BY <1>5, <1>8
    <3> QED
      BY <1>4, <1>6, <3>1 DEF Cut
  <2>2. 9 + n <= Len(d) /\ Len(d) >= 8 /\ Len(d) >= 6
    BY <1>4, <1>5, <1>8, <2>1
  <2>3. decodeTime6(Slice(d, 0, 6)) = b.time
    BY <1>3, <1>4, <2>2, TimeCut
  <2>4. U16(d, 6) = b.seq
    BY <1>3, <1>4, <2>2, SeqCut
  <2>5. Slice(d, 9, 9 + n) = b.iccid
    <3>1. 8 \in Nat /\ 8 + Len(S) <= Len(d) /\ 8 + 1 = 9
      BY <1>4, <1>5, <2>2
    <3>2. At(d, 8, S)
      BY <1>4, <1>5, <3>1, AtCut
    <3>3. StringIs(d, 8, b.iccid)
      BY <1>3, <3>1, <3>2, StringRead
    <3> QED
      BY <3>1, <3>3 DEF StringIs
  <2> HIDE DEF n, S
  <2>6. PICK p \in Nat : p = 9 + n /\ p + 1 = 10 + n
    BY <1>4
  <2> DEFINE count == IF p < Len(d) THEN d[p + 1] ELSE 0
             l == TLVs(d, p + 1, count, 2)
  <2>7. count \in {0, b.count} /\ IsPrefix(l, b.list)
    <3>1. CASE p < Len(d)
      <4>1. p + 1 <= Len(d) /\ p + 1 \in Nat /\ At(e, p, <<Len(b.list)>>)
        BY <1>4, <1>5, <2>6, <3>1
      <4>2. d[p + 1] = Len(b.list)
        BY <1>4, <4>1, ByteCut
      <4>3. count = Len(b.list)
        BY <3>1, <4>2
      <4>4. At(e, p + 1, EncodeTLVs(b.list, 1))
        BY <1>4, <2>6
      <4>5. \A x \in Byte : FitsId(x, 1)
        BY DEF FitsId
      <4>6. IsPrefix(TLVs(d, p + 1, Len(b.list), 1 + 1), b.list)
        BY <1>3, <1>4, <4>1, <4>4, <4>5, TLVsCut
      <4>7. 1 + 1 = 2
        OBVIOUS
      <4> HIDE DEF count
      <4> QED
        BY <1>2, <4>3, <4>6, <4>7
    <3>2. CASE ~(p < Len(d))
      <4>1. count = 0
        BY <3>2
      <4> HIDE DEF count
      <4>2. b.list \in Seq([id : Byte, value : Strings])
        BY <1>3 DEF ParamLists
      <4>3. IsPrefix(TLVs(d, p + 1, 0, 2), b.list)
        BY <4>2, TLVsNone
      <4>4. IsPrefix(l, b.list)
        BY <4>1, <4>3
      <4> QED
        BY <4>1, <4>4
    <3> QED
      BY <3>1, <3>2
  <2>8. DecodeLoginData(d)
          = Decoded([time |-> b.time, seq |-> b.seq, iccid |-> b.iccid,
                     count |-> count, list |-> l])
    BY <1>8, <2>1, <2>3, <2>4, <2>5, <2>6 DEF DecodeLoginData
  <2> HIDE DEF count, l
  <2>9. LosesEnd([time |-> b.time, seq |-> b.seq, iccid |-> b.iccid,
                  count |-> count, list |-> l], b)
    BY <2>7 DEF LosesEnd
  <2> QED
    BY <2>8, <2>9, Keeps
<1> QED
  BY <1>7, <1>8

\* Every decoder refuses the beginning of a body, or loses its end.
LEMMA BodyCut ==
  ASSUME TimeCodec = "BCD", NEW kind \in BodyKinds, NEW b \in BodiesOf(kind),
         NEW d \in Seq(Byte), Cut(d, EncodeBody(kind, b))
  PROVE  RefusesOrKeeps(DecodeBody(kind, d), b)
<1>1. CASE kind = "login"
  <2>1. EncodeBody(kind, b) = EncodeLogin(b)
    BY <1>1 DEF EncodeBody
  <2>2. DecodeBody(kind, d) = DecodeLoginData(d)
    BY <1>1 DEF DecodeBody
  <2> QED
    BY <1>1, <2>1, <2>2, LoginCut
<1>2. CASE kind = "logout"
  <2>1. EncodeBody(kind, b) = EncodeLogout(b)
    BY <1>2 DEF EncodeBody
  <2>2. DecodeBody(kind, d) = DecodeLogoutData(d)
    BY <1>2 DEF DecodeBody
  <2> QED
    BY <1>2, <2>1, <2>2, LogoutCut
<1>3. CASE kind = "platlogout"
  <2>1. EncodeBody(kind, b) = SendPlatLogout(b)
    BY <1>3 DEF EncodeBody
  <2>2. DecodeBody(kind, d) = DecodePlatLogoutResponse(d)
    BY <1>3 DEF DecodeBody
  <2> QED
    BY <1>3, <2>1, <2>2, PlatLogoutCut
<1>4. CASE kind = "platlogin"
  <2>1. EncodeBody(kind, b) = SendPlatLogin(b)
    BY <1>4 DEF EncodeBody
  <2>2. DecodeBody(kind, d) = DecodePlatLoginResponse(d)
    BY <1>4 DEF DecodeBody
  <2> QED
    BY <1>4, <2>1, <2>2, PlatLoginCut
<1>5. CASE kind = "paramquery"
  <2>1. EncodeBody(kind, b) = SendParamQuery(b)
    BY <1>5 DEF EncodeBody
  <2>2. DecodeBody(kind, d) = DecodeParamQueryData(d)
    BY <1>5 DEF DecodeBody
  <2> QED
    BY <1>5, <2>1, <2>2, ParamQueryCut
<1>6. CASE kind = "paramsetting"
  <2>1. EncodeBody(kind, b) = SendParamSetting(b)
    BY <1>6 DEF EncodeBody
  <2>2. DecodeBody(kind, d) = DecodeParamSettingData(d)
    BY <1>6 DEF DecodeBody
  <2> QED
    BY <1>6, <2>1, <2>2, ParamSettingCut
<1>7. CASE kind = "paramanswer"
  <2>1. EncodeBody(kind, b) = sendParamQueryResponse(b)
    BY <1>7 DEF EncodeBody
  <2>2. DecodeBody(kind, d) = ReadParamAnswer(d)
    BY <1>7 DEF DecodeBody
  <2> QED
    BY <1>7, <2>1, <2>2, ParamAnswerCut
<1>8. CASE kind = "loginresponse"
  <2>1. EncodeBody(kind, b) = EncodeLoginResponse(b)
    BY <1>8 DEF EncodeBody
  <2>2. DecodeBody(kind, d) = ReadLoginResponse(d)
    BY <1>8 DEF DecodeBody
  <2> QED
    BY <1>8, <2>1, <2>2, LoginResponseCut
<1> QED
  BY <1>1, <1>2, <1>3, <1>4, <1>5, <1>6, <1>7, <1>8 DEF BodyKinds

---------------------------------------------------------------------------
(* Messages of items, and encryption.                                      *)

LEMMA ItemBytes ==
  ASSUME NEW it, IsItem(it)
  PROVE  EncodeItem(it) \in Seq(Byte) /\ Len(EncodeItem(it)) >= 6
<1> DEFINE n == Len(it.fields)
           f == [j \in DOMAIN it.fields |->
                   <<it.fields[j].id>> \o it.fields[j].body]
           T == EncodeTime(it.time)
           F == EncodeFields(it.fields)
<1>1. n \in Nat /\ DOMAIN it.fields = 1..n
  BY LenProperties DEF IsItem
<1>2. ASSUME NEW j \in 1..n
      PROVE  <<it.fields[j].id>> \o it.fields[j].body \in Seq(Byte)
  <2>1. it.fields[j].id \in Byte /\ it.fields[j].body \in Seq(Byte)
    BY <1>1 DEF IsItem
  <2>2. <<it.fields[j].id>> \in Seq(Byte)
    BY <2>1, OneByte
  <2> QED
    BY <2>1, <2>2, Joined
<1>3. f \in [1..n -> Seq(Byte)]
  BY <1>1, <1>2
<1>4. FlattenSeq(f) \in Seq(Byte)
  <2> HIDE DEF f, n
  <2> QED
    BY <1>1, <1>3, ListBytes
<1>5. F \in Seq(Byte)
  BY <1>4 DEF EncodeFields
<1>6. T \in Seq(Byte) /\ Len(T) = 6
  BY TimeBytes DEF IsItem
<1>7. EncodeItem(it) = T \o F
  BY DEF EncodeItem
<1> HIDE DEF T, F
<1>8. T \o F \in Seq(Byte) /\ Len(T \o F) = Len(T) + Len(F) /\ Len(F) \in Nat
  BY <1>5, <1>6, Joined
<1> DEFINE d == T \o F
<1> HIDE DEF d
<1>9. d \in Seq(Byte) /\ Len(d) >= 6
  BY <1>6, <1>8 DEF d
<1> QED
  BY <1>7, <1>9 DEF d

\* The two bytes of the number of items.
LEMMA ItemCount ==
  ASSUME NEW n \in Word
  PROVE  /\ <<n \div 256, n % 256>> \in Seq(Byte)
         /\ Len(<<n \div 256, n % 256>>) = 2
<1> DEFINE x == n \div 256
           y == n % 256
<1>1. n \in Nat /\ n < 65536
  BY DEF Word
<1>2. /\ x \in Int /\ x >= 0 /\ x <= 255 /\ y \in Int /\ y >= 0 /\ y <= 255
  BY <1>1
<1> HIDE DEF x, y
<1>3. x \in Byte /\ y \in Byte
  BY <1>2, IsByte
<1>4. <<x, y>> \in Seq(Byte) /\ Len(<<x, y>>) = 2
  BY <1>3, TwoBytes
<1> QED
  BY <1>4 DEF x, y

\* A message is a byte string, and one of items is long enough for their
\* header.
LEMMA MessageBytes ==
  ASSUME NEW m \in Messages
  PROVE  /\ Encode(m) \in Seq(Byte)
         /\ m.kind \notin BodyKinds =>
              Len(Encode(m)) >= (IF m.kind = "realtime" THEN 6 ELSE 8)
<1>1. CASE m.kind \in BodyKinds /\ m.body \in BodiesOf(m.kind)
  <2>1. EncodeBody(m.kind, m.body) \in Seq(Byte)
    BY <1>1, BodyAccepted DEF Accepts
  <2> QED
    BY <1>1, <2>1 DEF Encode
<1>2. CASE /\ m.kind \in {"realtime", "reissue"}
           /\ Len(m.items) \in (IF m.kind = "realtime" THEN {1} ELSE Word \ {0})
           /\ DOMAIN m.items = 1..Len(m.items)
           /\ \A i \in DOMAIN m.items : IsItem(m.items[i])
  <2>0. m.kind \notin BodyKinds
    BY <1>2 DEF BodyKinds
  <2>1. Len(m.items) \in Word /\ Len(m.items) \in Nat /\ 1 \in DOMAIN m.items
    BY <1>2 DEF Word
  <2>2. IsItem(m.items[1])
    BY <1>2, <2>1
  <2>3. /\ EncodeItem(m.items[1]) \in Seq(Byte)
        /\ Len(EncodeItem(m.items[1])) >= 6
    BY <2>2, ItemBytes
  <2>4. CASE m.kind = "realtime"
    BY <2>0, <2>3, <2>4 DEF Encode
  <2>5. CASE m.kind = "reissue"
    <3> DEFINE T == EncodeTime(m.items[1].time)
               C == <<Len(m.items) \div 256, Len(m.items) % 256>>
               f == [i \in DOMAIN m.items |-> EncodeItem(m.items[i])]
               I == EncodeItems(m.items)
    <3>1. T \in Seq(Byte) /\ Len(T) = 6
      BY <2>2, TimeBytes DEF IsItem
    <3>2. C \in Seq(Byte) /\ Len(C) = 2
      BY <2>1, ItemCount
    <3>3. f \in [1..Len(m.items) -> Seq(Byte)]
      BY <1>2, ItemBytes
    <3>4. FlattenSeq(f) \in Seq(Byte)
      <4> HIDE DEF f
      <4> QED
        BY <2>1, <3>3, ListBytes
    <3>5. I \in Seq(Byte)
      BY <3>4 DEF EncodeItems
    <3>6. Encode(m) = T \o C \o I
      BY <2>0, <2>5 DEF Encode
    <3> HIDE DEF T, C, I
    <3> DEFINE d == T \o C \o I
    <3>7. Parts3(d, T, C, I)
      BY <3>1, <3>2, <3>5, ThreeParts
    <3> HIDE DEF d
    <3>8. Len(I) \in Nat
      BY <3>5, LenProperties
    <3>9. d \in Seq(Byte) /\ Len(d) >= 8
      BY <3>1, <3>2, <3>7, <3>8 DEF Parts3
    <3>10. Encode(m) \in Seq(Byte) /\ Len(Encode(m)) >= 8
      BY <3>6, <3>9 DEF d
    <3> QED
      BY <2>5, <3>10
  <2> QED
    BY <1>2, <2>4, <2>5
<1> QED
  BY <1>1, <1>2, MessagesAssumption

\* What EncryptAES128 makes: whole blocks, that begin with the text and end
\* with the length of the padding.
LEMMA Sealed ==
  ASSUME NEW e \in Seq(Byte)
  PROVE  LET E == EncryptAES128(e) IN
         /\ E \in Seq(Byte) /\ At(E, 0, e)
         /\ \E n \in 1..16 : /\ Len(E) = Len(e) + n /\ E[Len(E)] = n
                             /\ (Len(e) + n) % 16 = 0
<1> USE DEF BlockSize
<1> DEFINE n == BlockSize - (Len(e) % BlockSize)
           q == [i \in 1..n |-> n]
           E == e \o q
<1>0. Len(e) \in Nat
  BY LenProperties
<1>1. n \in 1..16 /\ (Len(e) + n) % 16 = 0
  BY <1>0
<1>2. E = EncryptAES128(e)
  BY DEF EncryptAES128, pkcs7Pad
<1> HIDE DEF n
<1>3. n \in Nat /\ n \in Byte
  BY <1>1, IsByte
<1>4. q \in Seq(Byte) /\ Len(q) = n /\ q[n] = n
  <2>1. q \in [1..n -> Byte] /\ q[n] = n
    BY <1>1, <1>3
  <2> QED
    BY <1>3, <2>1, FunctionSeq
<1> HIDE DEF q
<1>5. /\ E \in Seq(Byte) /\ Len(E) = Len(e) + Len(q)
      /\ At(E, 0, e) /\ At(E, Len(e), q)
  BY <1>4, Joined
<1> HIDE DEF E
<1>6. E[Len(E)] = n
  <2>1. n \in 1..Len(q)
    BY <1>1, <1>4
  <2>2. E[Len(e) + n] = q[n]
    BY <1>5, <2>1 DEF At
  <2> QED
    BY <1>4, <1>5, <2>2
<1> QED
  BY <1>1, <1>2, <1>4, <1>5, <1>6

\* pkcs7Unpad takes off what pkcs7Pad put on, a whole block too.
LEMMA Unsealed ==
  ASSUME NEW d \in Seq(Byte)
  PROVE  /\ EncryptAES128(d) \in Seq(Byte)
         /\ DecryptAES128(EncryptAES128(d)) = Decoded(d)
<1> USE DEF BlockSize
<1> DEFINE e == EncryptAES128(d)
<1>0. Len(d) \in Nat
  BY LenProperties
<1>1. e \in Seq(Byte) /\ At(e, 0, d)
  BY Sealed
<1>2. PICK n \in 1..16 : /\ Len(e) = Len(d) + n /\ e[Len(e)] = n
                         /\ (Len(d) + n) % 16 = 0
  BY Sealed
<1> HIDE DEF e
<1>3. Len(e) - n = Len(d) /\ Len(e) # 0
  BY <1>0, <1>2
<1>4. e # <<>>
  BY <1>3
<1>5. Last(e) = n
  BY <1>2 DEF Last
<1>6. ~(n > Len(e) \/ n = 0 \/ n > BlockSize)
  BY <1>0, <1>2
<1>7. Slice(e, 0, Len(e) - n) = d
  <2>1. Slice(e, 0, 0 + Len(d)) = d
    BY <1>1, SliceAt
  <2>2. 0 + Len(d) = Len(e) - n
    BY <1>0, <1>3
  <2> QED
    BY <2>1, <2>2
<1>8. pkcs7Unpad(e) = Decoded(d)
  BY <1>4, <1>5, <1>6, <1>7 DEF pkcs7Unpad
<1>9. Len(e) % BlockSize = 0
  BY <1>2
<1>10. DecryptAES128(e) = Decoded(d)
  BY <1>8, <1>9 DEF DecryptAES128
<1> QED
  BY <1>1, <1>10 DEF e

\* Whatever is decrypted is an error or a byte string.
LEMMA DecryptGives ==
  ASSUME NEW d \in Seq(Byte)
  PROVE  \/ DecryptAES128(d) = Malformed
         \/ \E v \in Seq(Byte) : DecryptAES128(d) = Decoded(v)
<1> USE DEF BlockSize
<1>0. Len(d) \in Nat
  BY LenProperties
<1> DEFINE n == Last(d)
<1>1. CASE d = <<>> \/ n > Len(d) \/ n = 0 \/ n > BlockSize
  BY <1>1 DEF DecryptAES128, pkcs7Unpad
<1>2. CASE ~(d = <<>> \/ n > Len(d) \/ n = 0 \/ n > BlockSize)
  <2>1. Len(d) \in 1..Len(d)
    BY <1>0, <1>2, EmptySeq
  <2>2. n \in Nat
    BY <2>1, ByteAt DEF Last
  <2> DEFINE v == Slice(d, 0, Len(d) - n)
  <2>3. 0 \in Nat /\ Len(d) - n \in 0..Len(d)
    BY <1>0, <1>2, <2>2
  <2>4. v \in Seq(Byte)
    BY <2>3, SliceBytes
  <2> HIDE DEF v, n
  <2>5. pkcs7Unpad(d) = Decoded(v)
    BY <1>2 DEF pkcs7Unpad, v, n
  <2> QED
    BY <2>4, <2>5 DEF DecryptAES128
<1> QED
  BY <1>1, <1>2

\* Decryption refuses the beginning of a sealed text or gives a beginning of
\* the text: if its last block is missing, the byte taken for the padding takes
\* away bytes of the text; otherwise it is the padding.
LEMMA DecryptCut ==
  ASSUME NEW e \in Seq(Byte), NEW d \in Seq(Byte), Cut(d, EncryptAES128(e)),
         ~DecryptAES128(d).err
  PROVE  /\ DecryptAES128(d).value \in Seq(Byte)
         /\ Cut(DecryptAES128(d).value, e)
<1> DEFINE E == EncryptAES128(e)
           m == Last(d)
           v == Slice(d, 0, Len(d) - m)
<1>0. Len(d) \in Nat /\ Len(e) \in Nat
  BY LenProperties
<1>1. E \in Seq(Byte) /\ At(E, 0, e) /\ Cut(d, E)
  BY Sealed
<1>2. PICK n \in 1..16 : /\ Len(E) = Len(e) + n /\ E[Len(E)] = n
                         /\ (Len(e) + n) % 16 = 0
  BY Sealed
<1> HIDE DEF E
<1>3. Malformed.err
  BY DEF Malformed
<1>4. /\ Len(d) % 16 = 0 /\ d # <<>>
      /\ ~(m > Len(d) \/ m = 0 \/ m > 16)
      /\ DecryptAES128(d) = Decoded(v)
  BY <1>3 DEF DecryptAES128, pkcs7Unpad, BlockSize
<1>5. Len(d) \in 1..Len(d)
  BY <1>0, <1>4, EmptySeq
<1>6. m = d[Len(d)] /\ m \in Nat
  BY <1>5, ByteAt DEF Last
<1> HIDE DEF m
<1>7. Len(d) - m \in 0..Len(d)
  BY <1>0, <1>4, <1>6
<1>8. v \in Seq(Byte) /\ Len(v) = Len(d) - m
  <2>1. 0 \in Nat /\ (Len(d) - m) - 0 = Len(d) - m
    BY <1>7
  <2> QED
    BY <1>7, <2>1, SliceBytes
<1>9. \A i \in 1..Len(d) - m : v[i] = d[i]
  <2>1. 1 \in Nat \ {0}
    OBVIOUS
  <2>2. \A i \in 1..(Len(d) - m) - 1 + 1 :
          SubSeq(d, 1, Len(d) - m)[i] = d[1 + i - 1]
    BY <1>7, <2>1, PartOf
  <2>3. v = SubSeq(d, 1, Len(d) - m)
    <3>1. 0 + 1 = 1
      OBVIOUS
    <3> QED
      BY <3>1 DEF Slice
  <2>4. (Len(d) - m) - 1 + 1 = Len(d) - m
    BY <1>7
  <2>5. ASSUME NEW i \in 1..Len(d) - m PROVE v[i] = d[i]
    <3>1. 1 + i - 1 = i
      OBVIOUS
    <3> QED
      BY <2>2, <2>3, <2>4, <3>1
  <2> QED
    BY <2>5
<1> HIDE DEF v
<1>10. Len(d) - m <= Len(e)
  <2>1. Len(d) <= Len(e) + n
    BY <1>1, <1>2 DEF Cut
  <2>2. CASE Len(d) = Len(e) + n
    <3>1. m = n
      BY <1>1, <1>2, <1>5, <1>6, <2>2 DEF Cut
    <3> QED
      BY <1>0, <2>2, <3>1
  <2>3. CASE Len(d) < Len(e) + n
    <3>1. PICK x \in Nat : x = Len(d)
      BY <1>0
    <3>2. PICK y \in Nat : y = Len(e) + n
      BY <1>0
    <3>3. x % 16 = 0 /\ y % 16 = 0 /\ x < y
      BY <1>2, <1>4, <2>3, <3>1, <3>2
    <3>4. x <= y - 16
      BY <3>3
    <3> QED
      BY <1>0, <1>6, <3>1, <3>2, <3>4
  <2> QED
    BY <1>0, <2>1, <2>2, <2>3
<1>11. Cut(v, e)
  <2> SUFFICES ASSUME NEW i \in 1..Len(v) PROVE v[i] = e[i]
    BY <1>8, <1>10 DEF Cut
  <2>1. i \in 1..Len(d) - m /\ i \in 1..Len(d) /\ i \in 1..Len(e) /\ 0 + i = i
    BY <1>0, <1>6, <1>7, <1>8, <1>10
  <2>2. v[i] = d[i] /\ d[i] = E[i]
    BY <1>1, <1>9, <2>1 DEF Cut
  <2>3. E[i] = e[i]
    BY <1>1, <2>1 DEF At
  <2> QED
    BY <2>2, <2>3
<1>12. DecryptAES128(d).value = v
  BY <1>4 DEF Decoded
<1> QED
  BY <1>8, <1>11, <1>12

---------------------------------------------------------------------------
(* The steps of handlePacket.                                              *)

\* Where the loop finds the end of the field whose identifier is at p, in the
\* item that starts at b.
LEMMA EndBehind ==
  ASSUME NEW d \in Seq(Byte), NEW b \in Nat, NEW p \in Nat, b <= p,
         p < Len(d), NEW id \in FieldIDs
  PROVE  LET end == findFieldEnd(id, Slice(d, b, Len(d)), p + 1 - b) IN
         end \in Int /\ (end # -1 => b + end > p)
<1> DEFINE c == Slice(d, b, Len(d))
           r == p + 1 - b
<1>1. Len(d) \in Nat
  BY LenProperties
<1>2. Len(d) \in b..Len(d)
  BY <1>1
<1>3. c \in Seq(Byte)
  BY <1>2, SliceBytes
<1>4. r \in Nat /\ r > p - b
  OBVIOUS
<1> HIDE DEF c, r
<1> DEFINE end == findFieldEnd(id, c, r)
<1>5. end \in Int /\ (end # -1 => end > r)
  BY <1>3, <1>4, FieldEndBehind
<1> HIDE DEF end
<1>6. end \in Int /\ (end # -1 => b + end > p)
  BY <1>4, <1>5
<1> QED
  BY <1>6 DEF end, c, r

\* A field is put in its place, or dropped.
LEMMA FieldSet ==
  ASSUME NEW f, NEW id, NEW v
  PROVE  DOMAIN SetField(f, id, v) = DOMAIN f
BY DEF SetField, FieldVehicle, FieldMotor, FieldTemperature

\* A field is read only while items are left, and nothing has been read of a
\* message that is still sealed.
Inv ==
  /\ TypeOK
  /\ pc = "field" => left > 0
  /\ pc \in {"sealed", "start"} => base = 0 /\ pos = 0
  /\ DOMAIN item = {"time", "fields"}

LEMMA InvInit == Init => Inv
<1> SUFFICES ASSUME Init PROVE Inv
  OBVIOUS
<1>1. PICK pad \in BOOLEAN :
        LET d == IF pad THEN EncryptAES128(Encode(sent)) ELSE Encode(sent)
        IN /\ \E n \in 0..Len(d) : data = Slice(d, 0, n)
           /\ pc = IF pad THEN "sealed" ELSE "start"
  BY DEF Init
<1> DEFINE d == IF pad THEN EncryptAES128(Encode(sent)) ELSE Encode(sent)
<1>2. sent \in Messages
  BY DEF Init
<1>3. d \in Seq(Byte)
  <2>1. Encode(sent) \in Seq(Byte)
    BY <1>2, MessageBytes
  <2>2. EncryptAES128(Encode(sent)) \in Seq(Byte)
    BY <2>1, Unsealed
  <2> QED
    BY <2>1, <2>2
<1>4. PICK n \in 0..Len(d) : data = Slice(d, 0, n)
  BY <1>1
<1> HIDE DEF d
<1>5. data \in Seq(Byte)
  BY <1>3, <1>4, SliceBytes
<1>6. Len(data) \in Nat
  BY <1>5, LenProperties
<1>7. pc \in {"sealed", "start"}
  BY <1>1
<1>8. left = 0 /\ base = 0 /\ pos = 0 /\ item = NoItem
  BY DEF Init
<1>9. /\ DOMAIN item = {"time", "fields"}
      /\ DOMAIN item.fields = FieldIDs \ {FieldTemperature}
  BY <1>8 DEF NoItem, NoFields
<1>10. left \in Word /\ base \in 0..Len(data) /\ pos \in 0..Len(data)
  BY <1>6, <1>8 DEF Word
<1> QED
  BY <1>2, <1>5, <1>7, <1>8, <1>9, <1>10 DEF Inv, TypeOK

\* What the loop of a field needs to know of its data, for the state before
\* and the state behind a step.
LEMMA FieldsAhead ==
  ASSUME TypeOK, pc = "field", AtField
  PROVE  FieldEnd \in Int /\ (FieldEnd # -1 => FieldEnd > pos)
<1> DEFINE id == data[pos + 1]
           end == findFieldEnd(id, Slice(data, base, Len(data)), pos + 1 - base)
<1>1. /\ data \in Seq(Byte) /\ base \in Nat /\ pos \in Nat /\ base <= pos
      /\ pos < Len(data) /\ id \in FieldIDs
  BY LenProperties DEF TypeOK, AtField, HasDecoder
<1>2. end \in Int /\ (end # -1 => base + end > pos)
  <2> HIDE DEF id
  <2> QED
    BY <1>1, EndBehind
<1>3. FieldEnd = IF end = -1 THEN -1 ELSE base + end
  BY DEF FieldEnd
<1> HIDE DEF end
<1> QED
  BY <1>1, <1>2, <1>3

LEMMA InvNext == Inv /\ [Next]_vars => Inv'
<1> SUFFICES ASSUME Inv, [Next]_vars PROVE Inv'
  OBVIOUS
<1> USE DEF Inv
<1>0. /\ sent \in Messages /\ data \in Seq(Byte) /\ left \in Word
      /\ pc \in {"sealed", "refused", "start", "item", "field", "done", "error"}
      /\ base \in 0..Len(data) /\ pos \in 0..Len(data) /\ Len(data) \in Nat
      /\ DOMAIN item.fields = FieldIDs \ {FieldTemperature}
      /\ base \in Nat /\ pos \in Nat
  BY LenProperties DEF TypeOK
<1>1. CASE Decrypt
  <2>1. /\ pc = "sealed" /\ base = 0 /\ pos = 0
        /\ UNCHANGED <<sent, left, base, pos, item, msg>>
    BY <1>1 DEF Decrypt
  <2>2. data' \in Seq(Byte) /\ pc' \in {"refused", "start"}
    <3>1. CASE DecryptAES128(data) = Malformed
      <4>1. DecryptAES128(data).err = TRUE
        BY <3>1 DEF Malformed
      <4> QED
        BY <1>0, <1>1, <4>1 DEF Decrypt
    <3>2. CASE \E v \in Seq(Byte) : DecryptAES128(data) = Decoded(v)
      <4>1. PICK v \in Seq(Byte) : DecryptAES128(data) = Decoded(v)
        BY <3>2
      <4>2. DecryptAES128(data).err = FALSE /\ DecryptAES128(data).value = v
        BY <4>1 DEF Decoded
      <4> QED
        BY <1>1, <4>2 DEF Decrypt
    <3> QED
      BY <1>0, <3>1, <3>2, DecryptGives
  <2>3. Len(data') \in Nat
    BY <2>2, LenProperties
  <2>4. base' \in 0..Len(data') /\ pos' \in 0..Len(data')
    BY <2>1, <2>3
  <2> QED
    BY <1>0, <2>1, <2>2, <2>4 DEF TypeOK
<1>2. CASE ReadBody
  <2>1. /\ UNCHANGED <<sent, data, left, base, pos, item>>
        /\ pc' \in {"done", "error"}
    BY <1>2 DEF ReadBody
  <2> QED
    BY <1>0, <2>1 DEF TypeOK
<1>3. CASE TooShort
  BY <1>0, <1>3 DEF TypeOK, TooShort
<1>4. CASE Begin
  <2>1. /\ pc = "start" /\ pc' = "item" /\ UNCHANGED <<sent, data, pos, item>>
        /\ Len(data) >= MinData
    BY <1>4 DEF Begin
  <2>2. left' \in Word /\ base' \in 0..Len(data')
    <3>1. CASE sent.kind = "realtime"
      <4>1. left' = 1 /\ base' = 0
        BY <1>4, <3>1 DEF Begin
      <4> QED
        BY <1>0, <2>1, <4>1 DEF Word
    <3>2. CASE sent.kind # "realtime"
      <4>1. left' = U16(data, 6) /\ base' = 8
        BY <1>4, <3>2 DEF Begin
      <4>2. Len(data) >= 8
        BY <2>1, <3>2 DEF MinData
      <4>3. U16(data, 6) \in Nat /\ U16(data, 6) < 65536
        <5>1. 6 \in Nat /\ 6 + 2 <= Len(data)
          BY <1>0, <4>2
        <5> QED
          BY <1>0, <5>1, U16Word
      <4> QED
        BY <1>0, <2>1, <4>1, <4>2, <4>3 DEF Word
    <3> QED
      BY <3>1, <3>2
  <2> QED
    BY <1>0, <2>1, <2>2 DEF TypeOK
<1>5. CASE BeginItem
  <2>1. /\ pc' = "field" /\ left > 0 /\ Len(data) - base >= 6 /\ pos' = base + 6
        /\ UNCHANGED <<sent, data, left, base>>
    BY <1>5 DEF BeginItem
  <2>2. /\ DOMAIN item' = {"time", "fields"}
        /\ DOMAIN item'.fields = FieldIDs \ {FieldTemperature}
    BY <1>5 DEF BeginItem, NoItem, NoFields
  <2>3. pos' \in 0..Len(data') /\ base' + 6 <= pos'
    BY <1>0, <2>1
  <2>4. AtField' /\ Fits' => pos' < FieldEnd'
    <3> SUFFICES ASSUME AtField', Fits' PROVE pos' < FieldEnd'
      OBVIOUS
    <3> DEFINE id == data[pos' + 1]
               end == findFieldEnd(id, Slice(data, base, Len(data)),
                                   pos' + 1 - base)
    <3>1. /\ pos' \in Nat /\ base <= pos' /\ pos' < Len(data) /\ id \in FieldIDs
      BY <1>0, <2>1 DEF AtField, HasDecoder
    <3>2. end \in Int /\ (end # -1 => base + end > pos')
      <4> HIDE DEF id
      <4> QED
        BY <1>0, <3>1, EndBehind
    <3>3. FieldEnd' = IF end = -1 THEN -1 ELSE base + end
      BY <2>1 DEF FieldEnd
    <3>4. FieldEnd' # -1
      BY DEF Fits
    <3> HIDE DEF end
    <3> QED
      BY <3>2, <3>3, <3>4
  <2> QED
    BY <1>0, <2>1, <2>2, <2>3, <2>4 DEF TypeOK
<1>6. CASE EndItems
  BY <1>0, <1>6 DEF TypeOK, EndItems
<1>7. CASE ReadField
  <2>1. /\ pc = "field" /\ AtField /\ Fits /\ pos' = FieldEnd
        /\ UNCHANGED <<sent, data, pc, left, base>>
    BY <1>7 DEF ReadField
  <2>2. FieldEnd \in Int /\ FieldEnd > pos /\ FieldEnd <= Len(data)
    BY <2>1, FieldsAhead DEF Fits
  <2>3. pos' \in 0..Len(data') /\ base' + 6 <= pos' /\ left' > 0
    <3>1. base + 6 <= pos
      BY <2>1 DEF TypeOK
    <3> QED
      BY <1>0, <2>1, <2>2, <3>1
  <2>4. AtField' /\ Fits' => pos' < FieldEnd'
    <3> SUFFICES ASSUME AtField', Fits' PROVE pos' < FieldEnd'
      OBVIOUS
    <3> DEFINE id == data[pos' + 1]
               end == findFieldEnd(id, Slice(data, base, Len(data)),
                                   pos' + 1 - base)
    <3>1. /\ pos' \in Nat /\ base <= pos' /\ pos' < Len(data) /\ id \in FieldIDs
      BY <1>0, <2>1, <2>3 DEF AtField, HasDecoder
    <3>2. end \in Int /\ (end # -1 => base + end > pos')
      <4> HIDE DEF id
      <4> QED
        BY <1>0, <3>1, EndBehind
    <3>3. FieldEnd' = IF end = -1 THEN -1 ELSE base + end
      BY <2>1 DEF FieldEnd
    <3>4. FieldEnd' # -1
      BY DEF Fits
    <3> HIDE DEF end
    <3> QED
      BY <3>2, <3>3, <3>4
  <2>5. /\ DOMAIN item' = {"time", "fields"}
        /\ DOMAIN item'.fields = FieldIDs \ {FieldTemperature}
    <3> DEFINE id == data[pos + 1]
               decoded == DecodeField(id, Slice(data, pos + 1, FieldEnd))
               f == SetField(item.fields, id, decoded.value)
    <3>1. item' = item \/ item' = [item EXCEPT !.fields = f]
      BY <1>7 DEF ReadField
    <3>2. DOMAIN f = DOMAIN item.fields
      BY FieldSet
    <3> HIDE DEF f
    <3>3. CASE item' = item
      BY <1>0, <3>3
    <3>4. CASE item' = [item EXCEPT !.fields = f]
      <4>1. item'.fields = f /\ DOMAIN item' = DOMAIN item
        BY <3>4
      <4> QED
        BY <1>0, <3>2, <4>1
    <3> QED
      BY <3>1, <3>3, <3>4
  <2> QED
    BY <1>0, <2>1, <2>3, <2>4, <2>5 DEF TypeOK
<1>8. CASE EndItem
  <2>1. /\ pc = "field" /\ pc' = "item" /\ left > 0 /\ left' = left - 1
        /\ base' = pos' /\ UNCHANGED <<sent, data, item>>
    BY <1>8 DEF EndItem
  <2>2. pos' \in 0..Len(data')
    <3>1. CASE AtField
      <4>1. pos' = pos + 1 /\ pos < Len(data)
        BY <1>8, <3>1 DEF EndItem, AtField
      <4> QED
        BY <1>0, <2>1, <4>1
    <3>2. CASE ~AtField
      <4>1. pos' = pos
        BY <1>8, <3>2 DEF EndItem
      <4> QED
        BY <1>0, <2>1, <4>1
    <3> QED
      BY <3>1, <3>2
  <2>3. left' \in Word
    BY <1>0, <2>1 DEF Word
  <2> QED
    BY <1>0, <2>1, <2>2, <2>3 DEF TypeOK
<1>9. CASE UNCHANGED vars
  BY <1>0, <1>9 DEF vars, TypeOK, AtField, Fits, FieldEnd
<1> QED
  BY <1>1, <1>2, <1>3, <1>4, <1>5, <1>6, <1>7, <1>8, <1>9 DEF Next

\* The loops of DecodeRealtimeData and DecodeReissueData stay inside the
\* message, whatever bytes it has and wherever it was cut: no offset passes
\* its end, findFieldEnd never points back, so that no slice ends before it
\* starts, and the number of items left never falls below zero.
THEOREM LoopsStayInside == Spec => []TypeOK
<1>1. Inv => TypeOK
  BY DEF Inv
<1> QED
  BY <1>1, InvInit, InvNext, PTL DEF Spec

\* Whatever arrives whole is decoded: DecryptAES128 does not refuse what
\* EncryptAES128 made, no body is refused that its encoder made, with strings
\* and lists of any length their byte can hold, and no message of items is
\* taken for too short.
THEOREM NothingWholeIsRefused == Spec => []WholeIsDecoded
<1>1. Init => WholeIsDecoded
  <2> SUFFICES ASSUME Init PROVE WholeIsDecoded
    OBVIOUS
  <2>1. pc \in {"sealed", "start"}
    BY DEF Init
  <2> QED
    BY <2>1 DEF WholeIsDecoded
<1>2. TypeOK /\ WholeIsDecoded /\ [Next]_vars => WholeIsDecoded'
  <2> SUFFICES ASSUME TypeOK, WholeIsDecoded, [Next]_vars
               PROVE  WholeIsDecoded'
    OBVIOUS
  <2>0. sent \in Messages /\ Encode(sent) \in Seq(Byte)
    BY MessageBytes DEF TypeOK
  <2>1. CASE Decrypt
    <3>1. /\ pc' \in {"refused", "start"} /\ sent' = sent
          /\ pc' = "refused" => DecryptAES128(data).err /\ data' = data
      BY <2>1 DEF Decrypt
    <3>2. DecryptAES128(EncryptAES128(Encode(sent))).err = FALSE
      BY <2>0, Unsealed DEF Decoded
    <3>3. pc' = "refused" => data' # EncryptAES128(Encode(sent'))
      BY <3>1, <3>2
    <3> QED
      BY <3>1, <3>3 DEF WholeIsDecoded
  <2>2. CASE ReadBody
    <3>1. /\ pc' \in {"done", "error"} /\ UNCHANGED <<sent, data>>
          /\ sent.kind \in BodyKinds
          /\ pc' = "error" => DecodeBody(sent.kind, data).err
      BY <2>2 DEF ReadBody, Multipart
    <3>2. sent.kind \notin {"realtime", "reissue"}
      BY <3>1 DEF BodyKinds
    <3>3. sent.body \in BodiesOf(sent.kind)
      BY <2>0, <3>2, MessagesAssumption
    <3>4. DecodeBody(sent.kind, EncodeBody(sent.kind, sent.body)).err = FALSE
      BY <3>1, <3>3, BodyAccepted DEF Accepts
    <3>5. Encode(sent) = EncodeBody(sent.kind, sent.body)
      BY <3>1 DEF Encode
    <3>6. pc' = "error" => data' # Encode(sent')
      BY <3>1, <3>4, <3>5
    <3> QED
      BY <3>1, <3>6 DEF WholeIsDecoded, Whole
  <2>3. CASE TooShort
    <3>1. /\ pc' = "error" /\ UNCHANGED <<sent, data>>
          /\ sent.kind \notin BodyKinds /\ Len(data) < MinData
      BY <2>3 DEF TooShort, Multipart
    <3>2. Len(Encode(sent)) >= MinData
      BY <2>0, <3>1, MessageBytes DEF MinData
    <3>3. Len(data) \in Nat /\ Len(Encode(sent)) \in Nat /\ MinData \in Nat
      BY <2>0, LenProperties DEF TypeOK, MinData
    <3>4. data' # Encode(sent')
      BY <3>1, <3>2, <3>3
    <3> QED
      BY <3>1, <3>4 DEF WholeIsDecoded, Whole
  <2>4. CASE Begin \/ BeginItem \/ EndItem
    <3>1. pc' \in {"item", "field"}
      BY <2>4 DEF Begin, BeginItem, EndItem
    <3> QED
      BY <3>1 DEF WholeIsDecoded
  <2>5. CASE EndItems
    BY <2>5 DEF EndItems, WholeIsDecoded
  <2>6. CASE ReadField
    <3>1. pc' = "field"
      BY <2>6 DEF ReadField
    <3> QED
      BY <3>1 DEF WholeIsDecoded
  <2>7. CASE UNCHANGED vars
    BY <2>7 DEF vars, WholeIsDecoded, Whole
  <2> QED
    BY <2>1, <2>2, <2>3, <2>4, <2>5, <2>6, <2>7 DEF Next
<1> QED
  BY <1>1, <1>2, LoopsStayInside, PTL DEF Spec

\* The decoders of handlePacket undo the encoders of the Send methods: when
\* terminals use the codec that defaultDecoder reads, a login, logout, platform
\* or parameter body that arrives whole, in clear or sealed, is received as
\* sent, with all strings and lists their length byte allows.  (With the
\* binary codec the times of logins and logouts are not: see TimesReceived.)
THEOREM WholeBodiesReceived ==
  ASSUME TimeCodec = "BCD"
  PROVE  Spec => []BodiesReceived
<1> DEFINE Apart == /\ pc \in {"item", "field"} => Multipart
                    /\ BodiesReceived
<1>1. Init => Apart
  <2> SUFFICES ASSUME Init PROVE Apart
    OBVIOUS
  <2>1. pc \in {"sealed", "start"}
    BY DEF Init
  <2> QED
    BY <2>1 DEF BodiesReceived
<1>2. TypeOK /\ Apart /\ [Next]_vars => Apart'
  <2> SUFFICES ASSUME TypeOK, Apart, [Next]_vars PROVE Apart'
    OBVIOUS
  <2>0. sent \in Messages
    BY DEF TypeOK
  <2>1. CASE Decrypt
    <3>1. pc' \in {"refused", "start"}
      BY <2>1 DEF Decrypt
    <3> QED
      BY <3>1 DEF BodiesReceived
  <2>2. CASE ReadBody
    <3> DEFINE body == DecodeBody(sent.kind, data)
    <3>1. /\ pc' \in {"done", "error"} /\ UNCHANGED <<sent, data>>
          /\ sent.kind \in BodyKinds
          /\ pc' = "done" => msg' = <<body.value>>
      BY <2>2 DEF ReadBody, Multipart
    <3>2. sent.kind \notin {"realtime", "reissue"}
      BY <3>1 DEF BodyKinds
    <3>3. sent.body \in BodiesOf(sent.kind)
      BY <2>0, <3>2, MessagesAssumption
    <3>4. data = Encode(sent) => body = Decoded(sent.body)
      <4>1. Encode(sent) = EncodeBody(sent.kind, sent.body)
        BY <3>1 DEF Encode
      <4>2. DecodeBody(sent.kind, EncodeBody(sent.kind, sent.body))
              = Decoded(sent.body)
        BY <3>1, <3>3, BodyRead
      <4> QED
        BY <4>1, <4>2
    <3>5. Decoded(sent.body).value = sent.body
      BY DEF Decoded
    <3> HIDE DEF body
    <3>6. pc' = "done" /\ data' = Encode(sent') => msg' = <<sent'.body>>
      BY <3>1, <3>4, <3>5
    <3> QED
      BY <3>1, <3>6 DEF BodiesReceived, Whole
  <2>3. CASE TooShort
    BY <2>3 DEF TooShort, BodiesReceived
  <2>4. CASE Begin \/ BeginItem \/ EndItem \/ ReadField
    <3>1. pc' \in {"item", "field"} /\ sent' = sent /\ Multipart
      BY <2>4 DEF Begin, BeginItem, EndItem, ReadField
    <3> QED
      BY <3>1 DEF BodiesReceived, Multipart
  <2>5. CASE EndItems
    BY <2>5 DEF EndItems, BodiesReceived, Multipart
  <2>6. CASE UNCHANGED vars
    BY <2>6 DEF vars, BodiesReceived, Whole, Multipart
  <2> QED
    BY <2>1, <2>2, <2>3, <2>4, <2>5, <2>6 DEF Next
<1>3. Apart => BodiesReceived
  OBVIOUS
<1> HIDE DEF Apart
<1> QED
  BY <1>1, <1>2, <1>3, LoopsStayInside, PTL DEF Spec

LEMMA SliceCut ==
  ASSUME NEW e \in Seq(Byte), NEW n \in 0..Len(e)
  PROVE  Cut(Slice(e, 0, n), e)
<1>1. Len(e) \in Nat /\ n \in Nat /\ 0 + 1 = 1 /\ 1 \in Nat \ {0} /\ 0 \in Nat
  BY LenProperties
<1>2. PICK v : v = Slice(e, 0, n)
  OBVIOUS
<1>3. v = SubSeq(e, 1, n)
  BY <1>1, <1>2 DEF Slice
<1>4. Len(v) = n
  <2>1. n \in 0..Len(e) /\ n - 0 = n
    BY <1>1
  <2> QED
    BY <1>1, <1>2, <2>1, SliceBytes
<1>5. \A i \in 1..n - 1 + 1 : v[i] = e[1 + i - 1]
  BY <1>1, <1>3, PartOf
<1>6. n - 1 + 1 = n /\ \A i \in 1..n : 1 + i - 1 = i
  BY <1>1
<1>7. \A i \in 1..n : v[i] = e[i]
  BY <1>5, <1>6
<1>8. Cut(v, e)
  BY <1>1, <1>4, <1>7 DEF Cut
<1> QED
  BY <1>2, <1>8

\* What handlePacket works on is a beginning of what was sent, before and
\* after decryption.
Beginning ==
  Cut(data, IF pc \in {"sealed", "refused"} THEN EncryptAES128(Encode(sent))
            ELSE Encode(sent))

LEMMA ReceivesBeginning == Spec => []Beginning
<1>1. Init => Beginning
  <2> SUFFICES ASSUME Init PROVE Beginning
    OBVIOUS
  <2>1. PICK pad \in BOOLEAN :
          LET d == IF pad THEN EncryptAES128(Encode(sent)) ELSE Encode(sent)
          IN /\ \E n \in 0..Len(d) : data = Slice(d, 0, n)
             /\ pc = IF pad THEN "sealed" ELSE "start"
    BY DEF Init
  <2> DEFINE d == IF pad THEN EncryptAES128(Encode(sent)) ELSE Encode(sent)
  <2>2. d \in Seq(Byte)
    <3>1. Encode(sent) \in Seq(Byte)
      BY MessageBytes DEF Init
    <3>2. EncryptAES128(Encode(sent)) \in Seq(Byte)
      BY <3>1, Unsealed
    <3> QED
      BY <3>1, <3>2
  <2>3. PICK n \in 0..Len(d) : data = Slice(d, 0, n)
    BY <2>1
  <2>4. Cut(data, d)
    <3> HIDE DEF d
    <3> QED
      BY <2>2, <2>3, SliceCut
  <2> QED
    BY <2>1, <2>4 DEF Beginning
<1>2. TypeOK /\ Beginning /\ [Next]_vars => Beginning'
  <2> SUFFICES ASSUME TypeOK, Beginning, [Next]_vars PROVE Beginning'
    OBVIOUS
  <2>0. sent \in Messages /\ data \in Seq(Byte) /\ Encode(sent) \in Seq(Byte)
    BY MessageBytes DEF TypeOK
  <2>1. CASE Decrypt
    <3> DEFINE e == Encode(sent)
               decrypted == DecryptAES128(data)
    <3>1. /\ sent' = sent /\ Cut(data, EncryptAES128(e))
          /\ IF decrypted.err THEN pc' = "refused" /\ data' = data
             ELSE pc' = "start" /\ data' = decrypted.value
      BY <2>1 DEF Decrypt, Beginning
    <3>2. CASE decrypted.err
      <4>1. pc' = "refused" /\ data' = data
        BY <3>1, <3>2
      <4> QED
        BY <3>1, <4>1 DEF Beginning
    <3>3. CASE ~decrypted.err
      <4>1. pc' = "start" /\ data' = decrypted.value
        BY <3>1, <3>3
      <4>2. Cut(decrypted.value, e)
        <5> HIDE DEF e
        <5> QED
          BY <2>0, <3>1, <3>3, DecryptCut DEF e
      <4>3. pc' \notin {"sealed", "refused"}
        BY <4>1
      <4> QED
        BY <3>1, <4>1, <4>2, <4>3 DEF Beginning
    <3> QED
      BY <3>2, <3>3
  <2>2. CASE \/ ReadBody \/ TooShort \/ Begin \/ BeginItem \/ EndItems
             \/ ReadField \/ EndItem
    <3>1. /\ UNCHANGED <<sent, data>> /\ pc \notin {"sealed", "refused"}
          /\ pc' \notin {"sealed", "refused"}
      BY <2>2 DEF ReadBody, TooShort, Begin, BeginItem, EndItems, ReadField,
                  EndItem
    <3> QED
      BY <3>1 DEF Beginning
  <2>3. CASE UNCHANGED vars
    BY <2>3 DEF vars, Beginning
  <2> QED
    BY <2>1, <2>2, <2>3 DEF Next
<1> QED
  BY <1>1, <1>2, LoopsStayInside, PTL DEF Spec

\* Whatever is lost of a login, logout, platform or parameter body, also
\* between the blocks of a sealed one, is its end: what the decoders of
\* handlePacket report was sent, strings are whole or missing and lists lose
\* their last entries, for bodies of every length cut at every byte, from
\* terminals that use the codec that defaultDecoder reads.
THEOREM NoBodyIsMadeUp ==
  ASSUME TimeCodec = "BCD"
  PROVE  Spec => []BodyNotMadeUp
<1> DEFINE Apart == /\ pc \in {"item", "field"} => Multipart
                    /\ BodyNotMadeUp
<1>1. Init => Apart
  <2> SUFFICES ASSUME Init PROVE Apart
    OBVIOUS
  <2>1. pc \in {"sealed", "start"}
    BY DEF Init
  <2> QED
    BY <2>1 DEF BodyNotMadeUp
<1>2. TypeOK /\ Beginning /\ Apart /\ [Next]_vars => Apart'
  <2> SUFFICES ASSUME TypeOK, Beginning, Apart, [Next]_vars PROVE Apart'
    OBVIOUS
  <2>0. sent \in Messages /\ data \in Seq(Byte)
    BY DEF TypeOK
  <2>1. CASE Decrypt
    <3>1. pc' \in {"refused", "start"}
      BY <2>1 DEF Decrypt
    <3> QED
      BY <3>1 DEF BodyNotMadeUp
  <2>2. CASE ReadBody
    <3> DEFINE body == DecodeBody(sent.kind, data)
    <3>1. /\ pc = "start" /\ sent' = sent /\ sent.kind \in BodyKinds
          /\ pc' \in {"done", "error"}
          /\ pc' = "done" => ~body.err /\ msg' = <<body.value>>
      BY <2>2 DEF ReadBody, Multipart
    <3>2. sent.kind \notin {"realtime", "reissue"}
      BY <3>1 DEF BodyKinds
    <3>3. sent.body \in BodiesOf(sent.kind)
      BY <2>0, <3>2, MessagesAssumption
    <3>4. Cut(data, EncodeBody(sent.kind, sent.body))
      BY <3>1 DEF Beginning, Encode
    <3>5. RefusesOrKeeps(body, sent.body)
      BY <2>0, <3>1, <3>3, <3>4, BodyCut
    <3> HIDE DEF body
    <3>6. pc' = "done" => LosesEnd(body.value, sent.body)
      BY <3>1, <3>5 DEF RefusesOrKeeps
    <3>7. pc' = "done" => msg'[1] = body.value
      BY <3>1
    <3>8. pc' = "done" => LosesEnd(msg'[1], sent'.body)
      BY <3>1, <3>6, <3>7
    <3> QED
      BY <3>1, <3>8 DEF BodyNotMadeUp
  <2>3. CASE TooShort
    BY <2>3 DEF TooShort, BodyNotMadeUp
  <2>4. CASE Begin \/ BeginItem \/ EndItem \/ ReadField
    <3>1. pc' \in {"item", "field"} /\ sent' = sent /\ Multipart
      BY <2>4 DEF Begin, BeginItem, EndItem, ReadField
    <3> QED
      BY <3>1 DEF BodyNotMadeUp, Multipart
  <2>5. CASE EndItems
    BY <2>5 DEF EndItems, BodyNotMadeUp, Multipart
  <2>6. CASE UNCHANGED vars
    BY <2>6 DEF vars, BodyNotMadeUp, Multipart
  <2> QED
    BY <2>1, <2>2, <2>3, <2>4, <2>5, <2>6 DEF Next
<1>3. Apart => BodyNotMadeUp
  OBVIOUS
<1> HIDE DEF Apart
<1> QED
  BY <1>1, <1>2, <1>3, LoopsStayInside, ReceivesBeginning, PTL DEF Spec
============================================================================
