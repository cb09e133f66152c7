--------------------------- MODULE SessionProofs ---------------------------
(***************************************************************************)
(* What Session keeps for every set of senders and tokens, whatever the    *)
(* vehicle sends, loses or leaves unread.                                  *)
(***************************************************************************)
EXTENDS Session, SequenceTheorems, TLAPS

---------------------------------------------------------------------------
(* The inductive invariant.                                                *)

\* The goroutine of the connection is inside Send only where run waits for it.
RunSends == sendPc[Run] # "none" => runPc \in {"response", "answer"}

\* Tokens the vehicle has, will have before anything written from now on, or
\* never gets because the response was not written.
Announced ==
  {k \in Tokens : k \in known \cup lost
                    \/ \E j \in 1..Len(down) : down[j].token = k}

\* No key is in use, about to be stored or taken for a frame that is not
\* announced.
KeysAnnounced ==
  /\ encryptKey \in Announced \cup {NoKey}
  /\ runPc = "store" => newKey \in Announced \cup {NoKey}
  /\ runPc = "response" =>
       /\ outgoing[Run].token = newKey
       /\ sendPc[Run] = "none" => newKey \in Announced \cup {NoKey}
  /\ \A t \in Senders : sendPc[t] # "none" =>
       outgoing[t].key \in Announced \cup {NoKey}

IInv ==
  TypeOK /\ RunSends /\ OneWriter /\ CrashOnlyAtEdges /\ KeysAnnounced
    /\ KeyNeverAhead

LEMMA InitInv == Init => IInv
<1> SUFFICES ASSUME Init PROVE IInv
  OBVIOUS
<1> USE DEF Init
<1>1. TypeOK
  <2>1. NoFrame \in Frames
    BY DEF NoFrame, Frames, Keys
  <2>2. up \in Seq(Packets) /\ down \in Seq(Frames)
    BY EmptySeq
  <2> QED
    BY <2>1, <2>2 DEF TypeOK, SendStates, Keys
<1>2. RunSends /\ OneWriter /\ CrashOnlyAtEdges
  BY KeysAssumption DEF RunSends, OneWriter, CrashOnlyAtEdges, Alive, Senders
<1>3. KeysAnnounced /\ KeyNeverAhead
  BY DEF KeysAnnounced, KeyNeverAhead, Senders
<1> QED
  BY <1>1, <1>2, <1>3 DEF IInv

---------------------------------------------------------------------------
(* Types.                                                                  *)

LEMMA Packet ==
  ASSUME NEW cmd \in Commands, NEW k \in Keys
  PROVE  [cmd |-> cmd, key |-> k] \in Packets
BY DEF Packets

LEMMA PartIsFrame == Part \in Frames
BY DEF Part, Frames, Keys

LEMMA TypeSend ==
  ASSUME TypeOK, NEW t \in Senders, SendStep(t)
  PROVE  TypeOK'
<1> USE DEF TypeOK, SendStates, keyVars, connVars, vehicleVars, history
<1>1. outgoing[t] \in Frames
  OBVIOUS
<1>2. ASSUME SendFails(t)
      PROVE  /\ lost' \subseteq Tokens
             /\ sendPc' \in [Senders -> SendStates]
             /\ outgoing' \in [Senders -> Frames]
  BY <1>1, <1>2 DEF SendFails, Frames, Keys
<1>3. CASE SendLock(t)
  BY <1>2, <1>3 DEF SendLock
<1>4. CASE SendKey(t)
  BY <1>4 DEF SendKey
<1>5. CASE SendTooShort(t) \/ SendCrash(t)
  BY <1>2, <1>5 DEF SendTooShort, SendCrash
<1>6. CASE SendEncrypt(t)
  <2>1. PICK ptr \in Seen : outgoing' = [outgoing EXCEPT ![t].key = ptr]
    BY <1>6 DEF SendEncrypt
  <2>2. [outgoing[t] EXCEPT !.key = ptr] \in Frames
    BY <1>1 DEF Frames, Seen
  <2>3. outgoing' \in [Senders -> Frames]
    BY <2>1, <2>2
  <2> QED
    BY <1>6, <2>3 DEF SendEncrypt
<1>7. CASE SendWrite(t)
  <2>1. down' \in Seq(Frames)
    BY <1>1, <1>7, AppendProperties DEF SendWrite
  <2> QED
    BY <1>7, <2>1 DEF SendWrite
<1>8. CASE SendWriteFails(t)
  BY <1>2, <1>8 DEF SendWriteFails
<1>9. CASE SendCut(t)
  <2>1. down' \in Seq(Frames)
    BY <1>9, PartIsFrame, AppendProperties DEF SendCut
  <2> QED
    BY <1>2, <1>9, <2>1 DEF SendCut
<1> QED
  BY <1>3, <1>4, <1>5, <1>6, <1>7, <1>8, <1>9 DEF SendStep

LEMMA TypeOther ==
  ASSUME TypeOK, NEW t \in Others, OtherSend(t)
  PROVE  TypeOK'
<1> USE DEF TypeOK, SendStates, keyVars, connVars, vehicleVars, history
<1>1. \A cmd \in {"answer", "empty"} :
        [cmd |-> cmd, key |-> NoKey, token |-> NoKey] \in Frames
  BY DEF Frames, Keys
<1>2. outgoing' \in [Senders -> Frames]
  <2>1. PICK cmd \in {"answer", "empty"} : CallSend(t, cmd, NoKey)
    BY DEF OtherSend
  <2>2. [cmd |-> cmd, key |-> NoKey, token |-> NoKey] \in Frames
    BY <1>1
  <2> QED
    BY <2>1, <2>2 DEF CallSend
<1>3. sendPc' \in [Senders -> SendStates]
  BY DEF OtherSend, CallSend
<1> QED
  BY <1>2, <1>3 DEF OtherSend

LEMMA TypeTaken ==
  ASSUME TypeOK, NEW cmd, Taken(cmd)
  PROVE  up' \in Seq(Packets)
BY HeadTailProperties DEF TypeOK, Taken

LEMMA TypeRun ==
  ASSUME TypeOK, HandlePacket \/ RunEnds \/ OtherClose
  PROVE  TypeOK'
<1> USE DEF TypeOK, SendStates, keyVars, connVars, sendVars, vehicleVars,
           history
<1>1. Run \in Senders
  BY DEF Senders
<1>2. ASSUME NEW token \in Keys, NEW cmd \in {"login", "answer"},
             CallSend(Run, cmd, token)
      PROVE  /\ sendPc' \in [Senders -> SendStates]
             /\ outgoing' \in [Senders -> Frames]
  <2>1. [cmd |-> cmd, key |-> NoKey, token |-> token] \in Frames
    BY DEF Frames, Keys
  <2> QED
    BY <1>2, <2>1 DEF CallSend
<1>3. CASE DropPacket
  BY <1>3, TypeTaken DEF DropPacket
<1>4. CASE LoginRefused
  <2>1. up' \in Seq(Packets)
    BY <1>4, TypeTaken DEF LoginRefused
  <2>2. state' \in {"New", "LoggedIn", "Closed"} /\ open' \in BOOLEAN
    BY <1>4 DEF LoginRefused, Close
  <2> QED
    BY <1>4, <2>1, <2>2 DEF LoginRefused
<1>5. CASE LoginSilent
  BY <1>5, TypeTaken DEF LoginSilent, LoginAccepted, Decodes
<1>6. CASE LoginResponds
  <2>1. PICK token \in Keys : CallSend(Run, "login", token) /\ newKey' = token
    BY <1>6 DEF LoginResponds
  <2>2. outgoing' \in [Senders -> Frames]
        /\ sendPc' \in [Senders -> SendStates]
    BY <1>2, <2>1
  <2> QED
    BY <1>6, <2>1, <2>2, TypeTaken DEF LoginResponds, LoginAccepted, Decodes
<1>7. CASE LoginKey
  BY <1>7 DEF LoginKey
<1>8. CASE Logout
  BY <1>8, TypeTaken DEF Logout, Decodes, Keys
<1>9. CASE StoreKey
  BY <1>9 DEF StoreKey
<1>11. CASE HandleData
  BY <1>11, TypeTaken DEF HandleData, Decodes
<1>12. CASE HandleQuery
  <2>1. outgoing' \in [Senders -> Frames]
        /\ sendPc' \in [Senders -> SendStates]
    BY <1>2, <1>12 DEF HandleQuery, Keys
  <2>2. up' \in Seq(Packets) /\ garbled' \in BOOLEAN
    BY <1>12, TypeTaken DEF HandleQuery, Decodes
  <2> QED
    BY <1>12, <2>1, <2>2 DEF HandleQuery
<1>13. CASE Answered
  BY <1>13 DEF Answered
<1>14. CASE RunEnds
  BY <1>14 DEF RunEnds, Close
<1>15. CASE OtherClose
  BY <1>15 DEF OtherClose, Close
<1> QED
  BY <1>3, <1>4, <1>5, <1>6, <1>7, <1>8, <1>9, <1>11, <1>12, <1>13, <1>14,
     <1>15 DEF HandlePacket

LEMMA TypeVehicle ==
  ASSUME TypeOK, Vehicle
  PROVE  TypeOK'
<1> USE DEF TypeOK, keyVars, connVars, sendVars, history
<1>1. ASSUME NEW p \in Packets, Transmit(p)
      PROVE  up' \in Seq(Packets) /\ packets' \in Nat
  BY <1>1, AppendProperties DEF Transmit
<1>2. vKey \in Keys /\ NoKey \in Keys
  BY DEF Keys
<1>3. CASE VehicleLogin
  BY <1>1, <1>2, <1>3, Packet DEF VehicleLogin, Commands
<1>4. CASE VehicleLogout
  BY <1>1, <1>2, <1>4, Packet DEF VehicleLogout, Commands
<1>5. CASE VehicleSends
  <2>1. PICK p \in Packets : Transmit(p)
    BY <1>2, <1>5, Packet DEF VehicleSends, Commands
  <2> QED
    BY <1>1, <1>5, <2>1 DEF VehicleSends
<1>6. CASE VehicleReceives
  <2>1. Head(down) \in Frames /\ down' \in Seq(Frames)
    BY <1>6, HeadTailProperties DEF VehicleReceives
  <2>2. vKey' \in Keys /\ known' \subseteq Tokens /\ awaiting' \in BOOLEAN
    BY <1>6, <2>1 DEF VehicleReceives, Frames, Keys
  <2> QED
    BY <1>6, <2>1, <2>2 DEF VehicleReceives
<1>7. CASE VehicleGivesUp
  BY <1>7 DEF VehicleGivesUp
<1>8. CASE VehicleMisses
  <2>1. Head(down) \in Frames /\ down' \in Seq(Frames)
    BY <1>8, HeadTailProperties DEF VehicleMisses
  <2>2. lost' \subseteq Tokens
    BY <1>8, <2>1 DEF VehicleMisses, Frames, Keys
  <2> QED
    BY <1>8, <2>1, <2>2 DEF VehicleMisses, vehicleVars
<1> QED
  BY <1>3, <1>4, <1>5, <1>6, <1>7, <1>8 DEF Vehicle

LEMMA TypeStep == TypeOK /\ [Next]_vars => TypeOK'
<1> SUFFICES ASSUME TypeOK, [Next]_vars PROVE TypeOK'
  OBVIOUS
<1>1. CASE UNCHANGED vars
  BY <1>1 DEF TypeOK, vars, keyVars, connVars, sendVars, vehicleVars, history
<1> QED
  BY <1>1, TypeSend, TypeOther, TypeRun, TypeVehicle DEF Next

---------------------------------------------------------------------------
(* writeMu.                                                                *)

\* What every step of a connection's own goroutine outside Send, of other
\* goroutines outside Send and of the vehicle leaves alone.
LEMMA WriterRest ==
  ASSUME IInv, HandlePacket \/ RunEnds \/ OtherClose \/ Vehicle
  PROVE  /\ writeMu' = writeMu
         /\ \A t \in Others : sendPc'[t] = sendPc[t]
         /\ sendPc'[Run] = sendPc[Run]
              \/ (sendPc[Run] = "none" /\ sendPc'[Run] = "lock")
         /\ RunSends'
<1> USE SendersAssumption
    DEF IInv, TypeOK, RunSends, sendVars, Senders
<1>1. CASE DropPacket \/ LoginRefused \/ LoginSilent \/ HandleData
  BY <1>1 DEF DropPacket, LoginRefused, LoginSilent, LoginAccepted, HandleData,
              Decodes, Taken
<1>2. CASE LoginResponds
  BY <1>2 DEF LoginResponds, LoginAccepted, Decodes, Taken, CallSend
<1>3. CASE HandleQuery
  BY <1>3 DEF HandleQuery, Decodes, Taken, CallSend
<1>4. CASE LoginKey \/ Logout \/ StoreKey \/ Answered
  BY <1>4 DEF LoginKey, Logout, Decodes, Taken, StoreKey,
              Answered
<1>5. CASE RunEnds \/ OtherClose
  BY <1>5 DEF RunEnds, OtherClose
<1>6. CASE Vehicle
  BY <1>6 DEF Vehicle, VehicleLogin, VehicleLogout, VehicleSends,
              VehicleReceives, VehicleMisses, VehicleGivesUp
<1> QED
  BY <1>1, <1>2, <1>3, <1>4, <1>5, <1>6 DEF HandlePacket

LEMMA WriterSend ==
  ASSUME IInv, NEW t \in Senders, SendStep(t)
  PROVE  OneWriter' /\ RunSends'
<1> USE KeysAssumption DEF IInv, TypeOK
<1>1. RunSends'
  BY DEF RunSends, SendStep, SendLock, SendKey, SendTooShort, SendCrash,
         SendEncrypt, SendCut, SendWrite, SendWriteFails, SendFails, Senders
<1>2. OneWriter'
  <2> USE DEF OneWriter
  <2>1. CASE SendLock(t)
    BY <2>1 DEF SendLock, SendFails
  <2>2. CASE SendKey(t)
    BY <2>2 DEF SendKey
  <2>3. CASE SendTooShort(t)
    BY <2>3 DEF SendTooShort, SendFails
  <2>4. CASE SendCrash(t) \/ SendEncrypt(t)
    BY <2>4 DEF SendCrash, SendEncrypt
  <2>5. CASE SendWrite(t)
    BY <2>5 DEF SendWrite
  <2>6. CASE SendWriteFails(t) \/ SendCut(t)
    BY <2>6 DEF SendWriteFails, SendCut, SendFails
  <2> QED
    BY <2>1, <2>2, <2>3, <2>4, <2>5, <2>6 DEF SendStep
<1> QED
  BY <1>1, <1>2

LEMMA WriterStep == IInv /\ [Next]_vars => OneWriter' /\ RunSends'
<1> SUFFICES ASSUME IInv, [Next]_vars PROVE OneWriter' /\ RunSends'
  OBVIOUS
<1>1. CASE UNCHANGED vars
  BY <1>1 DEF IInv, OneWriter, RunSends, vars, sendVars
<1>2. CASE HandlePacket \/ RunEnds \/ OtherClose \/ Vehicle
  BY <1>2, WriterRest DEF IInv, OneWriter, Senders
<1>3. ASSUME NEW t \in Others, OtherSend(t) PROVE OneWriter' /\ RunSends'
  BY <1>3, SendersAssumption
     DEF IInv, TypeOK, OneWriter, RunSends, OtherSend, CallSend, Senders
<1> QED
  BY <1>1, <1>2, <1>3, WriterSend DEF Next

---------------------------------------------------------------------------
(* The key that Send loads.                                                *)

\* A Send mixes the words of two keys only while run stores one, and run does
\* not send then.
LEMMA CrashStep == IInv /\ [Next]_vars => CrashOnlyAtEdges'
<1> SUFFICES ASSUME IInv, [Next]_vars, ~Alive' PROVE CrashOnlyAtEdges'
  BY DEF CrashOnlyAtEdges
<1>1. TypeOK /\ RunSends /\ Run \in Senders
  BY DEF IInv, Senders
<1>2. PICK u \in Senders : sendPc'[u] = "crash"
  BY DEF Alive
<1>3. CASE UNCHANGED vars
  BY <1>3 DEF IInv, CrashOnlyAtEdges, Alive, vars, keyVars, sendVars
<1>4. CASE Next
  <2>1. \A t \in Senders : sendPc[t] # "crash"
    BY <1>4 DEF Next, Alive
  <2>2. ASSUME NEW t \in Senders, SendStep(t) PROVE CrashOnlyAtEdges'
    <3>1. SendCrash(t)
      BY <1>1, <1>2, <2>1, <2>2
         DEF SendStep, SendLock, SendKey, SendTooShort, SendEncrypt, SendCut,
             SendWrite, SendWriteFails, SendFails, TypeOK
    <3>2. runPc = "store" /\ NoKey \in {encryptKey, newKey}
      BY <3>1 DEF SendCrash, Seen
    <3>3. sendPc[Run] = "none" /\ t # Run
      BY <1>1, <3>1, <3>2 DEF RunSends, SendCrash
    <3>4. sendPc'[Run] = "none" /\ UNCHANGED <<keyVars, runPc>>
      BY <1>1, <3>1, <3>3 DEF SendCrash, TypeOK
    <3> QED
      BY <3>2, <3>4 DEF CrashOnlyAtEdges, keyVars
  <2>3. CASE HandlePacket \/ RunEnds \/ OtherClose \/ Vehicle
    BY <1>2, <2>1, <2>3, WriterRest DEF Senders
  <2>4. ASSUME NEW t \in Others, OtherSend(t) PROVE FALSE
    BY <1>1, <1>2, <2>1, <2>4 DEF OtherSend, CallSend, TypeOK
  <2> QED
    BY <1>4, <2>2, <2>3, <2>4 DEF Next
<1> QED
  BY <1>3, <1>4

---------------------------------------------------------------------------
(* Keys.  What is announced stays announced: a login response that leaves  *)
(* the network is known, one that never enters it is lost.                 *)

LEMMA FramesIn ==
  ASSUME TypeOK
  PROVE  /\ Len(down) \in Nat
         /\ \A i \in 1..Len(down) : down[i] \in Frames
BY ElementOfSeq, LenProperties DEF TypeOK

LEMMA SendDown ==
  ASSUME TypeOK, NEW t \in Senders, SendStep(t)
  PROVE  /\ known' = known /\ lost \subseteq lost'
         /\ \/ down' = down
            \/ SendWrite(t) /\ down' = Append(down, outgoing[t])
            \/ SendCut(t) /\ down' = Append(down, Part)
BY DEF SendStep, SendLock, SendKey, SendTooShort, SendCrash, SendEncrypt,
       SendCut, SendWrite, SendWriteFails, SendFails, history

LEMMA RestDown ==
  ASSUME HandlePacket \/ RunEnds \/ OtherClose \/ VehicleLogin \/ VehicleLogout
           \/ VehicleSends \/ VehicleGivesUp \/ (\E t \in Others : OtherSend(t))
  PROVE  UNCHANGED <<down, known, lost>>
BY DEF HandlePacket, DropPacket, LoginRefused, LoginSilent, LoginResponds,
       LoginAccepted, LoginKey, Logout, StoreKey,
       HandleData, HandleQuery, Answered, RunEnds, OtherClose, VehicleLogin,
       VehicleLogout, VehicleSends, VehicleGivesUp, OtherSend, history

LEMMA AppendedDown ==
  ASSUME TypeOK, NEW f \in Frames, down' = Append(down, f)
  PROVE  /\ Len(down') = Len(down) + 1
         /\ \A i \in 1..Len(down) : down'[i] = down[i]
         /\ down'[Len(down) + 1] = f
BY AppendProperties DEF TypeOK

LEMMA ReceivedDown ==
  ASSUME TypeOK, VehicleReceives \/ VehicleMisses
  PROVE  /\ Len(down) > 0 /\ Len(down') = Len(down) - 1
         /\ \A i \in 1..(Len(down) - 1) : down'[i] = down[i + 1]
         /\ known' \cup lost' = known \cup lost \cup ({down[1].token} \ {NoKey})
<1>1. down \in Seq(Frames) /\ down # <<>> /\ down' = Tail(down)
  BY DEF TypeOK, VehicleReceives, VehicleMisses
<1>2. /\ Len(down') = Len(down) - 1 /\ Len(down) > 0
      /\ \A i \in 1..(Len(down) - 1) : down'[i] = down[i + 1]
  BY <1>1, HeadTailProperties, LenProperties, EmptySeq
<1>3. Head(down) = down[1]
  BY <1>1
<1> QED
  BY <1>2, <1>3 DEF VehicleReceives, VehicleMisses

LEMMA AnnouncedStays ==
  ASSUME TypeOK, [Next]_vars
  PROVE  Announced \subseteq Announced'
<1> USE FramesIn
<1>1. ASSUME UNCHANGED <<down, known, lost>> PROVE Announced \subseteq Announced'
  BY <1>1 DEF Announced
<1>2. ASSUME NEW t \in Senders, SendStep(t) PROVE Announced \subseteq Announced'
  <2>1. outgoing[t] \in Frames
    BY DEF TypeOK
  <2>2. CASE down' = down
    BY <1>2, <2>2, SendDown DEF Announced
  <2>3. ASSUME NEW f \in Frames, down' = Append(down, f)
        PROVE  Announced \subseteq Announced'
    BY <1>2, <2>3, SendDown, AppendedDown DEF Announced
  <2> QED
    BY <1>2, <2>1, <2>2, <2>3, SendDown, PartIsFrame
<1>3. CASE VehicleReceives \/ VehicleMisses
  <2> SUFFICES ASSUME NEW k \in Announced PROVE k \in Announced'
    OBVIOUS
  <2>1. CASE k \in known \cup lost
    BY <1>3, <2>1, ReceivedDown DEF Announced
  <2>2. ASSUME NEW j \in 1..Len(down), down[j].token = k PROVE k \in Announced'
    <3>1. CASE j = 1
      BY <1>3, <2>2, <3>1, ReceivedDown, KeysAssumption DEF Announced
    <3>2. CASE j # 1
      <4>1. j - 1 \in 1..Len(down') /\ down'[j - 1] = down[j]
        BY <1>3, <3>2, ReceivedDown
      <4> QED
        BY <2>2, <4>1 DEF Announced
    <3> QED
      BY <3>1, <3>2
  <2> QED
    BY <2>1, <2>2 DEF Announced
<1>4. CASE UNCHANGED vars
  BY <1>1, <1>4 DEF vars, history
<1> QED
  BY <1>1, <1>2, <1>3, <1>4, RestDown DEF Next, Vehicle

LEMMA KeysSend ==
  ASSUME IInv, NEW t \in Senders, SendStep(t), Announced \subseteq Announced'
  PROVE  KeysAnnounced'
<1> USE DEF IInv, TypeOK, keyVars
<1>1. encryptKey' = encryptKey /\ newKey' = newKey /\ runPc' = runPc
  BY DEF SendStep, SendLock, SendKey, SendTooShort, SendCrash, SendEncrypt,
         SendCut, SendWrite, SendWriteFails
<1>2. \A u \in Senders : outgoing'[u].token = outgoing[u].token
  BY DEF SendStep, SendLock, SendKey, SendTooShort, SendCrash, SendEncrypt,
         SendCut, SendWrite, SendWriteFails, SendFails, Frames
<1>3. \A u \in Senders : sendPc'[u] # "none" =>
        outgoing'[u].key \in Announced' \cup {NoKey}
  BY DEF SendStep, SendLock, SendKey, SendTooShort, SendCrash, SendEncrypt,
         SendCut, SendWrite, SendWriteFails, SendFails, KeysAnnounced, Seen,
         Frames
<1>4. ASSUME runPc = "response", sendPc'[Run] = "none"
      PROVE  newKey \in Announced' \cup {NoKey}
  <2>1. Run \in Senders
    BY DEF Senders
  <2>2. CASE sendPc[Run] = "none"
    BY <1>4, <2>2 DEF KeysAnnounced
  <2>3. CASE sendPc[Run] # "none"
    <3>1. t = Run
      BY <1>4, <2>1, <2>3 DEF SendStep, SendLock, SendKey, SendTooShort,
                              SendCrash, SendEncrypt, SendCut, SendWrite,
                              SendWriteFails, SendFails
    <3>2. outgoing[Run].token = newKey
      BY <1>4 DEF KeysAnnounced
    <3>3. CASE SendWrite(Run)
      <4>1. /\ Len(down') = Len(down) + 1
            /\ down'[Len(down) + 1] = outgoing[Run]
            /\ Len(down) \in Nat
        <5>1. outgoing[Run] \in Frames /\ down' = Append(down, outgoing[Run])
          BY <2>1, <3>3 DEF SendWrite
        <5> QED
          BY <5>1, AppendedDown, FramesIn
      <4>2. Len(down) + 1 \in 1..Len(down')
        BY <4>1
      <4> QED
        BY <3>2, <4>1, <4>2 DEF Announced, Keys
    <3>4. CASE SendFails(Run)
      BY <3>2, <3>4 DEF SendFails, Announced, Keys
    <3> QED
      BY <1>4, <2>1, <3>1, <3>3, <3>4
         DEF SendStep, SendLock, SendKey, SendTooShort, SendCrash,
             SendEncrypt, SendCut, SendWriteFails
  <2> QED
    BY <2>2, <2>3
<1> QED
  BY <1>1, <1>2, <1>3, <1>4 DEF KeysAnnounced, Senders

LEMMA KeysRun ==
  ASSUME IInv, HandlePacket, Announced \subseteq Announced'
  PROVE  KeysAnnounced'
<1> USE DEF IInv, TypeOK, KeysAnnounced, keyVars, sendVars
<1>1. CASE DropPacket \/ LoginRefused \/ LoginSilent \/ HandleData
  BY <1>1 DEF DropPacket, LoginRefused, LoginSilent, LoginAccepted, HandleData
<1>2. CASE LoginResponds
  BY <1>2 DEF LoginResponds, LoginAccepted, CallSend, Senders
<1>3. CASE HandleQuery
  BY <1>3 DEF HandleQuery, CallSend
<1>4. CASE LoginKey \/ Answered
  BY <1>4 DEF LoginKey, Answered
<1>5. CASE Logout
  BY <1>5 DEF Logout
<1>6. CASE StoreKey
  BY <1>6 DEF StoreKey
<1> QED
  BY <1>1, <1>2, <1>3, <1>4, <1>5, <1>6 DEF HandlePacket

LEMMA KeysStep == IInv /\ [Next]_vars => KeysAnnounced'
<1> SUFFICES ASSUME IInv, [Next]_vars PROVE KeysAnnounced'
  OBVIOUS
<1>1. Announced \subseteq Announced'
  BY AnnouncedStays DEF IInv
<1> USE DEF IInv, KeysAnnounced, keyVars, sendVars
<1>2. CASE UNCHANGED vars
  BY <1>1, <1>2 DEF vars
<1>3. CASE RunEnds \/ OtherClose
  BY <1>1, <1>3 DEF RunEnds, OtherClose
<1>4. CASE Vehicle
  BY <1>1, <1>4 DEF Vehicle, VehicleLogin, VehicleLogout, VehicleSends,
                    VehicleReceives, VehicleMisses, VehicleGivesUp
<1>5. ASSUME NEW t \in Others, OtherSend(t) PROVE KeysAnnounced'
  BY <1>1, <1>5, SendersAssumption
     DEF TypeOK, OtherSend, CallSend, Senders
<1> QED
  BY <1>1, <1>2, <1>3, <1>4, <1>5, KeysSend, KeysRun DEF Next

LEMMA AheadStep == IInv /\ [Next]_vars => KeyNeverAhead'
<1> SUFFICES ASSUME IInv, [Next]_vars PROVE KeyNeverAhead'
  OBVIOUS
<1> USE FramesIn DEF IInv
<1>1. ASSUME UNCHANGED <<down, known, lost>> PROVE KeyNeverAhead'
  BY <1>1 DEF KeyNeverAhead
<1>2. ASSUME NEW t \in Senders, SendStep(t) PROVE KeyNeverAhead'
  <2>1. CASE down' = down
    BY <1>2, <2>1, SendDown DEF KeyNeverAhead
  <2>2. ASSUME NEW f \in Frames, down' = Append(down, f),
               f.key \in Announced \cup {NoKey}
        PROVE  KeyNeverAhead'
    <3>1. /\ Len(down') = Len(down) + 1 /\ Len(down) \in Nat
          /\ \A i \in 1..Len(down) : down'[i] = down[i]
          /\ down'[Len(down) + 1] = f
          /\ known' = known /\ lost \subseteq lost'
      BY <1>2, <2>2, AppendedDown, SendDown
    <3> SUFFICES ASSUME NEW i \in 1..Len(down'), down'[i].key # NoKey
                 PROVE  \/ down'[i].key \in known' \cup lost'
                        \/ \E j \in 1..(i - 1) : down'[j].token = down'[i].key
      BY DEF KeyNeverAhead
    <3>2. CASE i = Len(down) + 1
      BY <2>2, <3>1, <3>2 DEF Announced
    <3>3. CASE i \in 1..Len(down)
      BY <3>1, <3>3 DEF KeyNeverAhead
    <3> QED
      BY <3>1, <3>2, <3>3
  <2>3. CASE SendWrite(t) /\ down' = Append(down, outgoing[t])
    <3>1. outgoing[t].key \in Announced \cup {NoKey}
      BY <2>3 DEF KeysAnnounced, SendWrite
    <3> QED
      BY <2>2, <2>3, <3>1 DEF TypeOK
  <2>4. CASE down' = Append(down, Part)
    BY <2>2, <2>4, PartIsFrame DEF Part
  <2> QED
    BY <1>2, <2>1, <2>3, <2>4, SendDown
<1>3. CASE VehicleReceives \/ VehicleMisses
  <2>1. /\ Len(down) \in Nat /\ Len(down') = Len(down) - 1
        /\ \A i \in 1..(Len(down) - 1) : down'[i] = down[i + 1]
        /\ known' \cup lost' = known \cup lost
                                  \cup ({down[1].token} \ {NoKey})
    BY <1>3, ReceivedDown
  <2> SUFFICES ASSUME NEW i \in 1..Len(down'), down'[i].key # NoKey
               PROVE  \/ down'[i].key \in known' \cup lost'
                      \/ \E j \in 1..(i - 1) : down'[j].token = down'[i].key
    BY DEF KeyNeverAhead
  <2>2. i + 1 \in 1..Len(down) /\ down'[i] = down[i + 1]
    BY <2>1
  <2>3. \/ down[i + 1].key \in known \cup lost
        \/ \E j \in 1..i : down[j].token = down[i + 1].key
    BY <2>2 DEF KeyNeverAhead
  <2>4. ASSUME NEW j \in 1..i, down[j].token = down[i + 1].key, j # 1
        PROVE  \E m \in 1..(i - 1) : down'[m].token = down'[i].key
    <3>1. j - 1 \in 1..(i - 1) /\ down'[j - 1] = down[j]
      BY <2>1, <2>4
    <3> QED
      BY <2>2, <2>4, <3>1
  <2> QED
    BY <2>1, <2>2, <2>3, <2>4
<1>4. CASE UNCHANGED vars
  BY <1>1, <1>4 DEF vars, history
<1> QED
  BY <1>1, <1>2, <1>3, <1>4, RestDown DEF Next, Vehicle

LEMMA Invariant == Spec => []IInv
<1>1. IInv /\ [Next]_vars => IInv'
  BY TypeStep, WriterStep, CrashStep, KeysStep, AheadStep DEF IInv
<1> QED
  BY InitInv, <1>1, PTL DEF Spec

---------------------------------------------------------------------------
(* Both ends.  While no token is under way the two keys are equal, but for *)
(* a logout the server has not taken yet; while one is under way the       *)
(* vehicle sends nothing.  This holds as long as no response was lost and  *)
(* the vehicle did not give up early (Good).                               *)

Good == lost = {} /\ ~hasty

\* run is inside the Send of a login response.
Responding == runPc = "response" /\ sendPc[Run] # "none"

\* The key under which run will read the next packet.
NextKey ==
  IF runPc = "store" \/ (runPc = "response" /\ ~Responding /\ newKey # NoKey)
  THEN newKey ELSE encryptKey

LoginFrames == {i \in 1..Len(down) : down[i].cmd = "login"}

LogoutSent == \E j \in 1..Len(up) : up[j].cmd = "logout"

\* Only run sends login responses, under the key it has.
ResponseInv ==
  /\ \A t \in Senders : sendPc[t] # "none" /\ outgoing[t].cmd = "login" =>
       t = Run /\ runPc = "response"
  /\ Responding => /\ outgoing[Run].cmd = "login"
                   /\ outgoing[Run].key \in {NoKey, encryptKey}

\* The vehicle sends nothing after a login until it is answered.
LoginIsLast ==
  \A i \in 1..Len(up) : up[i].cmd = "login" => awaiting /\ i = Len(up)

\* There is one response to a login, and the vehicle waits for it.
OneResponse ==
  /\ Responding \/ LoginFrames # {} => awaiting /\ Len(up) = 0
  /\ Responding => LoginFrames = {}
  /\ \A i, j \in LoginFrames : i = j

\* The vehicle can read the response, and then both ends have the same key.
KeysMeet ==
  /\ \A i \in LoginFrames :
       /\ down[i].key \in {NoKey, vKey}
       /\ down[i].token # NoKey => NextKey = down[i].token
  /\ (\A i \in LoginFrames : down[i].token = NoKey) =>
       vKey = IF LogoutSent THEN NoKey ELSE NextKey

\* Every packet under way is encrypted under the key run will read it with.
Readable ==
  \A i \in 1..Len(up) : up[i].key # NoKey =>
    up[i].key = NextKey /\ \A j \in 1..(i - 1) : up[j].cmd # "logout"

Sync == ~garbled /\ LoginIsLast /\ OneResponse /\ KeysMeet /\ Readable

SyncInv == ResponseInv /\ (Good => Sync)

---------------------------------------------------------------------------
(* ResponseInv, and what one step changes.                                 *)

\* A lost response stays lost, and a hasty vehicle stays hasty.
LEMMA GoodBefore ==
  ASSUME [Next]_vars, Good'
  PROVE  Good
<1> USE DEF Good, history
<1>1. ASSUME NEW t \in Senders, SendStep(t) PROVE Good
  <2>1. hasty' = hasty
    BY <1>1 DEF SendStep, SendLock, SendKey, SendTooShort, SendCrash,
                SendEncrypt, SendCut, SendWrite, SendWriteFails
  <2>2. lost \subseteq lost'
    BY <1>1 DEF SendStep, SendLock, SendKey, SendTooShort, SendCrash,
                SendEncrypt, SendCut, SendWrite, SendWriteFails, SendFails
  <2> QED
    BY <2>1, <2>2
<1>2. CASE Vehicle
  <2>1. CASE VehicleGivesUp
    <3>1. lost' = lost
      BY <2>1 DEF VehicleGivesUp
    <3>2. hasty => hasty'
      BY <2>1 DEF VehicleGivesUp
    <3> QED
      BY <3>1, <3>2
  <2>2. CASE VehicleLogin \/ VehicleLogout \/ VehicleSends
    BY <2>2 DEF VehicleLogin, VehicleLogout, VehicleSends
  <2>3. CASE VehicleReceives \/ VehicleMisses
    BY <2>3 DEF VehicleReceives, VehicleMisses
  <2> QED
    BY <1>2, <2>1, <2>2, <2>3 DEF Vehicle
<1>3. CASE HandlePacket
  BY <1>3 DEF HandlePacket, DropPacket, LoginRefused, LoginSilent,
     LoginResponds, LoginAccepted, LoginKey, Logout, StoreKey,
     HandleData, HandleQuery, Answered
<1>4. CASE \/ RunEnds \/ OtherClose \/ (\E t \in Others : OtherSend(t))
           \/ UNCHANGED vars
  BY <1>4 DEF RunEnds, OtherClose, OtherSend, vars
<1> QED
  BY <1>1, <1>2, <1>3, <1>4 DEF Next

\* ResponseInv is inductive.
LEMMA ResponseStep == IInv /\ ResponseInv /\ [Next]_vars => ResponseInv'
<1> SUFFICES ASSUME IInv, ResponseInv, [Next]_vars PROVE ResponseInv'
  OBVIOUS
<1> USE SendersAssumption DEF ResponseInv, Responding
<1>0. TypeOK /\ RunSends /\ Run \in Senders
  BY DEF IInv, Senders
<1>1. ASSUME NEW t \in Senders, SendStep(t) PROVE ResponseInv'
  <2>1. UNCHANGED <<encryptKey, newKey, runPc>>
    BY <1>1 DEF SendStep, SendLock, SendKey, SendTooShort, SendCrash,
                SendEncrypt, SendCut, SendWrite, SendWriteFails, keyVars
  <2>2. \A u \in Senders :
          /\ outgoing'[u].cmd = outgoing[u].cmd
          /\ outgoing'[u].key \in {outgoing[u].key} \cup Seen
          /\ sendPc'[u] # "none" => sendPc[u] # "none"
    BY <1>0, <1>1 DEF SendStep, SendLock, SendKey, SendTooShort, SendCrash,
                      SendEncrypt, SendCut, SendWrite, SendWriteFails,
                      SendFails, TypeOK, Frames
  <2> QED
    BY <1>0, <2>1, <2>2 DEF Seen
<1>2. ASSUME NEW t \in Others, OtherSend(t) PROVE ResponseInv'
  BY <1>0, <1>2 DEF OtherSend, CallSend, TypeOK, keyVars, Senders
<1>3. CASE DropPacket \/ LoginRefused \/ LoginSilent \/ HandleData
  BY <1>0, <1>3 DEF DropPacket, LoginRefused, LoginSilent, LoginAccepted,
     HandleData, Decodes, Taken, RunSends, keyVars, sendVars
<1>4. CASE LoginResponds
  BY <1>0, <1>4 DEF LoginResponds, LoginAccepted, Decodes, Taken, CallSend,
     TypeOK
<1>5. CASE HandleQuery
  BY <1>0, <1>5 DEF HandleQuery, Decodes, Taken, CallSend, TypeOK, keyVars
<1>6. CASE LoginKey \/ Logout \/ Answered
  BY <1>0, <1>6 DEF LoginKey, Logout, Answered, Decodes, Taken, RunSends,
     keyVars, sendVars
<1>7. CASE StoreKey
  BY <1>0, <1>7 DEF StoreKey, RunSends, sendVars, TypeOK
<1>8. CASE RunEnds \/ OtherClose
  BY <1>0, <1>8 DEF RunEnds, OtherClose, RunSends, keyVars, sendVars
<1>9. CASE Vehicle \/ UNCHANGED vars
  BY <1>9 DEF Vehicle, VehicleLogin, VehicleLogout, VehicleSends,
     VehicleReceives, VehicleMisses, VehicleGivesUp, vars, keyVars, sendVars
<1> QED
  BY <1>1, <1>2, <1>3, <1>4, <1>5, <1>6, <1>7, <1>8, <1>9
     DEF Next, HandlePacket

\* Taking a packet off the stream.
LEMMA TakenUp ==
  ASSUME TypeOK, NEW cmd, Taken(cmd)
  PROVE  /\ Len(up) \in Nat /\ Len(up) >= 1 /\ Len(up') = Len(up) - 1
         /\ up[1] = Head(up) /\ up[1].cmd = cmd
         /\ \A i \in 1..(Len(up) - 1) : up'[i] = up[i + 1]
         /\ runPc = "ready"
<1>1. up \in Seq(Packets) /\ up # <<>> /\ up' = Tail(up)
  BY DEF TypeOK, Taken
<1>2. /\ Len(up') = Len(up) - 1 /\ Len(up) >= 1 /\ Len(up) \in Nat
      /\ \A i \in 1..(Len(up) - 1) : up'[i] = up[i + 1]
  BY <1>1, HeadTailProperties, LenProperties, EmptySeq
<1>3. up[1] = Head(up)
  BY <1>1
<1> QED
  BY <1>2, <1>3 DEF Taken

\* Sending one.
LEMMA TransmitUp ==
  ASSUME TypeOK, NEW p \in Packets, Transmit(p)
  PROVE  /\ Len(up) \in Nat /\ Len(up') = Len(up) + 1
         /\ \A i \in 1..Len(up) : up'[i] = up[i]
         /\ up'[Len(up) + 1] = p
BY AppendProperties, LenProperties DEF TypeOK, Transmit

---------------------------------------------------------------------------
(* Every action preserves Sync.                                            *)

\* A step that moves nothing between the ends and keeps the key in force.
LEMMA SyncStays ==
  ASSUME Sync, UNCHANGED <<up, down, vKey, awaiting, garbled>>,
         NextKey' = NextKey, Responding' => Responding
  PROVE  Sync'
<1>1. LoginFrames' = LoginFrames /\ (LogoutSent' <=> LogoutSent)
  BY DEF LoginFrames, LogoutSent
<1> QED
  BY <1>1 DEF Sync, LoginIsLast, OneResponse, KeysMeet, Readable

\* While a packet is on its way to run no login response is on its way to the
\* vehicle, so that the keys are equal or about to be.
LEMMA NoResponse ==
  ASSUME Sync, Len(up) # 0
  PROVE  /\ LoginFrames = {} /\ ~Responding
         /\ vKey = IF LogoutSent THEN NoKey ELSE NextKey
BY DEF Sync, OneResponse, KeysMeet

\* run takes a packet that does not end the encryption.
LEMMA SyncTaken ==
  ASSUME TypeOK, Sync, NEW cmd, Taken(cmd), cmd # "logout",
         UNCHANGED <<down, vKey, awaiting, garbled>>,
         NextKey' = NextKey, Responding' => cmd = "login"
  PROVE  Sync'
<1>1. /\ Len(up) \in Nat /\ Len(up) >= 1 /\ Len(up') = Len(up) - 1
      /\ up[1].cmd = cmd
      /\ \A i \in 1..(Len(up) - 1) : up'[i] = up[i + 1]
  BY TakenUp
<1>2. LoginFrames = {} /\ LoginFrames' = {}
      /\ vKey = IF LogoutSent THEN NoKey ELSE NextKey
  BY <1>1, NoResponse DEF LoginFrames
<1>3. LogoutSent' <=> LogoutSent
  <2>1. ASSUME NEW j \in 1..Len(up'), up'[j].cmd = "logout" PROVE LogoutSent
    <3>1. j + 1 \in 1..Len(up) /\ up'[j] = up[j + 1]
      BY <1>1
    <3> QED
      BY <2>1, <3>1 DEF LogoutSent
  <2>2. ASSUME NEW j \in 1..Len(up), up[j].cmd = "logout" PROVE LogoutSent'
    <3>1. j # 1
      BY <1>1, <2>2
    <3>2. j - 1 \in 1..(Len(up) - 1) /\ (j - 1) + 1 = j
      BY <1>1, <3>1
    <3>3. up'[j - 1] = up[(j - 1) + 1]
      BY <1>1, <3>2
    <3>4. up'[j - 1].cmd = "logout"
      BY <2>2, <3>2, <3>3
    <3>5. j - 1 \in 1..Len(up')
      BY <1>1, <3>2
    <3> QED
      BY <3>4, <3>5 DEF LogoutSent
  <2> QED
    BY <2>1, <2>2 DEF LogoutSent
<1>4. ASSUME NEW i \in 1..Len(up')
      PROVE  i + 1 \in 1..Len(up) /\ up'[i] = up[i + 1]
  BY <1>1
<1>5. LoginIsLast'
  <2> SUFFICES ASSUME NEW i \in 1..Len(up'), up'[i].cmd = "login"
               PROVE  awaiting' /\ i = Len(up')
    BY DEF LoginIsLast
  <2>1. awaiting /\ i + 1 = Len(up)
    BY <1>4 DEF Sync, LoginIsLast
  <2> QED
    BY <1>1, <2>1
<1>6. OneResponse'
  <2>1. ASSUME Responding' PROVE awaiting' /\ Len(up') = 0
    <3>1. 1 \in 1..Len(up) /\ up[1].cmd = "login"
      BY <1>1, <2>1
    <3>2. awaiting /\ 1 = Len(up)
      BY <3>1 DEF Sync, LoginIsLast
    <3>3. Len(up) = 1
      BY <3>2
    <3>4. Len(up') = 0
      BY <1>1, <3>3
    <3>5. awaiting'
      BY <3>2
    <3> QED
      BY <3>4, <3>5
  <2> QED
    BY <1>2, <2>1 DEF OneResponse
<1>7. KeysMeet'
  BY <1>2, <1>3 DEF KeysMeet
<1>8. Readable'
  <2> SUFFICES ASSUME NEW i \in 1..Len(up'), up'[i].key # NoKey
               PROVE  /\ up'[i].key = NextKey
                      /\ \A j \in 1..(i - 1) : up'[j].cmd # "logout"
    BY DEF Readable
  <2>1. /\ up[i + 1].key = NextKey
        /\ \A j \in 1..((i + 1) - 1) : up[j].cmd # "logout"
    BY <1>4 DEF Sync, Readable
  <2>2. ASSUME NEW j \in 1..(i - 1) PROVE up'[j].cmd # "logout"
    <3>1. j \in 1..Len(up') /\ j + 1 \in 1..((i + 1) - 1)
      BY <1>1
    <3> QED
      BY <1>4, <2>1, <3>1
  <2> QED
    BY <1>4, <2>1, <2>2
<1> QED
  BY <1>5, <1>6, <1>7, <1>8 DEF Sync

\* run takes a logout: the packets behind it are not encrypted.
LEMMA SyncLogout ==
  ASSUME TypeOK, Sync, Taken("logout"),
         UNCHANGED <<down, vKey, awaiting, garbled>>,
         NextKey' = NoKey, ~Responding'
  PROVE  Sync'
<1>1. /\ Len(up) \in Nat /\ Len(up) >= 1 /\ Len(up') = Len(up) - 1
      /\ up[1].cmd = "logout"
      /\ \A i \in 1..(Len(up) - 1) : up'[i] = up[i + 1]
  BY TakenUp
<1>2. LogoutSent
  BY <1>1 DEF LogoutSent
<1>3. LoginFrames' = {} /\ vKey' = NoKey
  BY <1>1, <1>2, NoResponse DEF LoginFrames
<1>4. ASSUME NEW i \in 1..Len(up')
      PROVE  i + 1 \in 1..Len(up) /\ up'[i] = up[i + 1]
  BY <1>1
<1>5. LoginIsLast'
  <2> SUFFICES ASSUME NEW i \in 1..Len(up'), up'[i].cmd = "login"
               PROVE  awaiting' /\ i = Len(up')
    BY DEF LoginIsLast
  <2>1. awaiting /\ i + 1 = Len(up)
    BY <1>4 DEF Sync, LoginIsLast
  <2> QED
    BY <1>1, <2>1
<1>6. Readable'
  <2> SUFFICES ASSUME NEW i \in 1..Len(up'), up'[i].key # NoKey PROVE FALSE
    BY DEF Readable
  <2>1. \A j \in 1..((i + 1) - 1) : up[j].cmd # "logout"
    BY <1>4 DEF Sync, Readable
  <2>2. 1 \in 1..((i + 1) - 1)
    BY <1>1
  <2> QED
    BY <1>1, <2>1, <2>2
<1>7. OneResponse' /\ KeysMeet'
  BY <1>3 DEF OneResponse, KeysMeet
<1> QED
  BY <1>5, <1>6, <1>7 DEF Sync

\* What is read was sent by the vehicle: run has the key of the first packet.
LEMMA HeadIsClear ==
  ASSUME TypeOK, Sync, NEW cmd, Taken(cmd)
  PROVE  Clear(Head(up)) /\ ~Responding /\ NextKey = encryptKey
<1>1. Len(up) \in Nat /\ Len(up) >= 1 /\ up[1] = Head(up) /\ runPc = "ready"
  BY TakenUp
<1>2. ~Responding /\ NextKey = encryptKey
  BY <1>1 DEF Responding, NextKey
<1>3. 1 \in 1..Len(up)
  BY <1>1
<1>4. up[1].key # NoKey => up[1].key = NextKey
  BY <1>3 DEF Sync, Readable
<1> QED
  BY <1>1, <1>2, <1>4 DEF Clear

LEMMA DecodedClear ==
  ASSUME TypeOK, Sync, NEW cmd, Decodes(cmd)
  PROVE  Taken(cmd) /\ garbled' = garbled
<1>1. Taken(cmd) /\ garbled' = (garbled \/ ~Clear(Head(up)))
  BY DEF Decodes
<1>2. Clear(Head(up))
  BY <1>1, HeadIsClear
<1> QED
  BY <1>1, <1>2 DEF TypeOK

LEMMA SyncPacket ==
  ASSUME TypeOK, Sync,
         DropPacket \/ LoginRefused \/ LoginSilent \/ LoginResponds \/ Logout
           \/ HandleData \/ HandleQuery
  PROVE  Sync'
<1> USE DEF vehicleVars, history
<1>1. CASE DropPacket
  <2>1. PICK cmd \in Commands \ {"beat"} : Taken(cmd)
    BY <1>1 DEF DropPacket
  <2>2. cmd # "logout"
    BY <1>1, <2>1, HeadIsClear DEF DropPacket, Taken
  <2>3. UNCHANGED <<down, vKey, awaiting, garbled>>
    BY <1>1 DEF DropPacket
  <2>4. NextKey' = NextKey /\ ~Responding'
    BY <1>1, <2>1, HeadIsClear
       DEF DropPacket, NextKey, Responding, keyVars, sendVars
  <2> QED
    BY <2>1, <2>2, <2>3, <2>4, SyncTaken
<1>2. CASE LoginRefused
  <2>1. PICK cmd \in {"login", "bad"} : Taken(cmd)
    BY <1>2 DEF LoginRefused
  <2>2. UNCHANGED <<down, vKey, awaiting, garbled>>
    BY <1>2 DEF LoginRefused
  <2>3. NextKey' = NextKey /\ ~Responding'
    BY <1>2, <2>1, HeadIsClear
       DEF LoginRefused, NextKey, Responding, keyVars, sendVars
  <2> QED
    BY <2>1, <2>2, <2>3, SyncTaken
<1>3. CASE LoginSilent
  <2>1. Taken("login") /\ garbled' = garbled
    BY <1>3, DecodedClear DEF LoginSilent, LoginAccepted
  <2>2. UNCHANGED <<down, vKey, awaiting>>
    BY <1>3 DEF LoginSilent, LoginAccepted
  <2>3. NextKey' = NextKey
    BY <1>3 DEF LoginSilent, LoginAccepted, NextKey, Responding
  <2> QED
    BY <2>1, <2>2, <2>3, SyncTaken
<1>4. CASE LoginResponds
  <2>1. Taken("login") /\ garbled' = garbled
    BY <1>4, DecodedClear DEF LoginResponds, LoginAccepted
  <2>2. UNCHANGED <<down, vKey, awaiting>>
    BY <1>4 DEF LoginResponds, LoginAccepted
  <2>3. NextKey' = NextKey
    <3>1. Run \in Senders
      BY DEF Senders
    <3>2. sendPc'[Run] = "lock" /\ runPc' = "response" /\ encryptKey' = encryptKey
      BY <1>4, <3>1 DEF LoginResponds, LoginAccepted, CallSend, TypeOK
    <3> QED
      BY <2>1, <3>2, HeadIsClear DEF NextKey, Responding
  <2> QED
    BY <2>1, <2>2, <2>3, SyncTaken
<1>5. CASE Logout
  <2>1. Taken("logout") /\ garbled' = garbled
    BY <1>5, DecodedClear DEF Logout
  <2>2. UNCHANGED <<down, vKey, awaiting>>
    BY <1>5 DEF Logout
  <2>3. NextKey' = NoKey /\ ~Responding'
    BY <1>5 DEF Logout, NextKey, Responding
  <2> QED
    BY <2>1, <2>2, <2>3, SyncLogout
<1>6. CASE HandleData
  <2>1. Taken("data") /\ garbled' = garbled
    BY <1>6, DecodedClear DEF HandleData
  <2>2. UNCHANGED <<down, vKey, awaiting>>
    BY <1>6 DEF HandleData
  <2>3. NextKey' = NextKey /\ ~Responding'
    BY <1>6, <2>1, HeadIsClear
       DEF HandleData, NextKey, Responding, keyVars, sendVars
  <2> QED
    BY <2>1, <2>2, <2>3, SyncTaken
<1>7. CASE HandleQuery
  <2>1. PICK cmd \in {"query", "beat"} : Taken(cmd) /\ garbled' = garbled
    BY <1>7, DecodedClear DEF HandleQuery
  <2>2. UNCHANGED <<down, vKey, awaiting>>
    BY <1>7 DEF HandleQuery
  <2>3. NextKey' = NextKey /\ ~Responding'
    BY <1>7, <2>1, HeadIsClear DEF HandleQuery, NextKey, Responding, keyVars
  <2> QED
    BY <2>1, <2>2, <2>3, SyncTaken
<1> QED
  BY <1>1, <1>2, <1>3, <1>4, <1>5, <1>6, <1>7

\* The other steps of run, and of Close.
LEMMA SyncRun ==
  ASSUME IInv, ResponseInv, Sync,
         \/ LoginKey \/ StoreKey \/ Answered \/ RunEnds
         \/ OtherClose \/ UNCHANGED vars \/ (\E t \in Others : OtherSend(t))
  PROVE  Sync'
<1> USE DEF keyVars, sendVars, vehicleVars, history
<1>1. UNCHANGED <<up, down, vKey, awaiting, garbled>>
  BY DEF LoginKey, StoreKey, Answered, RunEnds,
     OtherClose, OtherSend, vars
<1>2. CASE LoginKey
  BY <1>1, <1>2, SyncStays DEF LoginKey, NextKey, Responding
<1>3. CASE StoreKey
  BY <1>1, <1>3, SyncStays DEF StoreKey, NextKey, Responding
<1>5. CASE Answered \/ RunEnds
  BY <1>1, <1>5, SyncStays DEF Answered, RunEnds, NextKey, Responding
<1>6. CASE OtherClose \/ UNCHANGED vars
  BY <1>1, <1>6, SyncStays DEF OtherClose, vars, NextKey, Responding
<1>7. ASSUME NEW t \in Others, OtherSend(t) PROVE Sync'
  <2>1. UNCHANGED <<encryptKey, newKey, runPc>>
    BY <1>7 DEF OtherSend
  <2>2. sendPc'[Run] = sendPc[Run]
    BY <1>7, SendersAssumption DEF OtherSend, CallSend, IInv, TypeOK, Senders
  <2> QED
    BY <1>1, <2>1, <2>2, SyncStays DEF NextKey, Responding
<1> QED
  BY <1>2, <1>3, <1>5, <1>6, <1>7

\* A frame that is no login response is written.
LEMMA SyncFrame ==
  ASSUME TypeOK, Sync, NEW f \in Frames, down' = Append(down, f),
         f.cmd # "login", UNCHANGED <<up, vKey, awaiting, garbled>>,
         NextKey' = NextKey, Responding' => Responding
  PROVE  Sync'
<1>1. Len(down) \in Nat
  BY FramesIn
<1>2. /\ Len(down') = Len(down) + 1
      /\ \A i \in 1..Len(down) : down'[i] = down[i]
      /\ down'[Len(down) + 1] = f
  BY AppendedDown
<1>3. ASSUME NEW i \in LoginFrames' PROVE i \in LoginFrames /\ down'[i] = down[i]
  <2>1. i \in 1..(Len(down) + 1) /\ down'[i].cmd = "login"
    BY <1>2 DEF LoginFrames
  <2>2. i # Len(down) + 1
    BY <1>2, <2>1
  <2>3. i \in 1..Len(down)
    BY <1>1, <2>1, <2>2
  <2> QED
    BY <1>2, <2>1, <2>3 DEF LoginFrames
<1>4. ASSUME NEW i \in LoginFrames PROVE i \in LoginFrames'
  <2>1. i \in 1..Len(down') /\ down'[i] = down[i]
    BY <1>1, <1>2 DEF LoginFrames
  <2> QED
    BY <2>1 DEF LoginFrames
<1>5. LoginFrames' = LoginFrames
  BY <1>3, <1>4
<1>6. LogoutSent' <=> LogoutSent
  BY DEF LogoutSent
<1>7. KeysMeet'
  BY <1>3, <1>5, <1>6 DEF Sync, KeysMeet
<1> QED
  BY <1>5, <1>7 DEF Sync, LoginIsLast, OneResponse, Readable

\* The login response is written: the vehicle waits for it and will read it.
LEMMA SyncResponse ==
  ASSUME IInv, ResponseInv, Sync, Responding,
         down' = Append(down, outgoing[Run]),
         UNCHANGED <<up, vKey, awaiting, garbled, encryptKey, newKey, runPc>>,
         sendPc'[Run] = "none"
  PROVE  Sync'
<1>1. TypeOK /\ Run \in Senders /\ outgoing[Run].token = newKey
  BY DEF IInv, Senders, KeysAnnounced, Responding
<1>2. Len(down) \in Nat
  BY <1>1, FramesIn
<1>3. /\ Len(down') = Len(down) + 1
      /\ \A i \in 1..Len(down) : down'[i] = down[i]
      /\ down'[Len(down) + 1] = outgoing[Run]
  <2>1. outgoing[Run] \in Frames
    BY <1>1 DEF TypeOK
  <2> QED
    BY <1>1, <2>1, AppendedDown
<1>4. awaiting /\ Len(up) = 0 /\ LoginFrames = {}
  BY DEF Sync, OneResponse
<1>5. ~LogoutSent /\ ~LogoutSent'
  BY <1>4 DEF LogoutSent
<1>6. vKey = encryptKey
  BY <1>4, <1>5 DEF Sync, KeysMeet, NextKey, Responding
<1>7. ~Responding' /\ NextKey' = IF newKey # NoKey THEN newKey ELSE encryptKey
  BY DEF Responding, NextKey
<1>8. ASSUME NEW i \in LoginFrames' PROVE i = Len(down) + 1
  <2>1. i \in 1..(Len(down) + 1) /\ down'[i].cmd = "login"
    BY <1>3 DEF LoginFrames
  <2>2. i \notin 1..Len(down)
    BY <1>3, <1>4, <2>1 DEF LoginFrames
  <2> QED
    BY <1>2, <2>1, <2>2
<1>9. Len(down) + 1 \in LoginFrames'
  <2>1. Len(down) + 1 \in 1..Len(down')
    BY <1>2, <1>3
  <2> QED
    BY <1>3, <2>1 DEF LoginFrames, ResponseInv
<1>10. OneResponse'
  BY <1>4, <1>7, <1>8 DEF OneResponse
<1>11. KeysMeet'
  <2>1. outgoing[Run].key \in {NoKey, vKey}
    BY <1>6 DEF ResponseInv
  <2>2. newKey # NoKey => NextKey' = newKey
    BY <1>7
  <2>3. newKey = NoKey => vKey' = NextKey'
    BY <1>6, <1>7
  <2> QED
    BY <1>1, <1>3, <1>5, <1>8, <1>9, <2>1, <2>2, <2>3 DEF KeysMeet
<1>12. LoginIsLast' /\ Readable'
  BY <1>4 DEF LoginIsLast, Readable
<1> QED
  BY <1>10, <1>11, <1>12 DEF Sync

LEMMA SyncSend ==
  ASSUME IInv, ResponseInv, Sync, Good', NEW t \in Senders, SendStep(t)
  PROVE  Sync'
<1> USE DEF keyVars, vehicleVars, history
<1>1. TypeOK /\ Run \in Senders
  BY DEF IInv, Senders
<1>2. UNCHANGED <<encryptKey, newKey, runPc, up, vKey, awaiting, garbled>>
  BY DEF SendStep, SendLock, SendKey, SendTooShort, SendCrash, SendEncrypt,
         SendCut, SendWrite, SendWriteFails
<1>3. CASE SendWrite(t)
  <2>1. /\ down' = Append(down, outgoing[t]) /\ sendPc[t] # "none"
        /\ sendPc' = [sendPc EXCEPT ![t] = "none"]
    BY <1>3 DEF SendWrite
  <2>2. sendPc'[t] = "none" /\ (t # Run => sendPc'[Run] = sendPc[Run])
    BY <1>1, <2>1 DEF TypeOK
  <2>3. CASE outgoing[t].cmd = "login"
    <3>1. t = Run /\ Responding
      BY <2>1, <2>3 DEF ResponseInv, Responding
    <3> QED
      BY <1>2, <2>1, <2>2, <3>1, SyncResponse
  <2>4. CASE outgoing[t].cmd # "login"
    <3>1. t = Run => runPc # "response"
      BY <2>1, <2>4 DEF ResponseInv, Responding
    <3>2. NextKey' = NextKey /\ Responding' = Responding
      BY <1>2, <2>2, <3>1 DEF NextKey, Responding
    <3>3. outgoing[t] \in Frames
      BY <1>1 DEF TypeOK
    <3> QED
      BY <1>1, <1>2, <2>1, <2>4, <3>2, <3>3, SyncFrame
  <2> QED
    BY <2>3, <2>4
<1>4. CASE ~SendWrite(t)
  <2>1. down' = down \/ down' = Append(down, Part)
    BY <1>1, <1>4, SendDown
  <2>2. sendPc[t] # "none" /\ \A u \in Senders \ {t} : sendPc'[u] = sendPc[u]
    BY <1>1, <1>4 DEF SendStep, SendLock, SendKey, SendTooShort, SendCrash,
                      SendEncrypt, SendCut, SendWriteFails, SendFails, TypeOK
  <2>3. sendPc'[t] = "none" => SendFails(t)
    BY <1>1, <1>4 DEF SendStep, SendLock, SendKey, SendTooShort, SendCrash,
                      SendEncrypt, SendCut, SendWriteFails, TypeOK
  <2>4. Responding' => Responding
    BY <1>1, <1>2, <2>2 DEF Responding
  <2>5. ASSUME Responding, ~Responding' PROVE newKey = NoKey
    <3>1. t = Run /\ SendFails(t)
      BY <1>1, <1>2, <2>2, <2>3, <2>5 DEF Responding
    <3>2. outgoing[t].token = newKey
      BY <2>5, <3>1 DEF IInv, KeysAnnounced, Responding
    <3> QED
      BY <3>1, <3>2 DEF SendFails, Good
  <2>6. NextKey' = NextKey
    BY <1>2, <2>4, <2>5 DEF NextKey, Responding
  <2>7. CASE down' = down
    BY <1>2, <2>4, <2>6, <2>7, SyncStays
  <2>8. CASE down' = Append(down, Part)
    BY <1>1, <1>2, <2>4, <2>6, <2>8, PartIsFrame, SyncFrame DEF Part
  <2> QED
    BY <2>1, <2>7, <2>8
<1> QED
  BY <1>3, <1>4

\* The vehicle sends a packet: it waits for no answer, so that it has the key
\* run will read the packet with, or none.
LEMMA SyncTransmit ==
  ASSUME TypeOK, Sync, ~awaiting, NEW p \in Packets, Transmit(p),
         p.key \in {NoKey, vKey}, UNCHANGED <<down, garbled>>,
         p.cmd = "login" => awaiting',
         vKey' = IF p.cmd = "logout" THEN NoKey ELSE vKey,
         NextKey' = NextKey, Responding' = Responding
  PROVE  Sync'
<1>1. /\ Len(up) \in Nat /\ Len(up') = Len(up) + 1
      /\ \A i \in 1..Len(up) : up'[i] = up[i]
      /\ up'[Len(up) + 1] = p
  BY TransmitUp
<1>2. LoginFrames = {} /\ LoginFrames' = {} /\ ~Responding /\ ~Responding'
  BY DEF Sync, OneResponse, LoginFrames
<1>3. vKey = IF LogoutSent THEN NoKey ELSE NextKey
  BY <1>2 DEF Sync, KeysMeet
<1>4. ASSUME NEW i \in 1..Len(up')
      PROVE  (i \in 1..Len(up) /\ up'[i] = up[i]) \/ (i = Len(up') /\ up'[i] = p)
  BY <1>1
<1>5. LoginIsLast'
  <2> SUFFICES ASSUME NEW i \in 1..Len(up'), up'[i].cmd = "login"
               PROVE  awaiting' /\ i = Len(up')
    BY DEF LoginIsLast
  <2>1. ~(i \in 1..Len(up) /\ up'[i] = up[i])
    BY DEF Sync, LoginIsLast
  <2> QED
    BY <1>4, <2>1
<1>6. LogoutSent' <=> LogoutSent \/ p.cmd = "logout"
  <2>1. LogoutSent' => LogoutSent \/ p.cmd = "logout"
    BY <1>4 DEF LogoutSent
  <2>2. ASSUME NEW j \in 1..Len(up), up[j].cmd = "logout" PROVE LogoutSent'
    <3>1. j \in 1..Len(up') /\ up'[j] = up[j]
      BY <1>1
    <3> QED
      BY <2>2, <3>1 DEF LogoutSent
  <2>3. ASSUME p.cmd = "logout" PROVE LogoutSent'
    <3>1. Len(up) + 1 \in 1..Len(up')
      BY <1>1
    <3> QED
      BY <1>1, <2>3, <3>1 DEF LogoutSent
  <2> QED
    BY <2>1, <2>2, <2>3 DEF LogoutSent
<1>7. KeysMeet'
  BY <1>2, <1>3, <1>6 DEF KeysMeet
<1>8. Readable'
  <2> SUFFICES ASSUME NEW i \in 1..Len(up'), up'[i].key # NoKey
               PROVE  /\ up'[i].key = NextKey
                      /\ \A j \in 1..(i - 1) : up'[j].cmd # "logout"
    BY DEF Readable
  <2>1. ASSUME NEW j \in 1..(i - 1) PROVE j \in 1..Len(up) /\ up'[j] = up[j]
    <3>1. j \in 1..Len(up)
      BY <1>1
    <3> QED
      BY <1>1, <3>1
  <2>2. CASE i \in 1..Len(up) /\ up'[i] = up[i]
    <3>1. up[i].key = NextKey /\ \A j \in 1..(i - 1) : up[j].cmd # "logout"
      BY <2>2 DEF Sync, Readable
    <3> QED
      BY <2>1, <2>2, <3>1
  <2>3. CASE up'[i] = p
    <3>1. p.key = NextKey /\ ~LogoutSent
      BY <1>3, <2>3
    <3> QED
      BY <2>1, <2>3, <3>1 DEF LogoutSent
  <2> QED
    BY <1>4, <2>2, <2>3
<1>9. OneResponse'
  BY <1>2 DEF OneResponse
<1> QED
  BY <1>5, <1>7, <1>8, <1>9 DEF Sync

\* A frame leaves the network that tells the vehicle nothing of a key.
LEMMA SyncGone ==
  ASSUME TypeOK, Sync, VehicleReceives \/ VehicleMisses,
         down[1].cmd = "login" => down[1].token = NoKey,
         UNCHANGED <<up, vKey, awaiting, garbled>>,
         NextKey' = NextKey, Responding' = Responding
  PROVE  Sync'
<1>1. /\ Len(down) \in Nat /\ Len(down) > 0 /\ Len(down') = Len(down) - 1
      /\ \A i \in 1..(Len(down) - 1) : down'[i] = down[i + 1]
  BY FramesIn, ReceivedDown
<1>2. LogoutSent' <=> LogoutSent
  BY DEF LogoutSent
<1>3. ASSUME NEW i \in LoginFrames'
      PROVE  i \in Nat /\ i + 1 \in LoginFrames /\ down'[i] = down[i + 1]
  <2>1. i \in 1..(Len(down) - 1) /\ down'[i].cmd = "login"
    BY <1>1 DEF LoginFrames
  <2>2. down'[i] = down[i + 1]
    BY <1>1, <2>1
  <2>3. i + 1 \in 1..Len(down)
    BY <1>1, <2>1
  <2> QED
    BY <2>1, <2>2, <2>3 DEF LoginFrames
<1>4. ASSUME NEW i \in LoginFrames, i # 1
      PROVE  i \in Nat /\ i - 1 \in LoginFrames' /\ down'[i - 1] = down[i]
  <2>1. i \in 1..Len(down) /\ down[i].cmd = "login"
    BY DEF LoginFrames
  <2>2. i - 1 \in 1..(Len(down) - 1) /\ (i - 1) + 1 = i
    BY <1>1, <1>4, <2>1
  <2>3. down'[i - 1] = down[(i - 1) + 1]
    BY <1>1, <2>2
  <2>4. i - 1 \in 1..Len(down')
    BY <1>1, <2>2
  <2> QED
    BY <2>1, <2>2, <2>3, <2>4 DEF LoginFrames
<1>5. OneResponse'
  <2>1. ASSUME Responding PROVE LoginFrames' = {}
    BY <1>3, <2>1 DEF Sync, OneResponse
  <2>2. ASSUME LoginFrames' # {} PROVE LoginFrames # {}
    BY <1>3, <2>2
  <2>3. ASSUME NEW i \in LoginFrames', NEW j \in LoginFrames' PROVE i = j
    <3>1. i \in Nat /\ j \in Nat /\ i + 1 \in LoginFrames
          /\ j + 1 \in LoginFrames
      BY <1>3
    <3>2. i + 1 = j + 1
      BY <3>1 DEF Sync, OneResponse
    <3> QED
      BY <3>1, <3>2
  <2> QED
    BY <2>1, <2>2, <2>3 DEF Sync, OneResponse
<1>6. KeysMeet'
  <2>1. ASSUME NEW i \in LoginFrames'
        PROVE  /\ down'[i].key \in {NoKey, vKey}
               /\ down'[i].token # NoKey => NextKey = down'[i].token
    <3>1. i + 1 \in LoginFrames /\ down'[i] = down[i + 1]
      BY <1>3
    <3> QED
      BY <3>1 DEF Sync, KeysMeet
  <2>2. ASSUME \A i \in LoginFrames' : down'[i].token = NoKey
        PROVE  \A i \in LoginFrames : down[i].token = NoKey
    <3> SUFFICES ASSUME NEW i \in LoginFrames PROVE down[i].token = NoKey
      OBVIOUS
    <3>1. CASE i = 1
      BY <3>1 DEF LoginFrames
    <3>2. CASE i # 1
      BY <1>4, <2>2, <3>2
    <3> QED
      BY <3>1, <3>2
  <2>3. (\A i \in LoginFrames' : down'[i].token = NoKey) =>
           vKey = IF LogoutSent THEN NoKey ELSE NextKey
    BY <2>2 DEF Sync, KeysMeet
  <2> QED
    BY <1>2, <2>1, <2>3 DEF KeysMeet
<1> QED
  BY <1>5, <1>6 DEF Sync, LoginIsLast, Readable

\* The vehicle reads a frame.
LEMMA SyncReceives ==
  ASSUME TypeOK, Sync, VehicleReceives
  PROVE  Sync'
<1> USE DEF keyVars, sendVars, history
<1>1. /\ Len(down) \in Nat /\ Len(down) > 0 /\ Len(down') = Len(down) - 1
      /\ \A i \in 1..(Len(down) - 1) : down'[i] = down[i + 1]
  BY FramesIn, ReceivedDown
<1>2. UNCHANGED <<up, garbled, encryptKey, newKey, runPc, sendPc>>
  BY DEF VehicleReceives
<1>3. NextKey' = NextKey /\ Responding' = Responding
  BY <1>2 DEF NextKey, Responding
<1>4. LogoutSent' <=> LogoutSent
  BY <1>2 DEF LogoutSent
<1>5. Head(down) = down[1]
  BY DEF TypeOK, VehicleReceives
<1>6. ASSUME NEW i \in LoginFrames'
      PROVE  i \in Nat /\ i + 1 \in LoginFrames /\ down'[i] = down[i + 1]
  <2>1. i \in 1..(Len(down) - 1) /\ down'[i].cmd = "login"
    BY <1>1 DEF LoginFrames
  <2>2. down'[i] = down[i + 1]
    BY <1>1, <2>1
  <2>3. i + 1 \in 1..Len(down)
    BY <1>1, <2>1
  <2> QED
    BY <2>1, <2>2, <2>3 DEF LoginFrames
<1>7. CASE down[1].cmd = "login"
  <2>1. 1 \in LoginFrames
    BY <1>1, <1>7 DEF LoginFrames
  <2>2. LoginFrames' = {}
    <3> SUFFICES ASSUME NEW i \in LoginFrames' PROVE FALSE
      OBVIOUS
    <3>1. i + 1 = 1 /\ i \in Nat
      BY <1>6, <2>1 DEF Sync, OneResponse
    <3>2. i \in 1..Len(down')
      BY DEF LoginFrames
    <3> QED
      BY <3>1, <3>2
  <2>3. Len(up) = 0 /\ ~Responding
    BY <2>1 DEF Sync, OneResponse
  <2>4. down[1].key \in {NoKey, vKey}
    BY <2>1 DEF Sync, KeysMeet
  <2>5. vKey' = IF down[1].token # NoKey THEN down[1].token ELSE vKey
    BY <1>5, <1>7, <2>4 DEF VehicleReceives
  <2>6. vKey' = NextKey
    <3>1. CASE down[1].token # NoKey
      BY <2>1, <2>5, <3>1 DEF Sync, KeysMeet
    <3>2. CASE down[1].token = NoKey
      <4>1. \A i \in LoginFrames : down[i].token = NoKey
        BY <2>1, <3>2 DEF Sync, OneResponse
      <4>2. ~LogoutSent
        BY <2>3 DEF LogoutSent
      <4> QED
        BY <2>5, <3>2, <4>1, <4>2 DEF Sync, KeysMeet
    <3> QED
      BY <3>1, <3>2
  <2>7. ~LogoutSent'
    BY <1>4, <2>3 DEF LogoutSent
  <2>8. OneResponse' /\ KeysMeet'
    BY <1>3, <2>2, <2>3, <2>6, <2>7 DEF OneResponse, KeysMeet
  <2>9. LoginIsLast' /\ Readable'
    BY <1>2, <2>3 DEF LoginIsLast, Readable
  <2> QED
    BY <1>2, <2>8, <2>9 DEF Sync
<1>8. CASE down[1].cmd # "login"
  <2>1. vKey' = vKey
    BY <1>5, <1>8 DEF VehicleReceives
  <2>2. awaiting' = awaiting
    BY <1>5, <1>8 DEF VehicleReceives, TypeOK
  <2> QED
    BY <1>2, <1>3, <1>8, <2>1, <2>2, SyncGone
<1> QED
  BY <1>7, <1>8

LEMMA SyncVehicle ==
  ASSUME TypeOK, Sync, Good', Vehicle
  PROVE  Sync'
<1> USE DEF keyVars, sendVars, history
<1>1. vKey \in Keys /\ NoKey \in Keys
  BY DEF TypeOK, Keys
<1>2. CASE VehicleLogin
  <2> DEFINE p == [cmd |-> "login", key |-> vKey]
  <2>1. p \in Packets /\ Transmit(p) /\ ~awaiting /\ awaiting'
    BY <1>1, <1>2, Packet DEF VehicleLogin, Commands
  <2>2. UNCHANGED <<down, garbled, vKey>>
    BY <1>2 DEF VehicleLogin
  <2>3. NextKey' = NextKey /\ Responding' = Responding
    BY <1>2 DEF VehicleLogin, NextKey, Responding
  <2> QED
    BY <2>1, <2>2, <2>3, SyncTransmit
<1>3. CASE VehicleLogout
  <2> DEFINE p == [cmd |-> "logout", key |-> vKey]
  <2>1. p \in Packets /\ Transmit(p) /\ ~awaiting
    BY <1>1, <1>3, Packet DEF VehicleLogout, Commands
  <2>2. UNCHANGED <<down, garbled>> /\ vKey' = NoKey
    BY <1>3 DEF VehicleLogout
  <2>3. NextKey' = NextKey /\ Responding' = Responding
    BY <1>3 DEF VehicleLogout, NextKey, Responding
  <2> QED
    BY <2>1, <2>2, <2>3, SyncTransmit
<1>4. CASE VehicleSends
  <2>1. PICK p \in Packets : /\ Transmit(p) /\ p.key \in {NoKey, vKey}
                             /\ p.cmd \notin {"login", "logout"}
    <3>1. CASE \E cmd \in {"data", "query", "bad"} :
                 Transmit([cmd |-> cmd, key |-> vKey])
      <4>1. PICK cmd \in {"data", "query", "bad"} :
              Transmit([cmd |-> cmd, key |-> vKey])
        BY <3>1
      <4>2. [cmd |-> cmd, key |-> vKey] \in Packets
        BY <1>1, Packet DEF Commands
      <4> QED
        BY <4>1, <4>2
    <3>2. CASE Transmit([cmd |-> "beat", key |-> NoKey])
      <4>1. [cmd |-> "beat", key |-> NoKey] \in Packets
        BY <1>1, Packet DEF Commands
      <4> QED
        BY <3>2, <4>1
    <3> QED
      BY <1>4, <3>1, <3>2 DEF VehicleSends
  <2>2. UNCHANGED <<down, garbled, vKey>> /\ ~awaiting
    BY <1>4 DEF VehicleSends
  <2>3. NextKey' = NextKey /\ Responding' = Responding
    BY <1>4 DEF VehicleSends, NextKey, Responding
  <2> QED
    BY <2>1, <2>2, <2>3, SyncTransmit
<1>5. CASE VehicleReceives
  BY <1>5, SyncReceives
<1>6. CASE VehicleGivesUp
  <2>1. Quiet
    BY <1>6 DEF VehicleGivesUp, Good
  <2>2. UNCHANGED <<up, down, vKey, garbled, encryptKey, newKey, runPc, sendPc>>
    BY <1>6 DEF VehicleGivesUp
  <2>3. Len(up) = 0 /\ Len(down) = 0 /\ runPc = "ready"
    BY <2>1 DEF Quiet
  <2>4. NextKey' = NextKey /\ ~Responding'
    BY <2>2, <2>3 DEF NextKey, Responding
  <2>5. LoginFrames = {} /\ LoginFrames' = {} /\ ~LogoutSent /\ ~LogoutSent'
    BY <2>2, <2>3 DEF LoginFrames, LogoutSent
  <2>6. OneResponse' /\ KeysMeet'
    BY <2>2, <2>4, <2>5 DEF Sync, OneResponse, KeysMeet
  <2>7. LoginIsLast' /\ Readable'
    BY <2>2, <2>3 DEF LoginIsLast, Readable
  <2> QED
    BY <2>2, <2>6, <2>7 DEF Sync
<1>7. CASE VehicleMisses
  <2>1. down[1].token = NoKey
    <3>1. Head(down) = down[1]
      BY <1>7 DEF VehicleMisses, TypeOK
    <3>2. {Head(down).token} \ {NoKey} \subseteq lost' /\ lost' = {}
      BY <1>7 DEF VehicleMisses, Good
    <3> QED
      BY <3>1, <3>2
  <2>2. UNCHANGED <<up, vKey, awaiting, garbled, encryptKey, newKey, runPc, sendPc>>
    BY <1>7 DEF VehicleMisses, vehicleVars
  <2>3. NextKey' = NextKey /\ Responding' = Responding
    BY <2>2 DEF NextKey, Responding
  <2> QED
    BY <1>7, <2>1, <2>2, <2>3, SyncGone
<1> QED
  BY <1>2, <1>3, <1>4, <1>5, <1>6, <1>7 DEF Vehicle

LEMMA SyncInit == Init => SyncInv
<1> SUFFICES ASSUME Init PROVE SyncInv
  OBVIOUS
<1>1. Len(up) = 0 /\ Len(down) = 0
  BY DEF Init
<1>2. ResponseInv /\ ~Responding
  BY DEF Init, ResponseInv, Responding, Senders
<1>3. LoginFrames = {} /\ ~LogoutSent
  BY <1>1 DEF LoginFrames, LogoutSent
<1>4. vKey = NoKey /\ NextKey = NoKey /\ ~garbled
  BY <1>2 DEF Init, NextKey
<1>5. LoginIsLast /\ Readable
  BY <1>1 DEF LoginIsLast, Readable
<1>6. OneResponse /\ KeysMeet
  BY <1>2, <1>3, <1>4 DEF OneResponse, KeysMeet
<1> QED
  BY <1>2, <1>4, <1>5, <1>6 DEF SyncInv, Sync

LEMMA SyncInvariant == Spec => [](IInv /\ SyncInv)
<1>1. IInv /\ SyncInv /\ [Next]_vars => SyncInv'
  <2> SUFFICES ASSUME IInv, SyncInv, [Next]_vars PROVE SyncInv'
    OBVIOUS
  <2>1. ResponseInv' /\ ResponseInv /\ TypeOK
    BY ResponseStep DEF SyncInv, IInv
  <2>2. ASSUME Good' PROVE Sync'
    <3>1. Sync
      BY <2>2, GoodBefore DEF SyncInv
    <3>2. CASE HandlePacket
      BY <2>1, <3>1, <3>2, SyncPacket, SyncRun DEF HandlePacket
    <3>3. CASE \/ RunEnds \/ OtherClose \/ UNCHANGED vars
               \/ (\E t \in Others : OtherSend(t))
      BY <2>1, <3>1, <3>3, SyncRun
    <3>4. ASSUME NEW t \in Senders, SendStep(t) PROVE Sync'
      BY <2>1, <2>2, <3>1, <3>4, SyncSend
    <3>5. CASE Vehicle
      BY <2>1, <2>2, <3>1, <3>5, SyncVehicle
    <3> QED
      BY <3>2, <3>3, <3>4, <3>5 DEF Next
  <2> QED
    BY <2>1, <2>2 DEF SyncInv
<1> QED
  BY <1>1, SyncInit, Invariant, PTL DEF Spec

---------------------------------------------------------------------------
(* Theorems.                                                               *)

\* Every variable keeps its type.
THEOREM TypeCorrect == Spec => []TypeOK
<1>1. IInv => TypeOK
  BY DEF IInv
<1> QED
  BY <1>1, Invariant, PTL

\* writeMu is held by exactly the goroutine that is inside Send, on every path
\* through it.
THEOREM OneWriterAtATime == Spec => []OneWriter
<1>1. IInv => OneWriter
  BY DEF IInv
<1> QED
  BY <1>1, Invariant, PTL

\* A Send that loads a torn key crashes the process only while a first key is
\* stored or a logout clears the key, and never in the connection's own
\* goroutine: replacing one key by another is harmless.
THEOREM CrashesOnlyAtEdges == Spec => []CrashOnlyAtEdges
<1>1. IInv => CrashOnlyAtEdges
  BY DEF IInv
<1> QED
  BY <1>1, Invariant, PTL

\* A frame under a key comes behind the login response that announces the key,
\* or that response was lost, although encryptKey is read without a lock.
THEOREM KeyIsNeverAhead == Spec => []KeyNeverAhead
<1>1. IInv => KeyNeverAhead
  BY DEF IInv
<1> QED
  BY <1>1, Invariant, PTL

\* The server reads every body as the vehicle sent it, across logins, logouts
\* and repeated logins with and without a token, unless a response with a
\* token was lost or the vehicle gave up on an answer that was still to come.
THEOREM NothingIsGarbled == Spec => []NothingGarbled
<1>1. SyncInv => NothingGarbled
  BY DEF SyncInv, Sync, Good, NothingGarbled
<1> QED
  BY <1>1, SyncInvariant, PTL

\* When nothing is under way both ends hold the same key, with the same
\* exceptions.
THEOREM BothEndsAgree == Spec => []KeysAgree
<1>1. ASSUME SyncInv, Quiet, Good PROVE vKey = encryptKey
  <2>1. Len(up) = 0 /\ Len(down) = 0 /\ runPc = "ready"
    BY <1>1 DEF Quiet
  <2>2. LoginFrames = {} /\ ~LogoutSent /\ NextKey = encryptKey
    BY <2>1 DEF LoginFrames, LogoutSent, NextKey
  <2> QED
    BY <1>1, <2>2 DEF SyncInv, Sync, KeysMeet
<1>2. SyncInv => KeysAgree
  BY <1>1 DEF KeysAgree, Good
<1> QED
  BY <1>2, SyncInvariant, PTL
============================================================================
