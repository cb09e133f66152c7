-------------------------- MODULE ServerTableProofs --------------------------
(***************************************************************************)
(* Server implements ConnTable, for every set of connections, VINs and     *)
(* applications and every value of maxConns.                               *)
(***************************************************************************)
EXTENDS ServerTable, ServerProofs

USE DEF connVars, tableVars, accVars, runVars, stopVars, idleVars, closeVars,
        history

\* A Close that is past CloseShut has closed the socket.
ShutFirst ==
  \A t \in Threads :
    closePc[t] \in {"delete", "dec", "remove"} => target[t] \in shut

\* Every step keeps ShutFirst: sockets are never opened again, and a Close
\* keeps its target until it ends.
LEMMA ShutFirstStep == TypeOK /\ ShutFirst /\ [Next]_vars => ShutFirst'
<1> SUFFICES ASSUME TypeOK, ShutFirst, [Next]_vars PROVE ShutFirst'
  OBVIOUS
<1>1. ASSUME UNCHANGED closeVars, shut \subseteq shut' PROVE ShutFirst'
  BY <1>1 DEF ShutFirst
<1>2. ASSUME NEW t \in Threads, NEW c \in Conns, closePc[t] = "none",
             CallClose(t, c), UNCHANGED shut
      PROVE  ShutFirst'
  BY <1>2 DEF CallClose, ShutFirst, TypeOK
<1>3. CASE Start \/ StopCancel \/ IdleExit \/ UNCHANGED vars
  BY <1>1, <1>3 DEF Start, StartListen, StartIdle, StartFails, AcceptFails, RefuseConn,
     AdmitConn, StoreConn, CountConn, SpawnRun, StopCancel, IdleExit, vars
<1>4. CASE Stop
  <2>1. ASSUME NEW c \in Conns, StopRangeVisit(c) PROVE ShutFirst'
    BY <1>2, <2>1 DEF StopRangeVisit, Threads
  <2> QED
    BY <1>1, <1>4, <2>1 DEF Stop, StopListener, StopRangeBegin, StopRangeEnd,
       StopWait, StopWoken, StopForwarders, RangeSkip
<1>5. CASE IdleLoop
  <2>1. ASSUME NEW c \in Conns, IdleProbeFails(c) PROVE ShutFirst'
    BY <1>2, <2>1 DEF IdleProbeFails, AtIdleVisit, Threads
  <2>2. CASE IdleClose
    BY <1>2, <2>2 DEF IdleClose, Threads, TypeOK
  <2> QED
    BY <1>1, <1>5, <2>1, <2>2 DEF IdleLoop, IdleTick, IdleKeep, IdleRangeEnd,
       IdleVisit, IdleFresh, IdleProbe, RangeSkip
<1>6. ASSUME NEW c \in Conns, Run(c) PROVE ShutFirst'
  <2>1. CASE LoginRejected(c)
    BY <1>2, <2>1 DEF LoginRejected, Threads
  <2>2. CASE RunExit(c)
    <3>1. CASE closePc[c] = "none"
      BY <1>2, <2>2, <3>1 DEF RunExit, Threads
    <3>2. CASE closePc[c] # "none"
      BY <2>2, <3>2 DEF RunExit, CallClose, ShutFirst, TypeOK, Threads
    <3> QED
      BY <3>1, <3>2
  <2> QED
    BY <1>1, <1>6, <2>1, <2>2 DEF Run, RunLoop, Read, ReadFails, LoginVIN,
       LoginState, LoginRegister, RunDone
<1>7. ASSUME NEW t \in Threads, CloseStep(t) PROVE ShutFirst'
  BY <1>7 DEF CloseStep, CloseMark, CloseShut, CloseDelete, CloseDec,
     CloseRemove, ShutFirst, TypeOK
<1>8. ASSUME NEW c \in Conns, Accept(c) PROVE ShutFirst'
  BY <1>1, <1>8 DEF Accept
<1>9. ASSUME NEW a \in Apps, NEW c \in Conns, AppClose(a, c) PROVE ShutFirst'
  BY <1>2, <1>9 DEF AppClose, Threads
<1> QED
  BY <1>3, <1>4, <1>5, <1>6, <1>7, <1>8, <1>9 DEF Next, Step

---------------------------------------------------------------------------
(* The mapping.                                                            *)

\* The phase of a connection, read off the program counters.
LEMMA LifeValues ==
  ASSUME TypeOK, NEW c \in Conns
  PROVE  /\ Life[c] = "refused" <=> runPc[c] = "refused"
         /\ Life[c] = "over" <=> runPc[c] = "done"
         /\ Life[c] = "served" <=> c \in Running
         /\ Life[c] = "admitted" <=> runPc[c] = "none" /\ Admitted(c)
         /\ Life[c] = "offered" <=> Fresh(c)
  BY DEF Life, Running, Fresh, Admitted

\* NewServer: no connection, nothing stopped.
LEMMA MapInit == Init => Table!Init
<1> SUFFICES ASSUME Init PROVE Table!Init
  OBVIOUS
<1>1. Life = [c \in Conns |-> "offered"]
  BY NoConnAssumption DEF Init, Life, Running, Admitted
<1> QED
  BY <1>1 DEF Init, StopPhase, Table!Init

\* Every step of the server is a step of the table or changes nothing of it.
LEMMA MapStep ==
  TypeOK /\ TypeOK' /\ LifeInv /\ ShutFirst /\ JoinInv' /\ [Next]_vars
    => [Table!Next]_Table!vars
<1> SUFFICES ASSUME TypeOK, TypeOK', LifeInv, ShutFirst, JoinInv', [Next]_vars
             PROVE  [Table!Next]_Table!vars
  OBVIOUS
<1> USE DEF Table!vars
<1>0. StopPhase # "panicked" \/ UNCHANGED vars
  BY DEF Next, Alive, StopPhase
\* A step that moves no connection and does not touch Stop's promise.
<1>1. ASSUME UNCHANGED <<runPc, accPc, accConn, connections, shut, early>>,
             StopPhase' = StopPhase
      PROVE  UNCHANGED Table!vars
  <2>1. Life' = Life
    BY <1>1 DEF Life, Running, Admitted
  <2> QED
    BY <1>1, <2>1
<1>2. CASE UNCHANGED vars
  BY <1>1, <1>2 DEF vars, StopPhase
<1>3. CASE Start
  <2>1. CASE StartListen \/ StartIdle \/ StartFails \/ AcceptFails \/ AdmitConn
    <3>1. Life' = Life
      BY <2>1 DEF StartListen, StartIdle, StartFails, AcceptFails, AdmitConn, Life,
         Running, Admitted
    <3> QED
      BY <2>1, <3>1 DEF StartListen, StartIdle, StartFails, AcceptFails, AdmitConn,
         StopPhase
  <2>2. CASE RefuseConn
    <3>1. accConn \in Conns /\ Fresh(accConn) /\ runPc[accConn] = "none"
      BY <2>2 DEF RefuseConn, TypeOK, LifeInv, AdmitsNew, Fresh
    <3>2. Life' = [Life EXCEPT ![accConn] = "refused"]
      BY <2>2, <3>1, NoConnAssumption
         DEF RefuseConn, Life, Running, Admitted, TypeOK
    <3>3. Life[accConn] = "offered"
      BY <3>1, LifeValues
    <3>4. Table!Refuse(accConn)
      BY <2>2, <3>2, <3>3 DEF RefuseConn, Table!Refuse, StopPhase
    <3> QED
      BY <1>0, <1>2, <3>1, <3>4 DEF Table!Next
  <2>3. CASE StoreConn
    <3>1. accConn \in Conns /\ Fresh(accConn) /\ runPc[accConn] = "none"
      BY <2>3 DEF StoreConn, TypeOK, LifeInv, AdmitsNew, Fresh
    <3>2. Life' = [Life EXCEPT ![accConn] = "admitted"]
      BY <2>3, <3>1 DEF StoreConn, Life, Running, Admitted, TypeOK
    <3>3. Life[accConn] = "offered"
      BY <3>1, LifeValues
    <3>4. Table!Admit(accConn)
      BY <2>3, <3>2, <3>3 DEF StoreConn, Table!Admit, StopPhase
    <3> QED
      BY <1>0, <1>2, <3>1, <3>4 DEF Table!Next
  <2>4. CASE CountConn
    <3>1. Life' = Life
      BY <2>4 DEF CountConn, Life, Running, Admitted
    <3> QED
      BY <2>4, <3>1 DEF CountConn, StopPhase
  <2>5. CASE SpawnRun
    <3>1. accConn \in Conns /\ Admitted(accConn) /\ runPc[accConn] = "none"
      BY <2>5 DEF SpawnRun, TypeOK, LifeInv, AdmitsNew, Admitted
    <3>2. Life' = [Life EXCEPT ![accConn] = "served"]
      BY <2>5, <3>1, NoConnAssumption
         DEF SpawnRun, Life, Running, Admitted, TypeOK
    <3>3. Life[accConn] = "admitted"
      BY <3>1, LifeValues
    <3>4. Table!Serve(accConn)
      BY <2>5, <3>2, <3>3 DEF SpawnRun, Table!Serve, StopPhase
    <3> QED
      BY <1>0, <1>2, <3>1, <3>4 DEF Table!Next
  <2> QED
    BY <1>3, <2>1, <2>2, <2>3, <2>4, <2>5 DEF Start
<1>4. CASE StopCancel
  <2>1. Life' = Life
    BY <1>4 DEF StopCancel, Life, Running, Admitted
  <2>2. Table!In("served") = Running
    BY LifeValues DEF Table!In, Running
  <2>3. Table!StopBegins
    BY <1>4, <2>1, <2>2 DEF StopCancel, Table!StopBegins, StopPhase
  <2> QED
    BY <1>0, <1>2, <2>3 DEF Table!Next
<1>5. CASE Stop
  <2>1. UNCHANGED <<runPc, accPc, accConn, connections, shut, early>>
    BY <1>5 DEF Stop, StopListener, StopRangeBegin, StopRangeEnd, StopWait,
       StopWoken, StopForwarders, StopRangeVisit, RangeSkip
  <2>2. Life' = Life
    BY <2>1 DEF Life, Running, Admitted
  <2>3. CASE StopWait \/ StopWoken
    <3>1. StopPhase = "stopping"
      BY <2>3 DEF StopWait, StopWoken, StopPhase
    <3>2. CASE stopPc' = "forwarders"
      <4>1. early' \cap Running' = {}
            /\ \A c \in early' : runPc'[c] \notin {"none", "refused"}
        BY <3>2 DEF JoinInv
      <4>2. \A c \in early : runPc[c] = "done"
        BY <2>1, <4>1 DEF Running, TypeOK
      <4>3. early \subseteq Table!In("over")
        BY <4>2, LifeValues DEF Table!In, TypeOK
      <4>4. StopPhase' = "stopped"
        BY <3>2 DEF StopPhase
      <4>5. Table!StopEnds
        BY <2>1, <2>2, <3>1, <4>3, <4>4 DEF Table!StopEnds
      <4> QED
        BY <1>0, <1>2, <4>5 DEF Table!Next
    <3>3. CASE stopPc' = "panic"
      <4>1. StopPhase' = "panicked"
        BY <3>3 DEF StopPhase
      <4>2. Table!StopEnds
        BY <2>1, <2>2, <3>1, <4>1 DEF Table!StopEnds
      <4> QED
        BY <1>0, <1>2, <4>2 DEF Table!Next
    <3>4. CASE stopPc' = "waiting"
      BY <1>1, <2>1, <3>1, <3>4 DEF StopPhase
    <3> QED
      BY <2>3, <3>2, <3>3, <3>4 DEF StopWait, StopWoken
  <2>4. CASE ~(StopWait \/ StopWoken)
    <3>1. StopPhase' = StopPhase
      BY <1>5, <2>4 DEF Stop, StopListener, StopRangeBegin, StopRangeEnd,
         StopForwarders, StopRangeVisit, RangeSkip, StopPhase
    <3> QED
      BY <1>1, <2>1, <3>1
  <2> QED
    BY <2>3, <2>4
<1>6. CASE IdleExit \/ IdleLoop
  <2>1. UNCHANGED <<runPc, accPc, accConn, connections, shut, early>>
    BY <1>6 DEF IdleExit, IdleLoop, IdleTick, IdleClose, IdleKeep,
       IdleRangeEnd, IdleVisit, IdleFresh, IdleProbeFails, IdleProbe, RangeSkip
  <2>2. StopPhase' = StopPhase
    BY <1>6 DEF IdleExit, WgDone, IdleLoop, IdleTick, IdleClose, IdleKeep,
       IdleRangeEnd, IdleVisit, IdleFresh, IdleProbeFails, IdleProbe,
       RangeSkip, StopPhase
  <2> QED
    BY <1>1, <2>1, <2>2
<1>7. ASSUME NEW c \in Conns, Run(c)
      PROVE  [Table!Next]_Table!vars
  <2>1. CASE RunDone(c)
    <3>1. Life' = [Life EXCEPT ![c] = "over"] /\ Life[c] = "served"
      BY <2>1 DEF RunDone, Life, Running, Admitted, TypeOK
    <3>2. StopPhase' = StopPhase
      BY <2>1 DEF RunDone, WgDone, StopPhase
    <3>3. Table!Finish(c)
      BY <2>1, <3>1, <3>2 DEF RunDone, Table!Finish
    <3> QED
      BY <1>0, <1>2, <3>3 DEF Table!Next
  <2>2. CASE ~RunDone(c)
    <3>1. UNCHANGED <<accPc, accConn, connections, shut, early, stopPc>>
      BY <1>7, <2>2 DEF Run, RunLoop, Read, ReadFails, LoginRejected,
         LoginVIN, LoginState, LoginRegister, RunExit
    <3>2. \A d \in Conns :
            runPc'[d] = runPc[d] \/ (d \in Running /\ d \in Running')
      <4>1. \A d \in Conns : d # c => runPc'[d] = runPc[d]
        <5>1. CASE RunLoop(c) \/ Read(c) \/ ReadFails(c)
          BY <5>1 DEF RunLoop, Read, ReadFails, TypeOK
        <5>2. CASE LoginRejected(c) \/ LoginVIN(c) \/ LoginState(c)
                     \/ LoginRegister(c) \/ RunExit(c)
          BY <5>2 DEF LoginRejected, LoginVIN, LoginState, LoginRegister,
             RunExit, TypeOK
        <5> QED
          BY <1>7, <2>2, <5>1, <5>2 DEF Run
      <4>2. /\ runPc[c] \notin {"none", "refused", "done"}
            /\ runPc'[c] \notin {"none", "refused", "done"}
        <5>1. CASE RunLoop(c) \/ Read(c) \/ ReadFails(c)
          BY <5>1 DEF RunLoop, Read, ReadFails, TypeOK
        <5>2. CASE LoginRejected(c) \/ LoginVIN(c) \/ LoginState(c)
                     \/ LoginRegister(c) \/ RunExit(c)
          BY <5>2 DEF LoginRejected, LoginVIN, LoginState, LoginRegister,
             RunExit, TypeOK
        <5> QED
          BY <1>7, <2>2, <5>1, <5>2 DEF Run
      <4> QED
        BY <4>1, <4>2 DEF Running
    <3>3. Life' = Life
      BY <3>1, <3>2 DEF Life, Running, Admitted
    <3> QED
      BY <3>1, <3>3 DEF StopPhase
  <2> QED
    BY <2>1, <2>2
<1>8. ASSUME NEW t \in Threads, CloseStep(t)
      PROVE  [Table!Next]_Table!vars
  <2> DEFINE c == target[t]
  <2>1. UNCHANGED <<runPc, accPc, accConn, early, stopPc>>
    BY <1>8 DEF CloseStep, CloseMark, CloseShut, CloseDelete, CloseDec,
       CloseRemove
  <2>2. Life' = Life /\ StopPhase' = StopPhase
    BY <2>1 DEF Life, Running, Admitted, StopPhase
  <2>3. CASE CloseShut(t)
    <3>1. c \in Conns /\ ~Fresh(c)
      BY <2>3 DEF CloseShut, TypeOK, LifeInv, FreshUntouched
    <3>2. Life[c] # "offered"
      BY <3>1, LifeValues
    <3>3. Table!Shut(c)
      BY <2>1, <2>2, <2>3, <3>2 DEF CloseShut, Table!Shut
    <3> QED
      BY <1>0, <1>2, <3>1, <3>3 DEF Table!Next
  <2>4. CASE CloseDelete(t)
    <3>1. c \in Conns /\ c \in shut
      BY <2>4 DEF CloseDelete, TypeOK, ShutFirst
    <3>2. CASE c \in connections
      <4>1. Table!Remove(c)
        BY <2>1, <2>2, <2>4, <3>1, <3>2 DEF CloseDelete, Table!Remove
      <4> QED
        BY <1>0, <1>2, <3>1, <4>1 DEF Table!Next
    <3>3. CASE c \notin connections
      <4>1. connections' = connections /\ shut' = shut
        BY <2>4, <3>3 DEF CloseDelete
      <4> QED
        BY <2>1, <2>2, <4>1
    <3> QED
      BY <3>2, <3>3
  <2>5. CASE CloseMark(t) \/ CloseDec(t) \/ CloseRemove(t)
    BY <2>1, <2>2, <2>5 DEF CloseMark, CloseDec, CloseRemove
  <2> QED
    BY <1>8, <2>3, <2>4, <2>5 DEF CloseStep
<1>9. ASSUME NEW c \in Conns, Accept(c)
      PROVE  [Table!Next]_Table!vars
  <2>1. Life' = Life
    BY <1>9 DEF Accept, Life, Running, Admitted
  <2> QED
    BY <1>9, <2>1 DEF Accept, StopPhase
<1>10. ASSUME NEW a \in Apps, NEW c \in Conns, AppClose(a, c)
       PROVE  [Table!Next]_Table!vars
  BY <1>1, <1>10 DEF AppClose, StopPhase
<1> QED
  BY <1>2, <1>3, <1>4, <1>5, <1>6, <1>7, <1>8, <1>9, <1>10 DEF Next, Step

\* Server implements ConnTable: what the goroutines of server.go and conn.go
\* do is what the abstract table allows.
THEOREM ServerImplementsTable == Spec => ImplementsTable
<1>1. Init => IdleWaits /\ WgInv /\ JoinInv /\ ShutFirst
  <2> SUFFICES ASSUME Init PROVE IdleWaits /\ WgInv /\ JoinInv /\ ShutFirst
    OBVIOUS
  <2>1. Running = {}
    BY DEF Init, Running
  <2> QED
    BY <2>1, FS_EmptySet DEF Init, IdleWaits, WgInv, JoinInv, ShutFirst
<1> QED
  BY <1>1, TypeInit, TypeStep, LifeInit, LifeStep, IdleWaitsStep, WgStep,
     JoinStep, ShutFirstStep, MapInit, MapStep, PTL
     DEF Spec, ImplementsTable, Table!Spec
==============================================================================
