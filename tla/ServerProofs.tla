---------------------------- MODULE ServerProofs ----------------------------
(***************************************************************************)
(* Theorems about Server, for every set of connections, VINs and           *)
(* application goroutines and every value of maxConns: the connection      *)
(* table, Stop, and the VIN registry.                                      *)
(***************************************************************************)
EXTENDS Server, FiniteSetTheorems, SequenceLemmas

\* remove keeps the registry a function from VINs to lists of connections.
LEMMA RemoveType ==
  ASSUME NEW reg \in Registries, NEW v \in VINs, NEW c \in Conns
  PROVE  remove(reg, v, c) \in Registries
<1> DEFINE s == reg[v]
           I == {i \in 1..Len(s) : s[i] = c}
<1>1. s \in Seq(Conns)
  BY DEF Registries
<1>2. ASSUME NEW i \in 1..Len(s)
      PROVE  RemoveAt(s, i) \in Seq(Conns)
  <2>1. SubSeq(s, 1, i - 1) \in Seq(Conns)
    BY <1>1, SubSeqProperties
  <2>2. SubSeq(s, i + 1, Len(s)) \in Seq(Conns)
    BY <1>1, SubSeqProperties
  <2> QED
    BY <2>1, <2>2, ConcatProperties DEF RemoveAt
<1>3. RemoveFirst(s, c) \in Seq(Conns)
  <2>1. CASE I = {}
    BY <1>1, <2>1 DEF RemoveFirst
  <2>2. CASE I # {}
    <3>1. Min(I) \in 1..Len(s)
      <4> I \in SUBSET Nat
        BY <1>1
      <4> HIDE DEF I
      <4>1. Min(I) \in I
        BY <2>2, LeastNat
      <4> QED
        BY <4>1 DEF I
    <3> QED
      BY <1>2, <2>2, <3>1 DEF RemoveFirst, SelectInSeq
  <2> QED
    BY <2>1, <2>2
<1> QED
  BY <1>3 DEF remove, Registries

---------------------------------------------------------------------------
(* Type correctness.                                                       *)

USE DEF connVars, tableVars, accVars, runVars, stopVars, idleVars, closeVars,
        history

\* The initial state is well typed.
LEMMA TypeInit == Init => TypeOK
<1> SUFFICES ASSUME Init PROVE TypeOK
  OBVIOUS
<1>1. vins \in Registries
  BY EmptySeq DEF Init, newVinRegistry, Registries
<1>2. inbox \in [Conns -> Seq(Packets)]
  BY EmptySeq DEF Init
<1>3. /\ state \in [Conns -> {"New", "LoggedIn", "Closed"}]
      /\ vin \in [Conns -> VINs \cup {NoVIN}]
      /\ runPc \in [Conns -> RunStates]
      /\ sent \in [Conns -> Nat]
  BY DEF Init, RunStates
<1>4. /\ todo \in [Rangers -> SUBSET Conns]
      /\ closePc \in [Threads -> CloseStates]
      /\ target \in [Threads -> Conns \cup {NoConn}]
      /\ \A t \in Threads : closePc[t] # "none" => target[t] \in Conns
  BY DEF Init, CloseStates
<1>5. /\ listener \in {"nil", "open", "closed"} /\ ctxDone \in BOOLEAN
      /\ accPc \in AccStates /\ stopPc \in StopStates
      /\ idlePc \in IdleStates
      /\ accConn \in Conns \cup {NoConn} /\ idleConn \in Conns \cup {NoConn}
      /\ accPc \notin {"check", "store", "count", "spawn"}
      /\ idlePc # "sleep"
  BY DEF Init, AccStates, StopStates, IdleStates
<1>6. /\ connections \subseteq Conns /\ shut \subseteq Conns
      /\ early \subseteq Conns /\ relogged \subseteq Conns /\ raced \subseteq Conns
      /\ connCount \in Int /\ wg \in Int
  BY DEF Init
<1> QED
  BY <1>1, <1>2, <1>3, <1>4, <1>5, <1>6 DEF TypeOK

\* A call of Close, whichever goroutine makes it, keeps the types of the
\* variables that say who is closing what.
LEMMA CallCloseType ==
  ASSUME TypeOK, NEW t \in Threads, NEW c \in Conns, CallClose(t, c)
  PROVE  /\ closePc' \in [Threads -> CloseStates]
         /\ target' \in [Threads -> Conns \cup {NoConn}]
         /\ \A u \in Threads : closePc'[u] # "none" => target'[u] \in Conns
<1>1. CASE state[c] = "Closed"
  BY <1>1 DEF CallClose, TypeOK
<1>2. CASE state[c] # "Closed"
  BY <1>2 DEF CallClose, TypeOK, CloseStates
<1> QED
  BY <1>1, <1>2

\* Every step of Connection.Close keeps the types.
LEMMA TypeClose ==
  ASSUME TypeOK, NEW t \in Threads, CloseStep(t)
  PROVE  TypeOK'
<1>1. CASE CloseMark(t)
  BY <1>1 DEF TypeOK, CloseMark, CloseStates
<1>2. CASE CloseShut(t)
  BY <1>2 DEF TypeOK, CloseShut, CloseStates
<1>3. CASE CloseDelete(t)
  BY <1>3 DEF TypeOK, CloseDelete, CloseStates
<1>4. CASE CloseDec(t)
  BY <1>4 DEF TypeOK, CloseDec, CloseStates
<1>5. CASE CloseRemove(t)
  <2>1. vins' \in Registries
    BY <1>5, RemoveType DEF TypeOK, CloseRemove
  <2> QED
    BY <1>5, <2>1 DEF TypeOK, CloseRemove, CloseStates
<1> QED
  BY <1>1, <1>2, <1>3, <1>4, <1>5 DEF CloseStep

\* Every step of Start but Accept keeps the types.
LEMMA TypeStart ==
  ASSUME TypeOK, Start
  PROVE  TypeOK'
<1>1. CASE StartListen
  BY <1>1 DEF TypeOK, StartListen, AccStates
<1>2. CASE StartFails
  BY <1>2 DEF TypeOK, StartFails, AccStates
<1>3. CASE AcceptFails
  BY <1>3 DEF TypeOK, AcceptFails, AccStates
<1>4. CASE RefuseConn
  BY <1>4 DEF TypeOK, RefuseConn, AccStates, RunStates
<1>5. CASE AdmitConn
  BY <1>5 DEF TypeOK, AdmitConn, AccStates
<1>6. CASE StoreConn
  <2>1. todo' \in [Rangers -> SUBSET Conns]
    BY <1>6 DEF TypeOK, StoreConn
  <2> QED
    BY <1>6, <2>1 DEF TypeOK, StoreConn, AccStates
<1>7. CASE CountConn
  BY <1>7 DEF TypeOK, CountConn, AccStates
<1>8. CASE SpawnRun
  BY <1>8 DEF TypeOK, SpawnRun, WgAdd, AccStates, RunStates
<1>9. CASE StartIdle
  BY <1>9 DEF TypeOK, StartIdle, WgAdd, AccStates, IdleStates
<1> QED
  BY <1>1, <1>2, <1>3, <1>4, <1>5, <1>6, <1>7, <1>8, <1>9 DEF Start

\* Every step of a connection goroutine keeps the types: what a read delivers
\* are packets, and a login stores and registers a VIN.
LEMMA TypeRun ==
  ASSUME TypeOK, NEW c \in Conns, Run(c)
  PROVE  TypeOK'
<1> c \in Threads
  BY DEF Threads
<1> inbox[c] \in Seq(Packets)
  BY DEF TypeOK
<1>1. CASE RunLoop(c)
  BY <1>1 DEF TypeOK, RunLoop, RunStates
<1>2. CASE Read(c)
  <2>0. PICK n \in 0..MaxBatch : \E batch \in [1..n -> Packets] :
          /\ inbox' = [inbox EXCEPT ![c] = batch]
          /\ sent' = [sent EXCEPT ![c] = @ + n]
    BY <1>2 DEF Read
  <2>1. PICK batch \in [1..n -> Packets] :
          /\ inbox' = [inbox EXCEPT ![c] = batch]
          /\ sent' = [sent EXCEPT ![c] = @ + n]
    BY <2>0
  <2>2. n \in Nat
    BY BoundsAssumption
  <2>3. batch \in Seq(Packets)
    BY <2>2, SeqDef
  <2>4. inbox' \in [Conns -> Seq(Packets)]
    BY <2>1, <2>3 DEF TypeOK
  <2>5. sent' \in [Conns -> Nat]
    BY <2>1, <2>2 DEF TypeOK
  <2> QED
    BY <1>2, <2>4, <2>5 DEF TypeOK, Read, RunStates
<1>3. CASE ReadFails(c)
  BY <1>3 DEF TypeOK, ReadFails, RunStates
<1>4. CASE LoginRejected(c)
  <2>1. inbox' \in [Conns -> Seq(Packets)]
    BY <1>4, HeadTailProperties DEF TypeOK, LoginRejected
  <2> QED
    BY <1>4, <2>1, CallCloseType DEF TypeOK, LoginRejected
<1>5. CASE LoginVIN(c)
  <2>1. inbox' \in [Conns -> Seq(Packets)]
    BY <1>5, HeadTailProperties DEF TypeOK, LoginVIN
  <2>2. Head(inbox[c]) \in VINs
    BY <1>5, HeadTailProperties DEF LoginVIN, Packets
  <2> QED
    BY <1>5, <2>1, <2>2 DEF TypeOK, LoginVIN, RunStates
<1>6. CASE LoginState(c)
  BY <1>6 DEF TypeOK, LoginState, RunStates
<1>7. CASE LoginRegister(c)
  <2>1. vins' \in Registries
    <3>1. \A v \in VINs : Append(vins[v], c) \in Seq(Conns)
      BY AppendProperties DEF TypeOK, Registries
    <3> QED
      BY <1>7, <3>1 DEF TypeOK, LoginRegister, add, Registries
  <2> QED
    BY <1>7, <2>1 DEF TypeOK, LoginRegister, RunStates
<1>8. CASE RunExit(c)
  BY <1>8, CallCloseType DEF TypeOK, RunExit, RunStates
<1>9. CASE RunDone(c)
  BY <1>9 DEF TypeOK, RunDone, WgDone, RunStates, StopStates
<1> QED
  BY <1>1, <1>2, <1>3, <1>4, <1>5, <1>6, <1>7, <1>8, <1>9 DEF Run

\* Every step of Stop keeps the types.
LEMMA TypeStop ==
  ASSUME TypeOK, StopCancel \/ Stop
  PROVE  TypeOK'
<1> Stopper \in Threads /\ Stopper \in Rangers
  BY DEF Threads, Rangers
<1>1. CASE StopCancel
  BY <1>1 DEF TypeOK, StopCancel, StopStates, Running
<1>2. CASE StopListener
  BY <1>2 DEF TypeOK, StopListener, StopStates
<1>3. CASE StopRangeBegin
  BY <1>3 DEF TypeOK, StopRangeBegin, StopStates
<1>4. CASE StopRangeEnd
  BY <1>4 DEF TypeOK, StopRangeEnd, StopStates
<1>5. CASE StopWait \/ StopWoken \/ StopForwarders
  BY <1>5 DEF TypeOK, StopWait, StopWoken, StopForwarders, StopStates
<1>6. ASSUME NEW c \in Conns, StopRangeVisit(c)
      PROVE  TypeOK'
  BY <1>6, CallCloseType DEF TypeOK, StopRangeVisit
<1>7. ASSUME NEW c \in Conns, RangeSkip(Stopper, c)
      PROVE  TypeOK'
  BY <1>7 DEF TypeOK, RangeSkip
<1> QED
  BY <1>1, <1>2, <1>3, <1>4, <1>5, <1>6, <1>7 DEF Stop

\* Every step of idleCheckLoop keeps the types.
LEMMA TypeIdle ==
  ASSUME TypeOK, IdleExit \/ IdleLoop
  PROVE  TypeOK'
<1> Idler \in Threads /\ Idler \in Rangers
  BY DEF Threads, Rangers
<1>1. CASE IdleExit
  BY <1>1 DEF TypeOK, IdleExit, WgDone, IdleStates, StopStates
<1>2. CASE IdleTick
  BY <1>2 DEF TypeOK, IdleTick, IdleStates
<1>3. CASE IdleClose
  BY <1>3, CallCloseType DEF TypeOK, IdleClose, IdleStates
<1>4. CASE IdleKeep
  BY <1>4 DEF TypeOK, IdleKeep, IdleStates
<1>5. CASE IdleRangeEnd
  BY <1>5 DEF TypeOK, IdleRangeEnd, IdleStates
<1>6. ASSUME NEW c \in Conns, IdleVisit(c)
      PROVE  TypeOK'
  <2>1. todo' \in [Rangers -> SUBSET Conns]
    BY <1>6 DEF TypeOK, IdleVisit, IdleFresh, IdleProbeFails, IdleProbe,
       AtIdleVisit
  <2>2. CASE IdleFresh(c)
    BY <2>1, <2>2 DEF TypeOK, IdleFresh
  <2>3. CASE IdleProbeFails(c)
    BY <2>1, <2>3, CallCloseType DEF TypeOK, IdleProbeFails
  <2>4. CASE IdleProbe(c)
    BY <2>1, <2>4 DEF TypeOK, IdleProbe, IdleStates
  <2> QED
    BY <1>6, <2>2, <2>3, <2>4 DEF IdleVisit
<1>7. ASSUME NEW c \in Conns, RangeSkip(Idler, c)
      PROVE  TypeOK'
  BY <1>7 DEF TypeOK, RangeSkip
<1> QED
  BY <1>1, <1>2, <1>3, <1>4, <1>5, <1>6, <1>7 DEF IdleLoop

\* Every step of the server keeps the types.
LEMMA TypeStep == TypeOK /\ [Next]_vars => TypeOK'
<1> SUFFICES ASSUME TypeOK, [Next]_vars PROVE TypeOK'
  OBVIOUS
<1>1. CASE Start
  BY <1>1, TypeStart
<1>2. CASE StopCancel \/ Stop
  BY <1>2, TypeStop
<1>3. CASE IdleExit \/ IdleLoop
  BY <1>3, TypeIdle
<1>4. ASSUME NEW c \in Conns, Accept(c)
      PROVE  TypeOK'
  BY <1>4 DEF TypeOK, Accept, AccStates
<1>5. ASSUME NEW c \in Conns, Run(c)
      PROVE  TypeOK'
  BY <1>5, TypeRun
<1>6. ASSUME NEW t \in Threads, CloseStep(t)
      PROVE  TypeOK'
  BY <1>6, TypeClose
<1>7. ASSUME NEW a \in Apps, NEW c \in Conns, AppClose(a, c)
      PROVE  TypeOK'
  <2> a \in Threads
    BY DEF Threads
  <2> QED
    BY <1>7, CallCloseType DEF TypeOK, AppClose
<1>8. CASE UNCHANGED vars
  BY <1>8 DEF TypeOK, vars
<1> QED
  BY <1>1, <1>2, <1>3, <1>4, <1>5, <1>6, <1>7, <1>8 DEF Next, Step

\* The server's variables keep their types in every behaviour, and no
\* goroutine dereferences a nil connection.
THEOREM TypeCorrect == Spec => []TypeOK
<1> QED
  BY TypeInit, TypeStep, PTL DEF Spec

---------------------------------------------------------------------------
(* The inductive invariant.  NothingLeftOpen is not inductive: a goroutine *)
(* may end because another one marked its connection Closed, so the        *)
(* argument needs who still owes the rest of Close, and that nobody can    *)
(* name a connection before Start has stored it.                           *)

\* Start has not stored c yet.
Fresh(c) == runPc[c] = "none" /\ ~(accConn = c /\ accPc \in {"count", "spawn"})

\* The connection Start is admitting has no goroutine yet.
AdmitsNew ==
  accPc \in {"check", "store", "count", "spawn"} => runPc[accConn] = "none"

\* Nobody reaches a connection that is not stored yet.
FreshUntouched ==
  \A c \in Conns : Fresh(c) =>
    /\ state[c] = "New" /\ c \notin connections /\ idleConn # c
    /\ \A t \in Threads : closePc[t] # "none" => target[t] # c
    /\ \A r \in Rangers : c \notin todo[r]

\* A run goroutine closes its own connection, and only from two places.
ClosesItself ==
  \A c \in Conns :
    closePc[c] # "none" => target[c] = c /\ runPc[c] \in {"process", "join"}

\* Whoever marked c Closed also shuts the socket and clears the table.
ClosedIsOwed ==
  \A c \in Conns : state[c] = "Closed" =>
    /\ c \in shut
         \/ \E t \in Threads : closePc[t] = "shut" /\ target[t] = c
    /\ c \notin connections
         \/ \E t \in Threads : closePc[t] \in {"shut", "delete"} /\ target[t] = c

\* A goroutine past its loop finds c Closed or is about to mark it.
EndsClosed ==
  \A c \in Conns :
    runPc[c] \in {"join", "done"} => state[c] = "Closed" \/ closePc[c] = "mark"

LifeInv ==
  AdmitsNew /\ FreshUntouched /\ ClosesItself /\ ClosedIsOwed /\ EndsClosed

---------------------------------------------------------------------------
(* The slots: what the counter counts.                                     *)

Uncounting == {target[t] : t \in {u \in Threads : closePc[u] = "dec"}}

Slots == connections \cup Uncounting

\* A stored connection is counted after it enters the table and discounted
\* after it leaves it.
SlotInv ==
  connCount + (IF accPc = "count" THEN 1 ELSE 0) <= Cardinality(Slots)

\* Only Start increments the counter, and it has checked the limit.
LimitInv ==
  connCount <= MaxConns /\ (accPc \in {"store", "count"} => connCount < MaxConns)

---------------------------------------------------------------------------
(* The WaitGroup: what Stop waits for.                                     *)

\* The idle checker is started by Start.
IdleWaits == accPc \in {"off", "idle"} => idlePc = "off"

WgInv ==
  wg = Cardinality(Running) + (IF idlePc \in {"off", "done"} THEN 0 ELSE 1)

JoinInv ==
  /\ \A c \in early : runPc[c] \notin {"none", "refused"}
  /\ stopPc \in {"woken", "forwarders", "done", "panic"} => early \cap Running = {}

IInv == TypeOK /\ LifeInv /\ SlotInv /\ LimitInv /\ IdleWaits /\ WgInv
          /\ JoinInv

---------------------------------------------------------------------------
(* Every action preserves LifeInv.                                         *)

\* LifeInv holds before Start.
LEMMA LifeInit == Init => LifeInv
<1> SUFFICES ASSUME Init PROVE LifeInv
  OBVIOUS
<1> \A c \in Conns : c \in Threads
  BY DEF Threads
<1> QED
  BY NoConnAssumption DEF Init, LifeInv, AdmitsNew, FreshUntouched, Fresh,
     ClosesItself, ClosedIsOwed, EndsClosed

\* The steps of Close keep LifeInv: a Close that has marked the connection
\* goes on to shut it and to delete it from the table.
LEMMA LifeClose ==
  ASSUME TypeOK, LifeInv, NEW t \in Threads, CloseStep(t)
  PROVE  LifeInv'
<1> \A c \in Conns : c \in Threads
  BY DEF Threads
<1>1. CASE CloseMark(t)
  BY <1>1 DEF LifeInv, AdmitsNew, FreshUntouched, Fresh, ClosesItself,
     ClosedIsOwed, EndsClosed, TypeOK, CloseMark
<1>2. CASE CloseShut(t)
  BY <1>2 DEF LifeInv, AdmitsNew, FreshUntouched, Fresh, ClosesItself,
     ClosedIsOwed, EndsClosed, TypeOK, CloseShut
<1>3. CASE CloseDelete(t)
  BY <1>3 DEF LifeInv, AdmitsNew, FreshUntouched, Fresh, ClosesItself,
     ClosedIsOwed, EndsClosed, TypeOK, CloseDelete
<1>4. CASE CloseDec(t)
  BY <1>4 DEF LifeInv, AdmitsNew, FreshUntouched, Fresh, ClosesItself,
     ClosedIsOwed, EndsClosed, TypeOK, CloseDec
<1>5. CASE CloseRemove(t)
  BY <1>5 DEF LifeInv, AdmitsNew, FreshUntouched, Fresh, ClosesItself,
     ClosedIsOwed, EndsClosed, TypeOK, CloseRemove
<1> QED
  BY <1>1, <1>2, <1>3, <1>4, <1>5 DEF CloseStep

\* Start keeps LifeInv: it stores and spawns only a connection that nobody
\* has served before.
LEMMA LifeStart ==
  ASSUME TypeOK, LifeInv, Start
  PROVE  LifeInv'
<1> \A c \in Conns : c \in Threads
  BY DEF Threads
<1>1. CASE StartListen
  BY <1>1 DEF LifeInv, AdmitsNew, FreshUntouched, Fresh, ClosesItself,
     ClosedIsOwed, EndsClosed, TypeOK, StartListen
<1>2. CASE StartFails
  BY <1>2 DEF LifeInv, AdmitsNew, FreshUntouched, Fresh, ClosesItself,
     ClosedIsOwed, EndsClosed, TypeOK, StartFails
<1>3. CASE AcceptFails
  BY <1>3 DEF LifeInv, AdmitsNew, FreshUntouched, Fresh, ClosesItself,
     ClosedIsOwed, EndsClosed, TypeOK, AcceptFails
<1>4. CASE RefuseConn
  BY <1>4 DEF LifeInv, AdmitsNew, FreshUntouched, Fresh, ClosesItself,
     ClosedIsOwed, EndsClosed, TypeOK, RefuseConn
<1>5. CASE AdmitConn
  BY <1>5 DEF LifeInv, AdmitsNew, FreshUntouched, Fresh, ClosesItself,
     ClosedIsOwed, EndsClosed, TypeOK, AdmitConn
<1>6. CASE StoreConn
  BY <1>6 DEF LifeInv, AdmitsNew, FreshUntouched, Fresh, ClosesItself,
     ClosedIsOwed, EndsClosed, TypeOK, StoreConn
<1>7. CASE CountConn
  BY <1>7 DEF LifeInv, AdmitsNew, FreshUntouched, Fresh, ClosesItself,
     ClosedIsOwed, EndsClosed, TypeOK, CountConn
<1>8. CASE SpawnRun
  BY <1>8 DEF LifeInv, AdmitsNew, FreshUntouched, Fresh, ClosesItself,
     ClosedIsOwed, EndsClosed, TypeOK, SpawnRun
<1>9. CASE StartIdle
  BY <1>9 DEF LifeInv, AdmitsNew, FreshUntouched, Fresh, ClosesItself,
     ClosedIsOwed, EndsClosed, TypeOK, StartIdle
<1> QED
  BY <1>1, <1>2, <1>3, <1>4, <1>5, <1>6, <1>7, <1>8, <1>9 DEF Start

\* What a call of Close changes: at most that the caller is about to mark c.
LEMMA CallCloseEffect ==
  ASSUME TypeOK, NEW t \in Threads, NEW c \in Conns, closePc[t] = "none",
         CallClose(t, c)
  PROVE  /\ \A u \in Threads : u # t => closePc'[u] = closePc[u]
                                      /\ target'[u] = target[u]
         /\ \/ state[c] = "Closed" /\ closePc' = closePc /\ target' = target
            \/ state[c] # "Closed" /\ closePc'[t] = "mark" /\ target'[t] = c
  BY DEF CallClose, TypeOK

\* Calling Close keeps LifeInv, whoever calls it: a connection that is found
\* Closed is shut and deleted already or some other Close owes it.
LEMMA CallCloseLife ==
  ASSUME TypeOK, LifeInv, NEW t \in Threads, NEW c \in Conns,
         closePc[t] = "none", ~Fresh(c), CallClose(t, c),
         UNCHANGED <<state, shut, connections>>
  PROVE  /\ ClosedIsOwed'
         /\ \A d \in Conns : Fresh(d) =>
              \A u \in Threads : closePc'[u] # "none" => target'[u] # d
<1>1. ASSUME NEW u \in Threads, closePc[u] # "none"
      PROVE  closePc'[u] = closePc[u] /\ target'[u] = target[u]
  BY <1>1, CallCloseEffect
<1>2. ClosedIsOwed'
  <2> SUFFICES ASSUME NEW d \in Conns, state[d] = "Closed"
               PROVE  /\ d \in shut
                           \/ \E u \in Threads : closePc'[u] = "shut" /\ target'[u] = d
                      /\ d \notin connections
                           \/ \E u \in Threads : closePc'[u] \in {"shut", "delete"}
                                              /\ target'[u] = d
    BY DEF ClosedIsOwed
  <2> QED
    BY <1>1 DEF LifeInv, ClosedIsOwed
<1>3. ASSUME NEW d \in Conns, Fresh(d), NEW u \in Threads, closePc'[u] # "none"
      PROVE  target'[u] # d
  BY <1>1, <1>3, CallCloseEffect DEF LifeInv, FreshUntouched
<1> QED
  BY <1>2, <1>3

\* The connection goroutine keeps LifeInv, the login that overwrites a Closed
\* state included.
LEMMA LifeRun ==
  ASSUME TypeOK, LifeInv, NEW c \in Conns, Run(c)
  PROVE  LifeInv'
<1> \A d \in Conns : d \in Threads
  BY DEF Threads
<1>1. CASE RunLoop(c)
  BY <1>1 DEF LifeInv, AdmitsNew, FreshUntouched, Fresh, ClosesItself,
     ClosedIsOwed, EndsClosed, TypeOK, RunLoop
<1>2. CASE Read(c)
  BY <1>2 DEF LifeInv, AdmitsNew, FreshUntouched, Fresh, ClosesItself,
     ClosedIsOwed, EndsClosed, TypeOK, Read
<1>3. CASE ReadFails(c)
  BY <1>3 DEF LifeInv, AdmitsNew, FreshUntouched, Fresh, ClosesItself,
     ClosedIsOwed, EndsClosed, TypeOK, ReadFails
<1>4. CASE LoginRejected(c)
  <2>1. closePc[c] = "none" /\ ~Fresh(c) /\ CallClose(c, c)
        /\ UNCHANGED <<state, shut, connections>>
    BY <1>4 DEF LoginRejected, Fresh
  <2>2. ClosedIsOwed' /\ AdmitsNew'
    BY <1>4, <2>1, CallCloseLife DEF LoginRejected, LifeInv, AdmitsNew, TypeOK
  <2>3. FreshUntouched'
    <3>1. \A d \in Conns : Fresh(d)' => Fresh(d)
      BY <1>4 DEF LoginRejected, Fresh, TypeOK
    <3>2. UNCHANGED <<state, connections, idleConn, todo>>
      BY <1>4 DEF LoginRejected
    <3>3. \A d \in Conns : Fresh(d) =>
            \A u \in Threads : closePc'[u] # "none" => target'[u] # d
      BY <2>1, CallCloseLife
    <3> QED
      BY <3>1, <3>2, <3>3 DEF LifeInv, FreshUntouched
  <2>4. ClosesItself' /\ EndsClosed'
    BY <1>4, <2>1, CallCloseEffect DEF LoginRejected, LifeInv, ClosesItself,
       EndsClosed, TypeOK
  <2> QED
    BY <2>2, <2>3, <2>4 DEF LifeInv
<1>5. CASE LoginVIN(c)
  BY <1>5 DEF LifeInv, AdmitsNew, FreshUntouched, Fresh, ClosesItself,
     ClosedIsOwed, EndsClosed, TypeOK, LoginVIN
<1>6. CASE LoginState(c)
  BY <1>6 DEF LifeInv, AdmitsNew, FreshUntouched, Fresh, ClosesItself,
     ClosedIsOwed, EndsClosed, TypeOK, LoginState
<1>7. CASE LoginRegister(c)
  BY <1>7 DEF LifeInv, AdmitsNew, FreshUntouched, Fresh, ClosesItself,
     ClosedIsOwed, EndsClosed, TypeOK, LoginRegister
<1>8. CASE RunExit(c)
  <2>0. closePc[c] = "none"
    BY <1>8 DEF RunExit, LifeInv, ClosesItself
  <2>1. closePc[c] = "none" /\ ~Fresh(c) /\ CallClose(c, c)
        /\ UNCHANGED <<state, shut, connections>>
    BY <1>8, <2>0 DEF RunExit, Fresh
  <2>2. ClosedIsOwed' /\ AdmitsNew'
    BY <1>8, <2>1, CallCloseLife DEF RunExit, LifeInv, AdmitsNew, TypeOK
  <2>3. FreshUntouched'
    <3>1. \A d \in Conns : Fresh(d)' => Fresh(d)
      BY <1>8 DEF RunExit, Fresh, TypeOK
    <3>2. UNCHANGED <<state, connections, idleConn, todo>>
      BY <1>8 DEF RunExit
    <3>3. \A d \in Conns : Fresh(d) =>
            \A u \in Threads : closePc'[u] # "none" => target'[u] # d
      BY <2>1, CallCloseLife
    <3> QED
      BY <3>1, <3>2, <3>3 DEF LifeInv, FreshUntouched
  <2>4. ClosesItself' /\ EndsClosed'
    BY <1>8, <2>1, CallCloseEffect DEF RunExit, LifeInv, ClosesItself,
       EndsClosed, TypeOK
  <2> QED
    BY <2>2, <2>3, <2>4 DEF LifeInv
<1>9. CASE RunDone(c)
  BY <1>9 DEF LifeInv, AdmitsNew, FreshUntouched, Fresh, ClosesItself,
     ClosedIsOwed, EndsClosed, TypeOK, RunDone
<1> QED
  BY <1>1, <1>2, <1>3, <1>4, <1>5, <1>6, <1>7, <1>8, <1>9 DEF Run

\* Close called by a goroutine other than the connection's own.
LEMMA LifeForeignClose ==
  ASSUME TypeOK, LifeInv, NEW t \in Threads \ Conns, NEW c \in Conns,
         closePc[t] = "none", ~Fresh(c), CallClose(t, c),
         UNCHANGED <<state, shut, connections, accPc, accConn, runPc>>,
         \A r \in Rangers : todo'[r] \subseteq todo[r],
         idleConn' \in {idleConn, NoConn}
  PROVE  LifeInv'
<1> \A d \in Conns : d \in Threads
  BY DEF Threads
<1>1. ClosedIsOwed' /\ AdmitsNew'
  BY CallCloseLife DEF LifeInv, AdmitsNew
<1>2. FreshUntouched'
  <2> SUFFICES ASSUME NEW d \in Conns, Fresh(d)
               PROVE  /\ state[d] = "New" /\ d \notin connections /\ idleConn' # d
                      /\ \A u \in Threads : closePc'[u] # "none" => target'[u] # d
                      /\ \A r \in Rangers : d \notin todo'[r]
    BY DEF FreshUntouched, Fresh
  <2> QED
    BY CallCloseLife, NoConnAssumption DEF LifeInv, FreshUntouched
<1>3. ClosesItself' /\ EndsClosed'
  BY CallCloseEffect DEF LifeInv, ClosesItself, EndsClosed
<1> QED
  BY <1>1, <1>2, <1>3 DEF LifeInv

\* Stop keeps LifeInv.
LEMMA LifeStop ==
  ASSUME TypeOK, LifeInv, StopCancel \/ Stop
  PROVE  LifeInv'
<1> \A c \in Conns : c \in Threads
  BY DEF Threads
<1> Stopper \in Threads \ Conns /\ Stopper \in Rangers
  BY NamesAssumption DEF Threads, Rangers
<1>1. CASE StopCancel
  BY <1>1 DEF LifeInv, AdmitsNew, FreshUntouched, Fresh, ClosesItself,
     ClosedIsOwed, EndsClosed, TypeOK, StopCancel
<1>2. CASE StopListener
  BY <1>2 DEF LifeInv, AdmitsNew, FreshUntouched, Fresh, ClosesItself,
     ClosedIsOwed, EndsClosed, TypeOK, StopListener
<1>3. CASE StopRangeBegin
  BY <1>3 DEF LifeInv, AdmitsNew, FreshUntouched, Fresh, ClosesItself,
     ClosedIsOwed, EndsClosed, TypeOK, StopRangeBegin
<1>4. CASE StopRangeEnd
  BY <1>4 DEF LifeInv, AdmitsNew, FreshUntouched, Fresh, ClosesItself,
     ClosedIsOwed, EndsClosed, TypeOK, StopRangeEnd
<1>5. CASE StopWait
  BY <1>5 DEF LifeInv, AdmitsNew, FreshUntouched, Fresh, ClosesItself,
     ClosedIsOwed, EndsClosed, TypeOK, StopWait
<1>6. CASE StopWoken
  BY <1>6 DEF LifeInv, AdmitsNew, FreshUntouched, Fresh, ClosesItself,
     ClosedIsOwed, EndsClosed, TypeOK, StopWoken
<1>7. CASE StopForwarders
  BY <1>7 DEF LifeInv, AdmitsNew, FreshUntouched, Fresh, ClosesItself,
     ClosedIsOwed, EndsClosed, TypeOK, StopForwarders
<1>8. ASSUME NEW c \in Conns, StopRangeVisit(c)
      PROVE  LifeInv'
  <2>1. closePc[Stopper] = "none" /\ ~Fresh(c)
    BY <1>8 DEF StopRangeVisit, LifeInv, FreshUntouched
  <2>2. \A r \in Rangers : todo'[r] \subseteq todo[r]
    BY <1>8 DEF StopRangeVisit, TypeOK
  <2> QED
    BY <1>8, <2>1, <2>2, LifeForeignClose DEF StopRangeVisit
<1>9. ASSUME NEW c \in Conns, RangeSkip(Stopper, c)
      PROVE  LifeInv'
  BY <1>9 DEF LifeInv, AdmitsNew, FreshUntouched, Fresh, ClosesItself,
     ClosedIsOwed, EndsClosed, TypeOK, RangeSkip
<1> QED
  BY <1>1, <1>2, <1>3, <1>4, <1>5, <1>6, <1>7, <1>8, <1>9 DEF Stop

\* The idle checker keeps LifeInv.
LEMMA LifeIdle ==
  ASSUME TypeOK, LifeInv, IdleExit \/ IdleLoop
  PROVE  LifeInv'
<1> \A c \in Conns : c \in Threads
  BY DEF Threads
<1> Idler \in Threads \ Conns /\ Idler \in Rangers
  BY NamesAssumption DEF Threads, Rangers
<1>1. CASE IdleExit
  BY <1>1 DEF LifeInv, AdmitsNew, FreshUntouched, Fresh, ClosesItself,
     ClosedIsOwed, EndsClosed, TypeOK, IdleExit
<1>2. CASE IdleTick
  BY <1>2 DEF LifeInv, AdmitsNew, FreshUntouched, Fresh, ClosesItself,
     ClosedIsOwed, EndsClosed, TypeOK, IdleTick
<1>3. CASE IdleRangeEnd
  BY <1>3 DEF LifeInv, AdmitsNew, FreshUntouched, Fresh, ClosesItself,
     ClosedIsOwed, EndsClosed, TypeOK, IdleRangeEnd
<1>4. CASE IdleKeep
  BY <1>4, NoConnAssumption DEF LifeInv, AdmitsNew, FreshUntouched, Fresh,
     ClosesItself, ClosedIsOwed, EndsClosed, TypeOK, IdleKeep
<1>5. CASE IdleClose
  <2>1. idleConn \in Conns /\ ~Fresh(idleConn)
    BY <1>5 DEF IdleClose, LifeInv, FreshUntouched, TypeOK
  <2> QED
    BY <1>5, <2>1, LifeForeignClose DEF IdleClose
<1>6. ASSUME NEW c \in Conns, IdleVisit(c)
      PROVE  LifeInv'
  <2>1. closePc[Idler] = "none" /\ ~Fresh(c)
    BY <1>6 DEF IdleVisit, IdleFresh, IdleProbeFails, IdleProbe, AtIdleVisit,
       LifeInv, FreshUntouched
  <2>2. \A r \in Rangers : todo'[r] \subseteq todo[r]
    <3>1. todo' = [todo EXCEPT ![Idler] = @ \ {c}]
      BY <1>6 DEF IdleVisit, IdleFresh, IdleProbeFails, IdleProbe, AtIdleVisit
    <3>2. todo \in [Rangers -> SUBSET Conns]
      BY DEF TypeOK
    <3> QED
      BY <3>1, <3>2
  <2>3. CASE IdleFresh(c)
    BY <2>2, <2>3 DEF LifeInv, AdmitsNew, FreshUntouched, Fresh,
       ClosesItself, ClosedIsOwed, EndsClosed, IdleFresh
  <2>4. CASE IdleProbeFails(c)
    BY <2>1, <2>2, <2>4, LifeForeignClose DEF IdleProbeFails
  <2>5. CASE IdleProbe(c)
    BY <2>1, <2>2, <2>5 DEF LifeInv, AdmitsNew, FreshUntouched, Fresh,
       ClosesItself, ClosedIsOwed, EndsClosed, IdleProbe
  <2> QED
    BY <1>6, <2>3, <2>4, <2>5 DEF IdleVisit
<1>7. ASSUME NEW c \in Conns, RangeSkip(Idler, c)
      PROVE  LifeInv'
  BY <1>7 DEF LifeInv, AdmitsNew, FreshUntouched, Fresh, ClosesItself,
     ClosedIsOwed, EndsClosed, TypeOK, RangeSkip
<1> QED
  BY <1>1, <1>2, <1>3, <1>4, <1>5, <1>6, <1>7 DEF IdleLoop

\* LifeInv is inductive, given the types.
LEMMA LifeStep == TypeOK /\ LifeInv /\ [Next]_vars => LifeInv'
<1> SUFFICES ASSUME TypeOK, LifeInv, [Next]_vars PROVE LifeInv'
  OBVIOUS
<1> \A c \in Conns : c \in Threads
  BY DEF Threads
<1>1. CASE Start
  BY <1>1, LifeStart
<1>2. CASE StopCancel \/ Stop
  BY <1>2, LifeStop
<1>3. CASE IdleExit \/ IdleLoop
  BY <1>3, LifeIdle
<1>4. ASSUME NEW c \in Conns, Accept(c)
      PROVE  LifeInv'
  BY <1>4 DEF LifeInv, AdmitsNew, FreshUntouched, Fresh, ClosesItself,
     ClosedIsOwed, EndsClosed, TypeOK, Accept
<1>5. ASSUME NEW c \in Conns, Run(c)
      PROVE  LifeInv'
  BY <1>5, LifeRun
<1>6. ASSUME NEW t \in Threads, CloseStep(t)
      PROVE  LifeInv'
  BY <1>6, LifeClose
<1>7. ASSUME NEW a \in Apps, NEW c \in Conns, AppClose(a, c)
      PROVE  LifeInv'
  <2>1. a \in Threads \ Conns
    BY NamesAssumption DEF Threads
  <2>2. closePc[a] = "none" /\ ~Fresh(c)
    BY <1>7 DEF AppClose, Running, LifeInv, FreshUntouched, Fresh
  <2> QED
    BY <1>7, <2>1, <2>2, LifeForeignClose DEF AppClose
<1>8. CASE UNCHANGED vars
  BY <1>8 DEF LifeInv, AdmitsNew, FreshUntouched, Fresh, ClosesItself,
     ClosedIsOwed, EndsClosed, vars
<1> QED
  BY <1>1, <1>2, <1>3, <1>4, <1>5, <1>6, <1>7, <1>8 DEF Next, Step

\* Close and run, whichever goroutines race in Close: when a connection's
\* goroutine has ended and nobody is still inside Close for it, its socket
\* is closed and it is out of the connection table.
THEOREM NothingIsLeftOpen == Spec => []NothingLeftOpen
<1>1. TypeOK /\ LifeInv => NothingLeftOpen
  <2> SUFFICES ASSUME TypeOK, LifeInv, NEW c \in Conns, runPc[c] = "done",
                      ClosersOf(c) = {}
               PROVE  c \in shut /\ state[c] = "Closed" /\ c \notin connections
    BY DEF NothingLeftOpen
  <2>1. state[c] = "Closed"
    BY DEF LifeInv, EndsClosed, ClosesItself
  <2>2. \A t \in Threads : closePc[t] = "none" \/ target[t] # c
    BY DEF ClosersOf
  <2> QED
    BY <2>1, <2>2 DEF LifeInv, ClosedIsOwed
<1> QED
  BY <1>1, TypeInit, TypeStep, LifeInit, LifeStep, PTL DEF Spec

---------------------------------------------------------------------------
(* The counter.  Only CountConn and CloseDec move it, and only Start moves *)
(* accPc.                                                                  *)

\* The steps of Stop, of the idle checker, of applications and of run leave
\* the counter, the table and Start alone.
LEMMA CountFrame ==
  ASSUME \/ StopCancel \/ Stop \/ IdleExit \/ IdleLoop
         \/ \E c \in Conns : Run(c)
         \/ \E a \in Apps, c \in Conns : AppClose(a, c)
  PROVE  UNCHANGED <<connCount, connections, accPc, accConn>>
<1>1. CASE StopCancel \/ Stop
  BY <1>1 DEF StopCancel, Stop, StopListener, StopRangeBegin, StopRangeEnd,
     StopWait, StopWoken, StopForwarders, StopRangeVisit, RangeSkip
<1>2. CASE IdleExit \/ IdleLoop
  BY <1>2 DEF IdleExit, IdleLoop, IdleTick, IdleClose, IdleKeep,
     IdleRangeEnd, IdleVisit, IdleFresh, IdleProbeFails, IdleProbe, RangeSkip
<1>3. CASE \E c \in Conns : Run(c)
  BY <1>3 DEF Run, RunLoop, Read, ReadFails, LoginRejected, LoginVIN,
     LoginState, LoginRegister, RunExit, RunDone
<1>4. CASE \E a \in Apps, c \in Conns : AppClose(a, c)
  BY <1>4 DEF AppClose
<1> QED
  BY <1>1, <1>2, <1>3, <1>4

\* The same steps enter Close at most by calling it from outside.
LEMMA CloseFrame ==
  ASSUME TypeOK, LifeInv,
         \/ StopCancel \/ Stop \/ IdleExit \/ IdleLoop
         \/ \E c \in Conns : Run(c)
         \/ \E a \in Apps, c \in Conns : AppClose(a, c)
  PROVE  \/ UNCHANGED <<closePc, target>>
         \/ \E t \in Threads, c \in Conns :
              closePc[t] = "none" /\ CallClose(t, c)
<1> Stopper \in Threads /\ Idler \in Threads
  BY DEF Threads
<1>1. CASE StopCancel \/ Stop
  BY <1>1 DEF StopCancel, Stop, StopListener, StopRangeBegin, StopRangeEnd,
     StopWait, StopWoken, StopForwarders, StopRangeVisit, RangeSkip
<1>2. CASE IdleExit \/ IdleLoop
  <2>1. CASE IdleClose
    BY <2>1 DEF IdleClose, TypeOK
  <2>2. ASSUME NEW c \in Conns, IdleProbeFails(c)
        PROVE  closePc[Idler] = "none" /\ CallClose(Idler, c)
    BY <2>2 DEF IdleProbeFails, AtIdleVisit
  <2> QED
    BY <1>2, <2>1, <2>2 DEF IdleExit, IdleLoop, IdleTick, IdleKeep,
       IdleRangeEnd, IdleVisit, IdleFresh, IdleProbe, RangeSkip
<1>3. ASSUME NEW c \in Conns, Run(c)
      PROVE  UNCHANGED <<closePc, target>>
               \/ (closePc[c] = "none" /\ CallClose(c, c))
  BY <1>3 DEF Run, RunLoop, Read, ReadFails, LoginRejected, LoginVIN,
     LoginState, LoginRegister, RunExit, RunDone, LifeInv, ClosesItself
<1>4. CASE \E a \in Apps, c \in Conns : AppClose(a, c)
  BY <1>4 DEF AppClose, Threads
<1> QED
  BY <1>1, <1>2, <1>3, <1>4 DEF Threads

\* LimitInv is inductive: only Start counts a connection, and it does so after
\* its own check, since when the counter can only have fallen.
LEMMA LimitStep == TypeOK /\ LimitInv /\ [Next]_vars => LimitInv'
<1> SUFFICES ASSUME TypeOK, LimitInv, [Next]_vars PROVE LimitInv'
  OBVIOUS
<1> connCount \in Int /\ MaxConns \in Nat
  BY MaxConnsAssumption DEF TypeOK
<1>1. CASE \/ StopCancel \/ Stop \/ IdleExit \/ IdleLoop
           \/ \E c \in Conns : Run(c)
           \/ \E a \in Apps, c \in Conns : AppClose(a, c)
  BY <1>1, CountFrame DEF LimitInv
<1>2. CASE Start
  <2>1. CASE CountConn
    BY <2>1 DEF CountConn, LimitInv
  <2>2. CASE StoreConn
    BY <2>2 DEF StoreConn, LimitInv
  <2>3. CASE AdmitConn
    BY <2>3 DEF AdmitConn, LimitInv
  <2>4. CASE \/ StartListen \/ StartIdle \/ StartFails \/ AcceptFails
             \/ RefuseConn \/ SpawnRun
    BY <2>4 DEF StartListen, StartIdle, StartFails, AcceptFails, RefuseConn,
       SpawnRun, LimitInv
  <2> QED
    BY <1>2, <2>1, <2>2, <2>3, <2>4 DEF Start
<1>3. ASSUME NEW c \in Conns, Accept(c)
      PROVE  LimitInv'
  BY <1>3 DEF Accept, LimitInv
<1>4. ASSUME NEW t \in Threads, CloseStep(t)
      PROVE  LimitInv'
  BY <1>4 DEF CloseStep, CloseMark, CloseShut, CloseDelete, CloseDec,
     CloseRemove, LimitInv
<1>5. CASE UNCHANGED vars
  BY <1>5 DEF vars, LimitInv
<1> QED
  BY <1>1, <1>2, <1>3, <1>4, <1>5 DEF Next, Step

\* The limit check of Start, whatever Close does meanwhile: ConnCount never
\* reports more than maxConns.
THEOREM CountIsWithinLimit == Spec => []CountWithinLimit
<1>1. Init => LimitInv
  BY MaxConnsAssumption DEF Init, LimitInv
<1>2. LimitInv => CountWithinLimit
  BY DEF LimitInv, CountWithinLimit
<1> QED
  BY <1>1, <1>2, TypeInit, TypeStep, LimitStep, PTL DEF Spec

---------------------------------------------------------------------------
(* The slots.  Deleting a connection from the table does not free its slot *)
(* before the counter is decremented, so Slots only shrinks with it.       *)

\* The connections that hold a slot are finitely many.
LEMMA SlotsFinite ==
  ASSUME TypeOK
  PROVE  Slots \subseteq Conns /\ IsFiniteSet(Slots) /\ Cardinality(Slots) \in Nat
<1>1. Slots \subseteq Conns
  BY DEF Slots, Uncounting, TypeOK
<1> QED
  BY <1>1, ConnsAssumption, FS_Subset, FS_CardinalityType

\* A step that keeps every slot and does not count keeps the inequality.
LEMMA SlotsGrow ==
  ASSUME TypeOK, TypeOK', Slots \subseteq Slots'
  PROVE  Cardinality(Slots) <= Cardinality(Slots')
<1>1. IsFiniteSet(Slots')
  <2>1. Slots' \subseteq Conns
    BY DEF Slots, Uncounting, TypeOK
  <2> QED
    BY <2>1, ConnsAssumption, FS_Subset
<1> QED
  BY <1>1, FS_Subset

\* SlotInv is inductive: every Close that deletes a connection from the table
\* takes it out of the counter afterwards.
LEMMA SlotStep == TypeOK /\ LifeInv /\ SlotInv /\ [Next]_vars => SlotInv'
<1> SUFFICES ASSUME TypeOK, LifeInv, SlotInv, [Next]_vars PROVE SlotInv'
  OBVIOUS
<1>0. TypeOK'
  BY TypeStep
<1> /\ connCount \in Int
    /\ IsFiniteSet(Slots) /\ Cardinality(Slots) \in Nat
  BY SlotsFinite DEF TypeOK
<1> Cardinality(Slots') \in Nat
  <2>1. Slots' \subseteq Conns
    BY <1>0 DEF Slots, Uncounting, TypeOK
  <2> QED
    BY <2>1, ConnsAssumption, FS_Subset, FS_CardinalityType
<1>1. ASSUME UNCHANGED <<connCount, accPc>>, Slots \subseteq Slots'
      PROVE  SlotInv'
  BY <1>0, <1>1, SlotsGrow DEF SlotInv
<1>2. ASSUME UNCHANGED <<connCount, connections, accPc>>,
             \A t \in Threads : closePc[t] = "dec" => closePc'[t] = "dec"
                                                /\ target'[t] = target[t]
      PROVE  SlotInv'
  <2>1. Slots \subseteq Slots'
    BY <1>2 DEF Slots, Uncounting
  <2> QED
    BY <1>1, <1>2, <2>1
<1>3. ASSUME NEW t \in Threads, CloseStep(t)
      PROVE  SlotInv'
  <2>1. CASE CloseMark(t) \/ CloseShut(t) \/ CloseRemove(t)
    BY <1>2, <2>1 DEF CloseMark, CloseShut, CloseRemove, TypeOK
  <2>2. CASE CloseDelete(t)
    <3>1. Slots \subseteq Slots'
      BY <2>2 DEF CloseDelete, Slots, Uncounting, TypeOK
    <3> QED
      BY <1>1, <2>2, <3>1 DEF CloseDelete
  <2>3. CASE CloseDec(t)
    <3>1. Slots \ {target[t]} \subseteq Slots'
      BY <2>3 DEF CloseDec, Slots, Uncounting, TypeOK
    <3>2. Cardinality(Slots) - 1 <= Cardinality(Slots \ {target[t]})
      BY FS_RemoveElement
    <3>3. Cardinality(Slots \ {target[t]}) <= Cardinality(Slots')
      <4>1. IsFiniteSet(Slots')
        <5>1. Slots' \subseteq Conns
          BY <1>0 DEF Slots, Uncounting, TypeOK
        <5> QED
          BY <5>1, ConnsAssumption, FS_Subset
      <4> QED
        BY <3>1, <4>1, FS_Subset
    <3>4. Cardinality(Slots \ {target[t]}) \in Nat
      BY FS_RemoveElement, FS_CardinalityType
    <3> QED
      BY <2>3, <3>2, <3>3, <3>4 DEF CloseDec, SlotInv
  <2> QED
    BY <1>3, <2>1, <2>2, <2>3 DEF CloseStep
<1>4. CASE StoreConn
  <2>1. accConn \in Conns /\ accConn \notin Slots
    BY <1>4 DEF StoreConn, TypeOK, LifeInv, AdmitsNew, FreshUntouched, Fresh,
       Slots, Uncounting
  <2>2. Slots' = Slots \cup {accConn}
    BY <1>4 DEF StoreConn, Slots, Uncounting
  <2>3. Cardinality(Slots') = Cardinality(Slots) + 1
    BY <2>1, <2>2, FS_AddElement
  <2> QED
    BY <1>4, <2>3 DEF StoreConn, SlotInv
<1>5. CASE CountConn
  <2>1. Slots' = Slots
    BY <1>5 DEF CountConn, Slots, Uncounting
  <2> QED
    BY <1>5, <2>1 DEF CountConn, SlotInv
<1>6. CASE \/ StartListen \/ StartIdle \/ StartFails \/ AcceptFails
           \/ RefuseConn \/ AdmitConn \/ SpawnRun \/ \E c \in Conns : Accept(c)
  <2>1. Slots' = Slots
    BY <1>6 DEF StartListen, StartIdle, StartFails, AcceptFails, RefuseConn,
       AdmitConn, SpawnRun, Accept, Slots, Uncounting
  <2> QED
    BY <1>6, <2>1 DEF StartListen, StartIdle, StartFails, AcceptFails,
       RefuseConn, AdmitConn, SpawnRun, Accept, SlotInv
<1>7. ASSUME NEW t \in Threads, NEW c \in Conns, closePc[t] = "none",
             CallClose(t, c), UNCHANGED <<connCount, connections, accPc>>
      PROVE  SlotInv'
  BY <1>2, <1>7, CallCloseEffect
<1>8. CASE \/ StopCancel \/ Stop \/ IdleExit \/ IdleLoop
           \/ \E c \in Conns : Run(c)
           \/ \E a \in Apps, c \in Conns : AppClose(a, c)
  <2>1. UNCHANGED <<connCount, connections, accPc>>
    BY <1>8, CountFrame
  <2>2. CASE UNCHANGED <<closePc, target>>
    BY <1>2, <2>1, <2>2
  <2> QED
    BY <1>7, <1>8, <2>1, <2>2, CloseFrame
<1>9. CASE UNCHANGED vars
  BY <1>2, <1>9 DEF vars
<1> QED
  BY <1>3, <1>4, <1>5, <1>6, <1>8, <1>9 DEF Next, Step, Start

\* unregister against Start: no interleaving of closes makes the counter
\* exceed the connections that are in the table or being discounted, so
\* closed connections never use up the limit.
THEOREM NoSlotIsLost == Spec => []NoSlotLost
<1>1. Init => SlotInv
  <2> SUFFICES ASSUME Init PROVE SlotInv
    OBVIOUS
  <2>1. Slots = {}
    BY DEF Init, Slots, Uncounting
  <2> QED
    BY <2>1, FS_EmptySet DEF Init, SlotInv
<1>2. TypeOK /\ SlotInv => NoSlotLost
  BY SlotsFinite DEF SlotInv, NoSlotLost, Slots, Uncounting, TypeOK
<1> QED
  BY <1>1, <1>2, TypeInit, TypeStep, LifeInit, LifeStep, SlotStep, PTL DEF Spec

---------------------------------------------------------------------------
(* The WaitGroup counts the goroutines that run, so the Done that brings   *)
(* it to zero finds none of the goroutines Stop has to join.               *)

\* The connection goroutines that run are finitely many.
LEMMA RunningFinite ==
  /\ Running \subseteq Conns
  /\ IsFiniteSet(Running) /\ Cardinality(Running) \in Nat
<1>1. Running \subseteq Conns
  BY DEF Running
<1> QED
  BY <1>1, ConnsAssumption, FS_Subset, FS_CardinalityType

\* Besides SpawnRun and RunDone nothing starts or ends a run goroutine.
LEMMA RunFrame ==
  ASSUME TypeOK, LifeInv, [Next]_vars, ~SpawnRun, \A c \in Conns : ~RunDone(c)
  PROVE  Running' = Running
<1>1. CASE UNCHANGED runPc
  BY <1>1 DEF Running
<1>2. CASE RefuseConn
  BY <1>2 DEF RefuseConn, Running, TypeOK, RunStates, LifeInv, AdmitsNew
<1>3. ASSUME NEW c \in Conns, Run(c)
      PROVE  Running' = Running
  BY <1>3 DEF Run, RunLoop, Read, ReadFails, LoginRejected, LoginVIN,
     LoginState, LoginRegister, RunExit, Running, TypeOK
<1>4. CASE Start
  BY <1>1, <1>2, <1>4 DEF Start, StartListen, StartIdle, StartFails, AcceptFails,
     AdmitConn, StoreConn, CountConn
<1>5. CASE StopCancel \/ Stop
  BY <1>1, <1>5 DEF StopCancel, Stop, StopListener, StopRangeBegin,
     StopRangeEnd, StopWait, StopWoken, StopForwarders, StopRangeVisit,
     RangeSkip
<1>6. CASE IdleExit \/ IdleLoop
  BY <1>1, <1>6 DEF IdleExit, IdleLoop, IdleTick, IdleClose, IdleKeep,
     IdleRangeEnd, IdleVisit, IdleFresh, IdleProbeFails, IdleProbe, RangeSkip
<1>7. ASSUME NEW t \in Threads, CloseStep(t)
      PROVE  Running' = Running
  BY <1>1, <1>7 DEF CloseStep, CloseMark, CloseShut, CloseDelete, CloseDec,
     CloseRemove
<1>8. CASE \/ \E c \in Conns : Accept(c)
           \/ \E a \in Apps, c \in Conns : AppClose(a, c)
           \/ UNCHANGED vars
  BY <1>1, <1>8 DEF Accept, AppClose, vars
<1> QED
  BY <1>3, <1>4, <1>5, <1>6, <1>7, <1>8 DEF Next, Step

\* IdleWaits is inductive: the idle checker is started once, by Start.
LEMMA IdleWaitsStep == IdleWaits /\ [Next]_vars => IdleWaits'
<1> SUFFICES ASSUME IdleWaits, [Next]_vars PROVE IdleWaits'
  OBVIOUS
<1>1. CASE Start
  BY <1>1 DEF Start, StartListen, StartIdle, StartFails, AcceptFails, RefuseConn,
     AdmitConn, StoreConn, CountConn, SpawnRun, IdleWaits
<1>2. CASE IdleExit \/ IdleLoop
  BY <1>2 DEF IdleExit, IdleLoop, IdleTick, IdleClose, IdleKeep,
     IdleRangeEnd, IdleVisit, IdleFresh, IdleProbeFails, IdleProbe,
     AtIdleVisit, RangeSkip, IdleWaits
<1>3. CASE StopCancel \/ Stop
  BY <1>3 DEF StopCancel, Stop, StopListener, StopRangeBegin, StopRangeEnd,
     StopWait, StopWoken, StopForwarders, StopRangeVisit, RangeSkip, IdleWaits
<1>4. ASSUME NEW c \in Conns, Run(c)
      PROVE  IdleWaits'
  BY <1>4 DEF Run, RunLoop, Read, ReadFails, LoginRejected, LoginVIN,
     LoginState, LoginRegister, RunExit, RunDone, IdleWaits
<1>5. ASSUME NEW t \in Threads, CloseStep(t)
      PROVE  IdleWaits'
  BY <1>5 DEF CloseStep, CloseMark, CloseShut, CloseDelete, CloseDec,
     CloseRemove, IdleWaits
<1>6. CASE \/ \E c \in Conns : Accept(c)
           \/ \E a \in Apps, c \in Conns : AppClose(a, c)
           \/ UNCHANGED vars
  BY <1>6 DEF Accept, AppClose, vars, IdleWaits
<1> QED
  BY <1>1, <1>2, <1>3, <1>4, <1>5, <1>6 DEF Next, Step

\* WgInv is inductive: wg.Add and wg.Done keep the counter equal to the number
\* of goroutines that run.
LEMMA WgStep ==
  TypeOK /\ LifeInv /\ IdleWaits /\ WgInv /\ [Next]_vars => WgInv'
<1> SUFFICES ASSUME TypeOK, LifeInv, IdleWaits, WgInv, [Next]_vars
             PROVE  WgInv'
  OBVIOUS
<1> Cardinality(Running) \in Nat /\ IsFiniteSet(Running)
  BY RunningFinite
<1>1. CASE SpawnRun
  <2>1. accConn \in Conns /\ accConn \notin Running
    BY <1>1 DEF SpawnRun, TypeOK, LifeInv, AdmitsNew, Running
  <2>2. Running' = Running \cup {accConn}
    BY <1>1, <2>1 DEF SpawnRun, Running, TypeOK
  <2>3. Cardinality(Running') = Cardinality(Running) + 1
    BY <2>1, <2>2, FS_AddElement
  <2> QED
    BY <1>1, <2>3 DEF SpawnRun, WgAdd, WgInv
<1>2. ASSUME NEW c \in Conns, RunDone(c)
      PROVE  WgInv'
  <2>1. c \in Running
    BY <1>2 DEF RunDone, Running
  <2>2. Running' = Running \ {c}
    BY <1>2 DEF RunDone, Running, TypeOK
  <2>3. Cardinality(Running') = Cardinality(Running) - 1
    BY <2>1, <2>2, FS_RemoveElement
  <2> QED
    BY <1>2, <2>3 DEF RunDone, WgDone, WgInv
<1>3. CASE ~SpawnRun /\ \A c \in Conns : ~RunDone(c)
  <2> Running' = Running
    BY <1>3, RunFrame
  <2>1. CASE StartIdle
    BY <2>1 DEF StartIdle, WgAdd, WgInv, IdleWaits
  <2>2. CASE IdleExit
    BY <2>2 DEF IdleExit, WgDone, WgInv
  <2>3. CASE IdleLoop
    BY <2>3 DEF IdleLoop, IdleTick, IdleClose, IdleKeep, IdleRangeEnd,
       IdleVisit, IdleFresh, IdleProbeFails, IdleProbe, AtIdleVisit,
       RangeSkip, WgInv
  <2>4. CASE UNCHANGED <<wg, idlePc>>
    BY <2>4 DEF WgInv
  <2>5. CASE \/ StartListen \/ StartFails \/ AcceptFails \/ RefuseConn
             \/ AdmitConn \/ StoreConn \/ CountConn
    BY <2>4, <2>5 DEF StartListen, StartFails, AcceptFails, RefuseConn,
       AdmitConn, StoreConn, CountConn
  <2>6. CASE StopCancel \/ Stop
    BY <2>4, <2>6 DEF StopCancel, Stop, StopListener, StopRangeBegin,
       StopRangeEnd, StopWait, StopWoken, StopForwarders, StopRangeVisit,
       RangeSkip
  <2>7. ASSUME NEW c \in Conns, Run(c)
        PROVE  WgInv'
    BY <1>3, <2>4, <2>7 DEF Run, RunLoop, Read, ReadFails, LoginRejected,
       LoginVIN, LoginState, LoginRegister, RunExit
  <2>8. ASSUME NEW t \in Threads, CloseStep(t)
        PROVE  WgInv'
    BY <2>4, <2>8 DEF CloseStep, CloseMark, CloseShut, CloseDelete, CloseDec,
       CloseRemove
  <2>9. CASE \/ \E c \in Conns : Accept(c)
             \/ \E a \in Apps, c \in Conns : AppClose(a, c)
             \/ UNCHANGED vars
    BY <2>4, <2>9 DEF Accept, AppClose, vars
  <2> QED
    BY <1>3, <2>1, <2>2, <2>3, <2>5, <2>6, <2>7, <2>8, <2>9
       DEF Next, Step, Start
<1> QED
  BY <1>1, <1>2, <1>3

\* After the Done that takes the counter to zero no run goroutine is left.
LEMMA DoneToZero ==
  ASSUME TypeOK, LifeInv, IdleWaits, WgInv, [Next]_vars, wg' = 0
  PROVE  Running' = {}
<1>1. WgInv'
  BY WgStep
<1>2. Running' \subseteq Conns
  BY DEF Running
<1>3. IsFiniteSet(Running') /\ Cardinality(Running') \in Nat
  BY <1>2, ConnsAssumption, FS_Subset, FS_CardinalityType
<1>4. Cardinality(Running') = 0
  BY <1>1, <1>3 DEF WgInv
<1> QED
  BY <1>3, <1>4, FS_EmptySet

\* JoinInv is inductive: Stop passes Wait only in a state in which the counter
\* was zero after Stop was called.
LEMMA JoinStep ==
  TypeOK /\ LifeInv /\ IdleWaits /\ WgInv /\ JoinInv /\ [Next]_vars => JoinInv'
<1> SUFFICES ASSUME TypeOK, LifeInv, IdleWaits, WgInv, JoinInv, [Next]_vars
             PROVE  JoinInv'
  OBVIOUS
<1> DEFINE Past == {"woken", "forwarders", "done", "panic"}
<1>0. wg \in Int
  BY DEF TypeOK
\* A step that starts nothing and does not bring Stop past its Wait.
<1>1. ASSUME UNCHANGED early, stopPc' \in Past => stopPc \in Past,
             \A c \in Conns : runPc'[c] = runPc[c]
      PROVE  JoinInv'
  BY <1>1 DEF JoinInv, Running, TypeOK
<1>2. CASE Start
  <2>1. CASE RefuseConn
    BY <2>1 DEF RefuseConn, JoinInv, Running, TypeOK, LifeInv, AdmitsNew
  <2>2. CASE SpawnRun
    BY <2>2 DEF SpawnRun, JoinInv, Running, TypeOK, LifeInv, AdmitsNew
  <2> QED
    BY <1>1, <1>2, <2>1, <2>2 DEF Start, StartListen, StartIdle, StartFails, AcceptFails,
       AdmitConn, StoreConn, CountConn
<1>3. CASE StopCancel
  BY <1>3 DEF StopCancel, JoinInv, Running, TypeOK
<1>4. CASE Stop
  <2>1. CASE StopWait \/ StopWoken
    <3>1. CASE wg = 0
      <4>1. Running' = {}
        BY <2>1, <3>1, DoneToZero DEF StopWait, StopWoken
      <4> QED
        BY <2>1, <4>1 DEF StopWait, StopWoken, JoinInv
    <3>2. CASE wg # 0
      BY <1>1, <2>1, <3>2 DEF StopWait, StopWoken
    <3> QED
      BY <3>1, <3>2
  <2> QED
    BY <1>1, <1>4, <2>1 DEF Stop, StopListener, StopRangeBegin, StopRangeEnd,
       StopForwarders, StopRangeVisit, RangeSkip
<1>5. CASE IdleExit
  <2>1. CASE wg = 1 /\ stopPc = "waiting"
    <3>1. Running' = {}
      BY <1>5, <2>1, DoneToZero DEF IdleExit, WgDone
    <3> QED
      BY <1>5, <3>1 DEF IdleExit, JoinInv
  <2>2. CASE ~(wg = 1 /\ stopPc = "waiting")
    BY <1>1, <1>5, <2>2 DEF IdleExit, WgDone
  <2> QED
    BY <2>1, <2>2
<1>6. CASE IdleLoop
  BY <1>1, <1>6 DEF IdleLoop, IdleTick, IdleClose, IdleKeep, IdleRangeEnd,
     IdleVisit, IdleFresh, IdleProbeFails, IdleProbe, RangeSkip
<1>7. ASSUME NEW c \in Conns, Run(c)
      PROVE  JoinInv'
  <2>1. CASE RunDone(c)
    <3>1. Running' \subseteq Running
      BY <2>1 DEF RunDone, Running, TypeOK
    <3>2. \A d \in early' : runPc'[d] \notin {"none", "refused"}
      BY <2>1 DEF RunDone, JoinInv, TypeOK
    <3>3. CASE wg = 1 /\ stopPc = "waiting"
      <4>1. Running' = {}
        BY <2>1, <3>3, DoneToZero DEF RunDone, WgDone
      <4> QED
        BY <3>2, <4>1 DEF JoinInv
    <3>4. CASE ~(wg = 1 /\ stopPc = "waiting")
      BY <2>1, <3>1, <3>2, <3>4 DEF RunDone, WgDone, JoinInv
    <3> QED
      BY <3>3, <3>4
  <2>2. CASE ~RunDone(c)
    <3>1. UNCHANGED <<early, stopPc>>
      BY <1>7, <2>2 DEF Run, RunLoop, Read, ReadFails, LoginRejected,
         LoginVIN, LoginState, LoginRegister, RunExit
    <3>2. \A d \in Conns : runPc[d] \notin {"none", "refused"}
                               => runPc'[d] \notin {"none", "refused"}
      BY <1>7, <2>2 DEF Run, RunLoop, Read, ReadFails, LoginRejected,
         LoginVIN, LoginState, LoginRegister, RunExit, TypeOK
    <3>3. Running' = Running
      BY <1>7, <2>2 DEF Run, RunLoop, Read, ReadFails, LoginRejected,
         LoginVIN, LoginState, LoginRegister, RunExit, Running, TypeOK
    <3> QED
      BY <3>1, <3>2, <3>3 DEF JoinInv, TypeOK
  <2> QED
    BY <2>1, <2>2
<1>8. ASSUME NEW t \in Threads, CloseStep(t)
      PROVE  JoinInv'
  BY <1>1, <1>8 DEF CloseStep, CloseMark, CloseShut, CloseDelete, CloseDec,
     CloseRemove
<1>9. CASE \/ \E c \in Conns : Accept(c)
           \/ \E a \in Apps, c \in Conns : AppClose(a, c)
           \/ UNCHANGED vars
  BY <1>1, <1>9 DEF Accept, AppClose, vars
<1> QED
  BY <1>2, <1>3, <1>4, <1>5, <1>6, <1>7, <1>8, <1>9 DEF Next, Step

\* wg.Wait in Stop: when the forwarders are closed, every connection
\* goroutine that was running when Stop was called has ended.
THEOREM StopJoinsAll == Spec => []StopJoins
<1>1. Init => IdleWaits /\ WgInv /\ JoinInv
  <2> SUFFICES ASSUME Init PROVE IdleWaits /\ WgInv /\ JoinInv
    OBVIOUS
  <2>1. Running = {}
    BY DEF Init, Running
  <2> QED
    BY <2>1, FS_EmptySet DEF Init, IdleWaits, WgInv, JoinInv
<1>2. JoinInv => StopJoins
  BY DEF JoinInv, StopJoins
<1> QED
  BY <1>1, <1>2, TypeInit, TypeStep, LifeInit, LifeStep, IdleWaitsStep, WgStep,
     JoinStep, PTL DEF Spec

---------------------------------------------------------------------------
(* The VIN registry: GetConnectionByVIN finds a connection that has logged *)
(* in, and a connection whose goroutine ended is no longer found.          *)

\* Lists of connections.
HasConn(s, c) == \E i \in 1..Len(s) : s[i] = c

Once(s, c) == \A i, j \in 1..Len(s) : s[i] = c /\ s[j] = c => i = j

\* What the loop of remove leaves: the list without its first c.
LEMMA RemoveFirstShape ==
  ASSUME NEW s \in Seq(Conns), NEW c \in Conns, HasConn(s, c)
  PROVE  \E k \in 1..Len(s) :
           /\ s[k] = c
           /\ Len(RemoveFirst(s, c)) = Len(s) - 1
           /\ \A i \in 1..Len(s) - 1 :
                RemoveFirst(s, c)[i] = IF i < k THEN s[i] ELSE s[i + 1]
<1> DEFINE I == {i \in 1..Len(s) : s[i] = c}
           k == Min(I)
<1>0. Len(s) \in Nat
  BY LenProperties
<1>1. I # {} /\ I \in SUBSET Nat
  BY <1>0 DEF HasConn
<1>2. k \in I
  <2> HIDE DEF I
  <2> QED
    BY <1>1, LeastNat
<1>3. RemoveFirst(s, c) = RemoveAt(s, k)
  <2>1. SelectInSeq(s, LAMBDA v : v = c) = k
    BY <1>1 DEF SelectInSeq
  <2> QED
    BY <2>1 DEF RemoveFirst, HasConn
<1> DEFINE a == SubSeq(s, 1, k - 1)
           b == SubSeq(s, k + 1, Len(s))
<1>4. k \in 1..Len(s) /\ s[k] = c
  BY <1>2
<1> HIDE DEF k
<1>5. a \in Seq(Conns) /\ Len(a) = k - 1 /\ \A i \in 1..k - 1 : a[i] = s[i]
  <2>1. \A i \in 1..k - 1 : i \in 1..Len(s)
    BY <1>0, <1>4
  <2> QED
    BY <1>0, <1>4, <2>1, SubSeqProperties
<1>6. /\ b \in Seq(Conns) /\ Len(b) = Len(s) - k
      /\ \A i \in 1..Len(s) - k : b[i] = s[k + i]
  <2>1. \A i \in k + 1..Len(s) : i \in 1..Len(s)
    BY <1>0, <1>4
  <2> QED
    BY <1>0, <1>4, <2>1, SubSeqProperties
<1> HIDE DEF a, b
<1>7. RemoveFirst(s, c) = a \o b
  BY <1>3 DEF RemoveAt, a, b
<1>8. Len(a \o b) = Len(s) - 1
  BY <1>0, <1>4, <1>5, <1>6, ConcatProperties
<1>9. ASSUME NEW i \in 1..Len(s) - 1
      PROVE  (a \o b)[i] = IF i < k THEN s[i] ELSE s[i + 1]
  <2>1. CASE i < k
    <3>1. i \in 1..Len(a) /\ i \in 1..k - 1
      BY <1>0, <1>4, <1>5, <2>1
    <3> QED
      BY <1>5, <1>6, <2>1, <3>1, ConcatProperties
  <2>2. CASE ~(i < k)
    <3>1. i \in 1..Len(a) + Len(b) /\ ~(i <= Len(a))
      BY <1>0, <1>4, <1>5, <1>6, <2>2
    <3>2. (a \o b)[i] = b[i - Len(a)]
      BY <1>5, <1>6, <3>1, ConcatProperties
    <3>3. i - Len(a) \in 1..Len(s) - k /\ k + (i - Len(a)) = i + 1
      BY <1>0, <1>4, <1>5, <2>2
    <3> QED
      BY <1>6, <2>2, <3>2, <3>3
  <2> QED
    BY <2>1, <2>2
<1> QED
  BY <1>4, <1>7, <1>8, <1>9

\* remove takes one entry of c away and leaves those of every other
\* connection alone; it takes the last one when there was only one.
LEMMA RemoveFirstKeeps ==
  ASSUME NEW s \in Seq(Conns), NEW c \in Conns, NEW d \in Conns
  PROVE  /\ d # c /\ HasConn(s, d) => HasConn(RemoveFirst(s, c), d)
         /\ HasConn(RemoveFirst(s, c), d) => HasConn(s, d)
         /\ Once(s, d) => Once(RemoveFirst(s, c), d)
         /\ Once(s, c) => ~HasConn(RemoveFirst(s, c), c)
<1>1. CASE ~HasConn(s, c)
  <2>1. RemoveFirst(s, c) = s
    BY <1>1 DEF RemoveFirst, HasConn
  <2> QED
    BY <1>1, <2>1
<1>2. CASE HasConn(s, c)
  <2> DEFINE r == RemoveFirst(s, c)
  <2>0. Len(s) \in Nat
    BY LenProperties
  <2>1. PICK k \in 1..Len(s) :
          /\ s[k] = c
          /\ Len(r) = Len(s) - 1
          /\ \A i \in 1..Len(s) - 1 : r[i] = IF i < k THEN s[i] ELSE s[i + 1]
    BY <1>2, RemoveFirstShape
  <2> HIDE DEF r
  <2>2. ASSUME d # c, HasConn(s, d) PROVE HasConn(r, d)
    <3>1. PICK i \in 1..Len(s) : s[i] = d
      BY <2>2 DEF HasConn
    <3>2. CASE i < k
      <4>1. i \in 1..Len(s) - 1
        BY <2>0, <3>2
      <4>2. r[i] = d
        BY <2>1, <3>1, <3>2, <4>1
      <4> QED
        BY <2>1, <4>1, <4>2 DEF HasConn
    <3>3. CASE k < i
      <4>1. i - 1 \in 1..Len(s) - 1 /\ ~(i - 1 < k) /\ (i - 1) + 1 = i
        BY <2>0, <3>3
      <4>2. r[i - 1] = d
        BY <2>1, <3>1, <4>1
      <4> QED
        BY <2>1, <4>1, <4>2 DEF HasConn
    <3> QED
      BY <2>0, <2>1, <2>2, <3>1, <3>2, <3>3
  \* Every entry of r is an entry of s further on, and none of them is k.
  <2>3. ASSUME NEW i \in 1..Len(r)
        PROVE  \E j \in 1..Len(s) : /\ j # k /\ s[j] = r[i]
                                    /\ j = IF i < k THEN i ELSE i + 1
    BY <2>0, <2>1
  <2>4. ASSUME HasConn(r, d) PROVE HasConn(s, d)
    BY <2>3, <2>4 DEF HasConn
  <2>5. ASSUME Once(s, d) PROVE Once(r, d)
    <3> SUFFICES ASSUME NEW i \in 1..Len(r), NEW j \in 1..Len(r),
                        r[i] = d, r[j] = d
                 PROVE  i = j
      BY DEF Once
    <3>1. i \in Int /\ j \in Int
      BY <2>0, <2>1
    <3>2. PICK p \in 1..Len(s) : s[p] = r[i] /\ p = IF i < k THEN i ELSE i + 1
      BY <2>3
    <3>3. PICK q \in 1..Len(s) : s[q] = r[j] /\ q = IF j < k THEN j ELSE j + 1
      BY <2>3
    <3>4. p = q
      BY <2>5, <3>2, <3>3 DEF Once
    <3> QED
      BY <2>0, <3>1, <3>2, <3>3, <3>4
  <2>6. ASSUME Once(s, c), HasConn(r, c) PROVE FALSE
    <3>1. PICK i \in 1..Len(r) : r[i] = c
      BY <2>6 DEF HasConn
    <3>2. PICK j \in 1..Len(s) : j # k /\ s[j] = c
      BY <2>3, <3>1
    <3> QED
      BY <2>1, <2>6, <3>2 DEF Once
  <2> QED
    BY <2>2, <2>4, <2>5, <2>6 DEF r
<1> QED
  BY <1>1, <1>2

\* add puts one more entry of c at the end.
LEMMA AppendKeeps ==
  ASSUME NEW s \in Seq(Conns), NEW c \in Conns, NEW d \in Conns
  PROVE  /\ HasConn(Append(s, c), d) => HasConn(s, d) \/ d = c
         /\ HasConn(s, d) \/ d = c => HasConn(Append(s, c), d)
         /\ d # c /\ Once(s, d) => Once(Append(s, c), d)
         /\ ~HasConn(s, c) => Once(Append(s, c), c)
<1> DEFINE r == Append(s, c)
<1>0. Len(s) \in Nat
  BY LenProperties
<1>1. /\ Len(r) = Len(s) + 1
      /\ \A i \in 1..Len(s) : r[i] = s[i]
      /\ r[Len(s) + 1] = c
  BY AppendProperties
<1> HIDE DEF r
<1>2. \A i \in 1..Len(r) : i \in 1..Len(s) \/ i = Len(s) + 1
  BY <1>0, <1>1
<1>3. 1..Len(s) \subseteq 1..Len(r) /\ Len(s) + 1 \in 1..Len(r)
  BY <1>0, <1>1
<1>4. /\ HasConn(r, d) => HasConn(s, d) \/ d = c
      /\ HasConn(s, d) \/ d = c => HasConn(r, d)
  BY <1>1, <1>2, <1>3 DEF HasConn
<1>5. d # c /\ Once(s, d) => Once(r, d)
  BY <1>1, <1>2 DEF Once
<1>6. ~HasConn(s, c) => Once(r, c)
  BY <1>1, <1>2 DEF Once, HasConn
<1> QED
  BY <1>4, <1>5, <1>6 DEF r

---------------------------------------------------------------------------
(* The inductive invariant.  That a logged-in connection is listed needs   *)
(* that remove is only called on connections that have left the table;     *)
(* that a finished one is not listed needs that it is listed at most once, *)
(* under the VIN it holds, and that whoever marks it Closed still has its  *)
(* remove to come.                                                         *)

\* Past this point of Close the connection is marked.
Late == {"shut", "delete", "dec", "remove"}

LoggingIn == {"setstate", "addreg"}

\* unregister deletes from the table before it removes from the registry, and
\* a connection that left the table is not stored again.
Gone ==
  \A t \in Threads :
    closePc[t] \in {"dec", "remove"} => target[t] \notin connections

\* A login stores the VIN before the state and before it registers.
LoginHasVIN ==
  \A c \in Conns :
    /\ state[c] = "LoggedIn" \/ runPc[c] \in LoggingIn => vin[c] # NoVIN
    /\ runPc[c] = "none" => vin[c] = NoVIN

\* A connection in the table is listed under its VIN, unless its goroutine is
\* between the store of the VIN and the registration.
Listed ==
  \A c \in connections :
    vin[c] # NoVIN /\ runPc[c] \notin LoggingIn => HasConn(vins[vin[c]], c)

\* A connection that logged in once has at most one entry, under its VIN.
ListedOnce ==
  \A c \in Conns \ relogged : \A v \in VINs :
    /\ HasConn(vins[v], c) => v = vin[c] /\ runPc[c] \notin LoggingIn
    /\ Once(vins[v], c)

Owed(c) == \E t \in Threads : closePc[t] \in Late /\ target[t] = c

\* A closed connection that is listed, or is about to be, is still to be
\* removed.
RemovalOwed ==
  \A c \in Conns \ (relogged \cup raced) :
    /\ state[c] = "Closed"
    /\ runPc[c] = "addreg" \/ \E v \in VINs : HasConn(vins[v], c)
    => Owed(c)

RegInv == Gone /\ LoginHasVIN /\ Listed /\ ListedOnce /\ RemovalOwed

\* Nothing the registry's invariant speaks of changes.
Quiet ==
  /\ UNCHANGED <<vins, vin, state, relogged, raced>>
  /\ \A c \in Conns :
       /\ runPc[c] \in LoggingIn \/ runPc'[c] \in LoggingIn =>
            runPc'[c] = runPc[c]
       /\ runPc'[c] = "none" => runPc[c] = "none"
  /\ \A t \in Threads :
       closePc[t] \in Late \/ closePc'[t] \in Late =>
         closePc'[t] = closePc[t] /\ target'[t] = target[t]

---------------------------------------------------------------------------
(* Which actions are quiet.                                                *)

\* A call of Close starts a Close and touches none that is past its mark.
LEMMA CallCloseQuiet ==
  ASSUME TypeOK, NEW t \in Threads, NEW c \in Conns, closePc[t] = "none",
         CallClose(t, c)
  PROVE  \A u \in Threads :
           closePc[u] \in Late \/ closePc'[u] \in Late =>
             closePc'[u] = closePc[u] /\ target'[u] = target[u]
  BY DEF CallClose, TypeOK, Late

\* The accept loop: a connection it admits or refuses has not logged in.
LEMMA StartQuiet ==
  ASSUME TypeOK, LifeInv, Start \/ \E c \in Conns : Accept(c)
  PROVE  Quiet /\ (UNCHANGED connections \/ StoreConn)
<1>1. CASE RefuseConn \/ SpawnRun
  BY <1>1 DEF RefuseConn, SpawnRun, Quiet, LoggingIn, TypeOK, LifeInv, AdmitsNew
<1>2. CASE ~(RefuseConn \/ SpawnRun)
  BY <1>2 DEF Start, StartListen, StartIdle, StartFails, AcceptFails, AdmitConn,
     StoreConn, CountConn, Accept, Quiet
<1> QED
  BY <1>1, <1>2

\* Stop, the idle checker and the applications only call Close.
LEMMA CallersQuiet ==
  ASSUME TypeOK, LifeInv,
         \/ StopCancel \/ Stop \/ IdleExit \/ IdleLoop
         \/ \E a \in Apps, c \in Conns : AppClose(a, c)
         \/ UNCHANGED vars
  PROVE  Quiet /\ UNCHANGED connections
<1>1. UNCHANGED <<connections, vins, vin, state, relogged, raced, runPc>>
  <2>1. CASE StopCancel \/ Stop
    BY <2>1 DEF StopCancel, Stop, StopListener, StopRangeBegin, StopRangeEnd,
       StopWait, StopWoken, StopForwarders, StopRangeVisit, RangeSkip
  <2>2. CASE IdleExit \/ IdleLoop
    BY <2>2 DEF IdleExit, IdleLoop, IdleTick, IdleClose, IdleKeep,
       IdleRangeEnd, IdleVisit, IdleFresh, IdleProbeFails, IdleProbe, RangeSkip
  <2> QED
    BY <2>1, <2>2 DEF AppClose, vars
<1>2. CASE UNCHANGED closeVars
  BY <1>1, <1>2 DEF Quiet
<1>3. ASSUME NEW t \in Threads, NEW c \in Conns, closePc[t] = "none",
             CallClose(t, c)
      PROVE  Quiet
  BY <1>1, <1>3, CallCloseQuiet DEF Quiet
<1>4. CASE UNCHANGED vars
  BY <1>1, <1>2, <1>4 DEF vars
<1> QED
  BY <1>1, <1>2, <1>3, <1>4, CloseFrame

\* So does a connection's goroutine, but for its logins.
LEMMA RunQuiet ==
  ASSUME TypeOK, LifeInv, NEW c \in Conns, Run(c),
         ~(LoginVIN(c) \/ LoginState(c) \/ LoginRegister(c))
  PROVE  Quiet /\ UNCHANGED connections
<1>1. UNCHANGED <<connections, vins, vin, state, relogged, raced>>
  BY DEF Run, RunLoop, Read, ReadFails, LoginRejected, RunExit, RunDone
<1>2. \A d \in Conns :
        /\ runPc[d] \in LoggingIn \/ runPc'[d] \in LoggingIn =>
             runPc'[d] = runPc[d]
        /\ runPc'[d] = "none" => runPc[d] = "none"
  BY DEF Run, RunLoop, Read, ReadFails, LoginRejected, RunExit, RunDone,
     LoggingIn, TypeOK
<1>3. CASE UNCHANGED closeVars
  BY <1>1, <1>2, <1>3 DEF Quiet
<1>4. ASSUME NEW t \in Threads, NEW d \in Conns, closePc[t] = "none",
             CallClose(t, d)
      PROVE  Quiet
  BY <1>1, <1>2, <1>4, CallCloseQuiet DEF Quiet
<1> QED
  BY <1>1, <1>3, <1>4, CloseFrame

---------------------------------------------------------------------------
(* Every action preserves RegInv.                                          *)

\* A connection that is not stored yet has never logged in, so storing it
\* lists nobody and brings no closed connection back.
LEMMA RegQuiet ==
  ASSUME TypeOK, LifeInv, RegInv, Quiet, UNCHANGED connections \/ StoreConn
  PROVE  RegInv'
<1>0. ASSUME NEW c \in connections'
      PROVE  c \in Conns /\ (c \in connections \/ (StoreConn /\ c = accConn))
  <2>0. connections \subseteq Conns
    BY DEF TypeOK
  <2>1. CASE UNCHANGED connections
    BY <1>0, <2>0, <2>1
  <2>2. CASE StoreConn
    <3>1. connections' = connections \cup {accConn} /\ accConn \in Conns
      BY <2>2 DEF StoreConn, TypeOK
    <3> QED
      BY <1>0, <2>0, <2>2, <3>1
  <2> QED
    BY <2>1, <2>2
<1>1. ASSUME StoreConn
      PROVE  /\ accConn \in Conns /\ runPc[accConn] = "none"
             /\ \A t \in Threads : closePc[t] # "none" => target[t] # accConn
  BY <1>1 DEF StoreConn, TypeOK, LifeInv, AdmitsNew, FreshUntouched, Fresh
<1>2. Gone'
  BY <1>0, <1>1 DEF Quiet, RegInv, Gone, Late, StoreConn
<1>3. LoginHasVIN'
  BY DEF Quiet, RegInv, LoginHasVIN
<1>4. Listed'
  <2> SUFFICES ASSUME NEW c \in connections', vin'[c] # NoVIN,
                      runPc'[c] \notin LoggingIn
               PROVE  HasConn(vins'[vin'[c]], c)
    BY DEF Listed
  <2>1. c \in Conns
    BY <1>0 DEF TypeOK
  <2>2. vin[c] # NoVIN /\ runPc[c] \notin LoggingIn
    BY <2>1 DEF Quiet
  <2>3. c \in connections
    BY <1>0, <1>1, <2>2 DEF RegInv, LoginHasVIN
  <2> QED
    BY <2>2, <2>3 DEF Quiet, RegInv, Listed
<1>5. ListedOnce'
  BY DEF Quiet, RegInv, ListedOnce
<1>6. RemovalOwed'
  BY DEF Quiet, RegInv, RemovalOwed, Owed, LoggingIn
<1> QED
  BY <1>2, <1>3, <1>4, <1>5, <1>6 DEF RegInv

\* Logging in: the VIN, the state and the registry, in this order.
LEMMA RegLogin ==
  ASSUME TypeOK, LifeInv, RegInv, NEW c \in Conns,
         LoginVIN(c) \/ LoginState(c) \/ LoginRegister(c)
  PROVE  RegInv'
<1>0. c \in Threads
  BY DEF Threads
<1>1. CASE LoginVIN(c)
  <2>0. Head(inbox[c]) \in VINs /\ Head(inbox[c]) # NoVIN
    <3>1. inbox[c] \in Seq(Packets) /\ inbox[c] # <<>>
      BY <1>1 DEF LoginVIN, TypeOK
    <3>2. Head(inbox[c]) \in Packets
      BY <3>1, HeadTailProperties
    <3> QED
      BY <1>1, <3>2, NamesAssumption DEF LoginVIN, Packets
  <2>1. Gone'
    BY <1>1 DEF LoginVIN, RegInv, Gone
  <2>2. LoginHasVIN'
    BY <1>1, <2>0 DEF LoginVIN, RegInv, LoginHasVIN, TypeOK, LoggingIn
  <2>3. Listed'
    BY <1>1 DEF LoginVIN, RegInv, Listed, TypeOK, LoggingIn
  <2>4. ASSUME c \notin relogged', NEW v \in VINs PROVE ~HasConn(vins[v], c)
    BY <1>1, <2>4, NamesAssumption DEF LoginVIN, RegInv, ListedOnce
  <2>5. ListedOnce'
    BY <1>1, <2>4 DEF LoginVIN, RegInv, ListedOnce, TypeOK, LoggingIn
  <2>6. RemovalOwed'
    BY <1>1, <2>4 DEF LoginVIN, RegInv, RemovalOwed, Owed, TypeOK
  <2> QED
    BY <2>1, <2>2, <2>3, <2>5, <2>6 DEF RegInv
<1>2. CASE LoginState(c)
  <2>1. Gone'
    BY <1>2 DEF LoginState, RegInv, Gone
  <2>2. LoginHasVIN'
    BY <1>2 DEF LoginState, RegInv, LoginHasVIN, TypeOK, LoggingIn
  <2>3. Listed'
    BY <1>2 DEF LoginState, RegInv, Listed, TypeOK, LoggingIn
  <2>4. ListedOnce'
    BY <1>2 DEF LoginState, RegInv, ListedOnce, TypeOK, LoggingIn
  <2>5. RemovalOwed'
    BY <1>2 DEF LoginState, RegInv, RemovalOwed, Owed, TypeOK
  <2> QED
    BY <2>1, <2>2, <2>3, <2>4, <2>5 DEF RegInv
<1>3. CASE LoginRegister(c)
  <2>0. vin[c] \in VINs
    BY <1>3 DEF LoginRegister, RegInv, LoginHasVIN, TypeOK, LoggingIn
  <2>1. \A v \in VINs :
          /\ vins[v] \in Seq(Conns)
          /\ vins'[v] = IF v = vin[c] THEN Append(vins[v], c) ELSE vins[v]
    BY <1>3 DEF LoginRegister, add, TypeOK, Registries
  <2>2. ASSUME NEW v \in VINs, NEW d \in Conns
        PROVE  /\ HasConn(vins'[v], d) => HasConn(vins[v], d) \/ (v = vin[c] /\ d = c)
               /\ HasConn(vins[v], d) => HasConn(vins'[v], d)
               /\ v = vin[c] /\ d = c => HasConn(vins'[v], d)
               /\ d # c /\ Once(vins[v], d) => Once(vins'[v], d)
    <3>1. CASE v = vin[c]
      <4>1. vins[v] \in Seq(Conns) /\ vins'[v] = Append(vins[v], c)
        BY <2>1, <3>1
      <4> QED
        BY <3>1, <4>1, AppendKeeps
    <3>2. CASE v # vin[c]
      <4>1. vins'[v] = vins[v]
        BY <2>1, <3>2
      <4> QED
        BY <3>2, <4>1
    <3> QED
      BY <3>1, <3>2
  <2>3. Gone'
    BY <1>3 DEF LoginRegister, RegInv, Gone
  <2>4. LoginHasVIN'
    BY <1>3 DEF LoginRegister, RegInv, LoginHasVIN, TypeOK, LoggingIn
  <2>5. Listed'
    <3> SUFFICES ASSUME NEW d \in connections', vin'[d] # NoVIN,
                        runPc'[d] \notin LoggingIn
                 PROVE  HasConn(vins'[vin'[d]], d)
      BY DEF Listed
    <3>1. d \in connections /\ d \in Conns /\ vin'[d] = vin[d] /\ vin[d] \in VINs
      BY <1>3 DEF LoginRegister, TypeOK
    <3>2. CASE d = c
      BY <2>0, <2>2, <3>1, <3>2
    <3>3. CASE d # c
      <4>1. runPc[d] \notin LoggingIn
        BY <1>3, <3>1, <3>3 DEF LoginRegister, TypeOK
      <4>2. HasConn(vins[vin[d]], d)
        BY <3>1, <4>1 DEF RegInv, Listed
      <4> QED
        BY <2>2, <3>1, <4>2
    <3> QED
      BY <3>2, <3>3
  <2>6. ListedOnce'
    <3> SUFFICES ASSUME NEW d \in Conns \ relogged', NEW v \in VINs
                 PROVE  /\ HasConn(vins'[v], d) =>
                             v = vin'[d] /\ runPc'[d] \notin LoggingIn
                        /\ Once(vins'[v], d)
      BY DEF ListedOnce
    <3>0. /\ d \in Conns /\ d \notin relogged /\ vin'[d] = vin[d]
          /\ runPc'[d] = IF d = c THEN "process" ELSE runPc[d]
      BY <1>3 DEF LoginRegister, TypeOK
    <3>1. CASE d # c
      BY <2>2, <3>0, <3>1 DEF RegInv, ListedOnce
    <3>2. CASE d = c
      <4>1. ~HasConn(vins[v], c)
        BY <1>3, <3>0, <3>2 DEF LoginRegister, RegInv, ListedOnce, LoggingIn
      <4>2. Once(vins'[v], c)
        BY <2>1, <3>0, <3>2, <4>1, AppendKeeps DEF RegInv, ListedOnce
      <4> QED
        BY <2>2, <3>0, <3>2, <4>1, <4>2 DEF LoggingIn
    <3> QED
      BY <3>1, <3>2
  <2>7. RemovalOwed'
    <3> SUFFICES ASSUME NEW d \in Conns \ (relogged' \cup raced'),
                        state'[d] = "Closed",
                        runPc'[d] = "addreg"
                          \/ \E v \in VINs : HasConn(vins'[v], d)
                 PROVE  Owed(d)'
      BY DEF RemovalOwed
    <3>0. runPc'[d] = "addreg" => runPc[d] = "addreg"
      BY <1>3 DEF LoginRegister, TypeOK
    <3>1. runPc[d] = "addreg" \/ \E v \in VINs : HasConn(vins[v], d)
      <4>1. CASE d = c
        BY <1>3, <4>1 DEF LoginRegister
      <4>2. CASE d # c
        BY <2>2, <3>0, <4>2
      <4> QED
        BY <4>1, <4>2
    <3> QED
      BY <1>3, <3>1 DEF LoginRegister, RegInv, RemovalOwed, Owed
  <2> QED
    BY <2>3, <2>4, <2>5, <2>6, <2>7 DEF RegInv
<1> QED
  BY <1>1, <1>2, <1>3

\* Close, but for its last step: it marks the connection before it owes the
\* removal, and deletes it from the table before that.
LEMMA RegClosing ==
  ASSUME TypeOK, LifeInv, RegInv, NEW t \in Threads,
         CloseMark(t) \/ CloseShut(t) \/ CloseDelete(t) \/ CloseDec(t)
  PROVE  RegInv'
<1>0. target[t] \in Conns
  BY DEF CloseMark, CloseShut, CloseDelete, CloseDec, TypeOK
<1>1. /\ UNCHANGED <<vins, vin, relogged, raced, runPc, target>>
      /\ connections' \subseteq connections
  BY DEF CloseMark, CloseShut, CloseDelete, CloseDec
<1>2. Gone'
  BY <1>0 DEF CloseMark, CloseShut, CloseDelete, CloseDec, RegInv, Gone, TypeOK
<1>3. LoginHasVIN'
  BY <1>0, <1>1 DEF CloseMark, CloseShut, CloseDelete, CloseDec, RegInv,
     LoginHasVIN, TypeOK
<1>4. Listed'
  BY <1>1 DEF RegInv, Listed
<1>5. ListedOnce'
  BY <1>1 DEF RegInv, ListedOnce
<1>6. RemovalOwed'
  <2> SUFFICES ASSUME NEW c \in Conns \ (relogged' \cup raced'),
                      state'[c] = "Closed",
                      runPc'[c] = "addreg" \/ \E v \in VINs : HasConn(vins'[v], c)
               PROVE  Owed(c)'
    BY DEF RemovalOwed
  <2>1. CASE c = target[t]
    <3>1. closePc'[t] \in Late \/ closePc[t] = "mark"
      BY DEF CloseMark, CloseShut, CloseDelete, CloseDec, Late, TypeOK
    <3>2. closePc'[t] \in Late
      BY <3>1 DEF CloseMark, CloseShut, CloseDelete, CloseDec, Late, TypeOK
    <3> QED
      BY <1>1, <2>1, <3>2 DEF Owed
  <2>2. CASE c # target[t]
    <3>1. state[c] = "Closed"
      BY <2>2 DEF CloseMark, CloseShut, CloseDelete, CloseDec, TypeOK
    <3>2. PICK u \in Threads : closePc[u] \in Late /\ target[u] = c
      BY <1>1, <3>1 DEF RegInv, RemovalOwed, Owed
    <3>3. closePc'[u] = closePc[u]
      BY <2>2, <3>2 DEF CloseMark, CloseShut, CloseDelete, CloseDec, TypeOK
    <3> QED
      BY <1>1, <3>2, <3>3 DEF Owed
  <2> QED
    BY <2>1, <2>2
<1> QED
  BY <1>2, <1>3, <1>4, <1>5, <1>6 DEF RegInv

\* The last step of unregister takes the only entry of a connection that
\* logged in once, and no entry of a connection that is still in the table.
LEMMA RegRemove ==
  ASSUME TypeOK, LifeInv, RegInv, NEW t \in Threads, CloseRemove(t)
  PROVE  RegInv'
<1> DEFINE c == target[t]
<1>0. c \in Conns /\ c \notin connections
  BY DEF CloseRemove, TypeOK, RegInv, Gone
<1>1. /\ UNCHANGED <<connections, vin, state, relogged, runPc>>
      /\ \A u \in Threads \ {t} :
           closePc'[u] = closePc[u] /\ target'[u] = target[u]
      /\ closePc'[t] = "none"
  BY DEF CloseRemove, TypeOK
<1>2. ASSUME NEW v \in VINs
      PROVE  /\ vins[v] \in Seq(Conns)
             /\ vins'[v] = IF v = vin[c] THEN RemoveFirst(vins[v], c)
                                         ELSE vins[v]
  BY <1>0, NamesAssumption DEF CloseRemove, remove, TypeOK, Registries
<1> HIDE DEF c
<1>3. ASSUME NEW v \in VINs, NEW d \in Conns
      PROVE  /\ HasConn(vins'[v], d) => HasConn(vins[v], d)
             /\ d # c /\ HasConn(vins[v], d) => HasConn(vins'[v], d)
             /\ Once(vins[v], d) => Once(vins'[v], d)
             /\ v = vin[c] /\ Once(vins[v], c) => ~HasConn(vins'[v], c)
  <2>1. CASE v = vin[c]
    <3>1. vins[v] \in Seq(Conns) /\ vins'[v] = RemoveFirst(vins[v], c)
      BY <1>2, <2>1
    <3> QED
      BY <1>0, <3>1, RemoveFirstKeeps
  <2>2. CASE v # vin[c]
    <3>1. vins'[v] = vins[v]
      BY <1>2, <2>2
    <3> QED
      BY <2>2, <3>1
  <2> QED
    BY <2>1, <2>2
<1>4. Gone'
  BY <1>1 DEF RegInv, Gone
<1>5. LoginHasVIN'
  BY <1>1 DEF RegInv, LoginHasVIN
<1>6. Listed'
  <2> SUFFICES ASSUME NEW d \in connections, vin[d] # NoVIN,
                      runPc[d] \notin LoggingIn
               PROVE  HasConn(vins'[vin[d]], d)
    BY <1>1 DEF Listed
  <2>1. d \in Conns /\ d # c /\ vin[d] \in VINs
    BY <1>0 DEF TypeOK
  <2>2. HasConn(vins[vin[d]], d)
    BY DEF RegInv, Listed
  <2> QED
    BY <1>3, <2>1, <2>2
<1>7. ListedOnce'
  <2> SUFFICES ASSUME NEW d \in Conns \ relogged, NEW v \in VINs
               PROVE  /\ HasConn(vins'[v], d) =>
                           v = vin[d] /\ runPc[d] \notin LoggingIn
                      /\ Once(vins'[v], d)
    BY <1>1 DEF ListedOnce
  <2>1. /\ HasConn(vins[v], d) => v = vin[d] /\ runPc[d] \notin LoggingIn
        /\ Once(vins[v], d)
    BY DEF RegInv, ListedOnce
  <2> QED
    BY <1>3, <2>1
<1>8. RemovalOwed'
  <2> SUFFICES ASSUME NEW d \in Conns \ (relogged' \cup raced'),
                      state'[d] = "Closed",
                      runPc'[d] = "addreg" \/ \E v \in VINs : HasConn(vins'[v], d)
               PROVE  Owed(d)'
    BY DEF RemovalOwed
  <2>0. d \in Conns /\ d \notin relogged /\ d \notin raced /\ d \notin raced'
    BY <1>1 DEF CloseRemove
  <2>1. runPc[d] = "addreg" \/ \E v \in VINs : HasConn(vins[v], d)
    BY <1>1, <1>3, <2>0
  <2>2. d # c
    <3> SUFFICES ASSUME d = c PROVE FALSE
      OBVIOUS
    <3>1. CASE runPc[d] = "addreg"
      <4>1. t = c
        BY <2>0, <3>1 DEF CloseRemove, c, TypeOK
      <4>2. runPc[c] \in {"process", "join"}
        BY <1>0, <4>1 DEF CloseRemove, LifeInv, ClosesItself
      <4> QED
        BY <3>1, <4>2
    <3>2. CASE \E v \in VINs : HasConn(vins'[v], d)
      <4>1. PICK v \in VINs : HasConn(vins'[v], c)
        BY <3>2
      <4>2. v = vin[c] /\ Once(vins[v], c)
        BY <1>3, <2>0, <4>1 DEF RegInv, ListedOnce
      <4> QED
        BY <1>0, <1>3, <4>1, <4>2
    <3> QED
      BY <1>1, <3>1, <3>2
  <2>3. PICK u \in Threads : closePc[u] \in Late /\ target[u] = d
    BY <1>1, <2>0, <2>1 DEF RegInv, RemovalOwed, Owed
  <2>4. u # t
    BY <2>2, <2>3 DEF c
  <2> QED
    BY <1>1, <2>3, <2>4 DEF Owed
<1> QED
  BY <1>4, <1>5, <1>6, <1>7, <1>8 DEF RegInv

\* RegInv is inductive.
LEMMA RegStep == TypeOK /\ LifeInv /\ RegInv /\ [Next]_vars => RegInv'
<1> SUFFICES ASSUME TypeOK, LifeInv, RegInv, [Next]_vars PROVE RegInv'
  OBVIOUS
<1>1. CASE Start \/ \E c \in Conns : Accept(c)
  BY <1>1, StartQuiet, RegQuiet
<1>2. CASE \/ StopCancel \/ Stop \/ IdleExit \/ IdleLoop
           \/ \E a \in Apps, c \in Conns : AppClose(a, c)
           \/ UNCHANGED vars
  BY <1>2, CallersQuiet, RegQuiet
<1>3. ASSUME NEW c \in Conns, Run(c) PROVE RegInv'
  BY <1>3, RunQuiet, RegQuiet, RegLogin
<1>4. ASSUME NEW t \in Threads, CloseStep(t) PROVE RegInv'
  BY <1>4, RegClosing, RegRemove DEF CloseStep
<1> QED
  BY <1>1, <1>2, <1>3, <1>4 DEF Next, Step

\* Nobody is listed and nobody has logged in before Start.
LEMMA RegInit == Init => RegInv
<1> SUFFICES ASSUME Init PROVE RegInv
  OBVIOUS
<1>1. \A v \in VINs, c \in Conns : ~HasConn(vins[v], c) /\ Once(vins[v], c)
  <2>1. \A v \in VINs : vins[v] = <<>>
    BY DEF Init, newVinRegistry
  <2>2. Len(<<>>) = 0
    BY EmptySeq
  <2> QED
    BY <2>1, <2>2 DEF HasConn, Once
<1>2. Gone /\ LoginHasVIN /\ Listed
  BY DEF Init, Gone, LoginHasVIN, Listed, LoggingIn
<1>3. ListedOnce /\ RemovalOwed
  BY <1>1 DEF Init, ListedOnce, RemovalOwed
<1> QED
  BY <1>2, <1>3 DEF RegInv

---------------------------------------------------------------------------
(* The theorems.                                                           *)

\* GetConnectionByVIN, for any number of connections that share VINs: a
\* connection in the table that has logged in is in the list of its VIN, and
\* its VIN is found.
THEOREM LoggedInIsFound == Spec => []FoundByVIN
<1>1. TypeOK /\ RegInv => FoundByVIN
  <2> SUFFICES ASSUME TypeOK, RegInv, NEW c \in connections,
                      state[c] = "LoggedIn", runPc[c] \notin LoggingIn
               PROVE  /\ get(vins, vin[c]) # NoConn
                      /\ c \in Range(getAll(vins, vin[c]))
    BY DEF FoundByVIN, LoggingIn
  <2> DEFINE s == vins[vin[c]]
  <2>1. c \in Conns /\ vin[c] # NoVIN /\ vin[c] \in VINs
    BY DEF TypeOK, RegInv, LoginHasVIN
  <2>2. s \in Seq(Conns)
    BY <2>1 DEF TypeOK, Registries
  <2>3. PICK i \in 1..Len(s) : s[i] = c
    BY <2>1 DEF RegInv, Listed, HasConn
  <2>4. s # <<>>
    BY <2>3, EmptySeq
  <2>5. Head(s) \in Conns
    BY <2>2, <2>4, HeadTailProperties
  <2>6. get(vins, vin[c]) # NoConn
    BY <2>4, <2>5, NoConnAssumption DEF get
  <2>7. c \in Range(s)
    BY <2>2, <2>3, LenProperties DEF Range
  <2> QED
    BY <2>6, <2>7 DEF getAll
<1> QED
  BY <1>1, TypeInit, TypeStep, LifeInit, LifeStep, RegInit, RegStep, PTL
     DEF Spec

\* unregister: a connection whose goroutine has ended and that nobody is
\* closing has left the registry, unless it logged in twice or another
\* goroutine's unregister overtook its login.
THEOREM RegistryIsCleaned == Spec => []RegistryClean
<1>1. TypeOK /\ LifeInv /\ RegInv => RegistryClean
  <2> SUFFICES ASSUME TypeOK, LifeInv, RegInv, NEW c \in Conns,
                      runPc[c] = "done", ClosersOf(c) = {},
                      c \notin relogged \cup raced
               PROVE  \A v \in VINs : ~HasConn(vins[v], c)
    BY DEF RegistryClean, HasConn
  <2>1. closePc[c] = "none"
    BY DEF LifeInv, ClosesItself
  <2>2. state[c] = "Closed"
    BY <2>1 DEF LifeInv, EndsClosed
  <2>3. ~Owed(c)
    BY DEF Owed, ClosersOf, Late
  <2> QED
    BY <2>2, <2>3 DEF RegInv, RemovalOwed
<1> QED
  BY <1>1, TypeInit, TypeStep, LifeInit, LifeStep, RegInit, RegStep, PTL
     DEF Spec
============================================================================
