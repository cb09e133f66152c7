------------------------------ MODULE Server ------------------------------
(***************************************************************************)
(* Life and death of connections in the server (server.go, conn.go): the   *)
(* accept loop of Start, one run goroutine per connection, Stop, the idle  *)
(* checker, and application goroutines that call Connection.Close.  They   *)
(* share the connection table, the connection counter, the WaitGroup and   *)
(* the VIN registry, and Close may be called on one connection by several  *)
(* of them at once.                                                        *)
(*                                                                         *)
(* Packets are reduced to what matters here: a login that authenticates    *)
(* (the VIN it carries) and a login the Authenticator refuses.  Every      *)
(* other packet, and a login whose body does not decode, leaves this state *)
(* alone, so a read that holds only such packets is an empty batch.        *)
(***************************************************************************)
EXTENDS Integers, FiniteSets, VinRegistry

CONSTANTS MaxConns,     \* s.maxConns
          IdleTimeout,  \* is s.idleTimeout > 0: does the idle checker run
          NoVIN,        \* the empty string of c.vin
          Rejected,     \* a login packet the Authenticator refuses
          Stopper,      \* the goroutine that calls Stop
          Idler,        \* the goroutine of idleCheckLoop
          Apps,         \* application goroutines that may call Close
          MaxLogins,    \* bound: login packets a peer sends
          MaxBatch      \* bound: login packets one Read delivers

\* A connection's name is also the name of its run goroutine.
Threads == Conns \cup Apps \cup {Stopper, Idler}

Rangers == {Stopper, Idler}

ASSUME ConnsAssumption == IsFiniteSet(Conns)
ASSUME MaxConnsAssumption == MaxConns \in Nat
ASSUME IdleAssumption == IdleTimeout \in BOOLEAN
ASSUME BoundsAssumption == MaxLogins \in Nat /\ MaxBatch \in Nat
ASSUME NamesAssumption ==
  /\ NoVIN \notin VINs
  /\ Rejected \notin VINs
  /\ Stopper # Idler
  /\ Rangers \cap (Conns \cup Apps) = {}
  /\ Apps \cap Conns = {}

Packets == VINs \cup {Rejected}

VARIABLES
  listener,     \* s.listener: "nil" before Listen, then "open", "closed"
  ctxDone,      \* s.ctx is cancelled
  connections,  \* the connections stored in s.connections
  connCount,    \* s.connCount
  wg,           \* the counter of s.wg
  vins,         \* s.vinRegistry
  state,        \* c.state
  vin,          \* c.vin
  shut,         \* the connections whose ctx is cancelled and socket closed
  accPc,        \* where Start is
  accConn,      \* the connection Start is admitting
  runPc,        \* where each run goroutine is
  inbox,        \* login packets read and not handled yet
  stopPc,       \* where Stop is
  idlePc,       \* where idleCheckLoop is
  idleConn,     \* the connection it has probed
  todo,         \* what the Range of Stop, of idleCheckLoop, has left
  closePc,      \* where each goroutine is inside Close
  target,       \* the connection it is closing
  sent,         \* bound: login packets each peer has sent
  early,        \* history: connections running when Stop was called
  relogged,     \* history: connections that logged in more than once
  raced         \* history: removed by another goroutine during a login

connVars == <<state, vin, shut>>
tableVars == <<connections, connCount, vins>>
accVars == <<listener, accPc, accConn>>
runVars == <<runPc, inbox, sent>>
stopVars == <<ctxDone, stopPc>>
idleVars == <<idlePc, idleConn>>
closeVars == <<closePc, target>>
history == <<early, relogged, raced>>
vars == <<connVars, tableVars, accVars, runVars, stopVars, idleVars, todo,
          closeVars, wg, history>>

Running == {c \in Conns :
              runPc[c] \notin {"none", "refused", "done"}}

ClosersOf(c) == {t \in Threads : closePc[t] # "none" /\ target[t] = c}

Init ==
  /\ listener = "nil" /\ ctxDone = FALSE
  /\ connections = {} /\ connCount = 0 /\ wg = 0
  /\ vins = newVinRegistry
  /\ state = [c \in Conns |-> "New"]
  /\ vin = [c \in Conns |-> NoVIN]
  /\ shut = {}
  /\ accPc = "off" /\ accConn = NoConn
  /\ runPc = [c \in Conns |-> "none"]
  /\ inbox = [c \in Conns |-> <<>>]
  /\ stopPc = "none"
  /\ idlePc = "off" /\ idleConn = NoConn
  /\ todo = [t \in Rangers |-> {}]
  /\ closePc = [t \in Threads |-> "none"]
  /\ target = [t \in Threads |-> NoConn]
  /\ sent = [c \in Conns |-> 0]
  /\ early = {} /\ relogged = {} /\ raced = {}

---------------------------------------------------------------------------
(* s.wg.  Done that takes the counter to zero releases a blocked Wait; a   *)
(* Wait that wakes to a counter above zero panics ("WaitGroup is reused"). *)

WgAdd == wg' = wg + 1

WgDone ==
  /\ wg' = wg - 1
  /\ stopPc' = IF wg = 1 /\ stopPc = "waiting" THEN "woken" ELSE stopPc

---------------------------------------------------------------------------
(* Connection.Close, by goroutine t.  The state is loaded first and stored *)
(* by a later step: nothing keeps two goroutines from passing the check.   *)

CallClose(t, c) ==
  IF state[c] = "Closed"
  THEN UNCHANGED closeVars
  ELSE /\ closePc' = [closePc EXCEPT ![t] = "mark"]
       /\ target' = [target EXCEPT ![t] = c]

\* Mutant: the socket is not closed.
CloseMarkOnly(t) ==
  /\ closePc[t] = "mark"
  /\ state' = [state EXCEPT ![target[t]] = "Closed"]
  /\ closePc' = [closePc EXCEPT ![t] = "delete"]
  /\ UNCHANGED <<vin, shut, tableVars, accVars, runVars, stopVars, idleVars,
                 todo, target, wg, history>>

CloseMark(t) ==
  /\ closePc[t] = "mark"
  /\ state' = [state EXCEPT ![target[t]] = "Closed"]
  /\ closePc' = [closePc EXCEPT ![t] = "shut"]
  /\ UNCHANGED <<vin, shut, tableVars, accVars, runVars, stopVars, idleVars,
                 todo, target, wg, history>>

\* cancel and conn.Close: only the connection's own goroutine sees them.
CloseShut(t) ==
  /\ closePc[t] = "shut"
  /\ shut' = shut \cup {target[t]}
  /\ closePc' = [closePc EXCEPT ![t] = "delete"]
  /\ UNCHANGED <<state, vin, tableVars, accVars, runVars, stopVars, idleVars,
                 todo, target, wg, history>>

\* unregister, in its three steps.
CloseDelete(t) ==
  /\ closePc[t] = "delete"
  /\ connections' = connections \ {target[t]}
  /\ closePc' = [closePc EXCEPT ![t] = "dec"]
  /\ UNCHANGED <<connVars, connCount, vins, accVars, runVars, stopVars,
                 idleVars, todo, target, wg, history>>

\* Mutant: the target is forgotten one step too early.
CloseDecForgets(t) ==
  /\ closePc[t] = "dec"
  /\ connCount' = connCount - 1
  /\ closePc' = [closePc EXCEPT ![t] = "remove"]
  /\ target' = [target EXCEPT ![t] = NoConn]
  /\ UNCHANGED <<connVars, connections, vins, accVars, runVars, stopVars,
                 idleVars, todo, wg, history>>

\* Mutant: only connections that logged in are discounted.
CloseDecLoggedIn(t) ==
  /\ closePc[t] = "dec"
  /\ connCount' = IF vin[target[t]] # NoVIN THEN connCount - 1 ELSE connCount
  /\ closePc' = [closePc EXCEPT ![t] = "remove"]
  /\ UNCHANGED <<connVars, connections, vins, accVars, runVars, stopVars,
                 idleVars, todo, target, wg, history>>

CloseDec(t) ==
  /\ closePc[t] = "dec"
  /\ connCount' = connCount - 1
  /\ closePc' = [closePc EXCEPT ![t] = "remove"]
  /\ UNCHANGED <<connVars, connections, vins, accVars, runVars, stopVars,
                 idleVars, todo, target, wg, history>>

CloseRemove(t) ==
  LET c == target[t] IN
  /\ closePc[t] = "remove"
  /\ vins' = IF vin[c] # NoVIN THEN remove(vins, vin[c], c) ELSE vins
  /\ raced' = IF t # c /\ runPc[c] = "addreg" THEN raced \cup {c} ELSE raced
  /\ closePc' = [closePc EXCEPT ![t] = "none"]
  /\ target' = [target EXCEPT ![t] = NoConn]
  /\ UNCHANGED <<connVars, connections, connCount, accVars, runVars, stopVars,
                 idleVars, todo, wg, early, relogged>>

CloseStep(t) ==
  CloseMark(t) \/ CloseShut(t) \/ CloseDelete(t) \/ CloseDec(t)
    \/ CloseRemove(t)

---------------------------------------------------------------------------
(* Start: listen, start the idle checker, accept.                          *)

StartListen ==
  /\ accPc = "off"
  /\ listener' = "open"
  /\ accPc' = "idle"
  /\ UNCHANGED <<connVars, tableVars, accConn, runVars, stopVars, idleVars,
                 todo, closeVars, wg, history>>

StartIdle ==
  /\ accPc = "idle"
  /\ accPc' = "accept"
  /\ IF IdleTimeout
     THEN WgAdd /\ idlePc' = "select"
     ELSE UNCHANGED <<wg, idlePc>>
  /\ UNCHANGED <<connVars, tableVars, listener, accConn, runVars, stopVars,
                 idleConn, todo, closeVars, history>>

StartFails ==
  /\ accPc = "off"
  /\ accPc' = "done"
  /\ UNCHANGED <<connVars, tableVars, listener, accConn, runVars, stopVars,
                 idleVars, todo, closeVars, wg, history>>

Accept(c) ==
  /\ accPc = "accept" /\ listener = "open"
  /\ runPc[c] = "none"
  /\ accConn' = c
  /\ accPc' = "check"
  /\ UNCHANGED <<connVars, tableVars, listener, runVars, stopVars, idleVars,
                 todo, closeVars, wg, history>>

\* Accept fails, on the closed listener or for another reason; without
\* ctx.Done Start tries again.
AcceptFails ==
  /\ accPc = "accept" /\ ctxDone
  /\ accPc' = "done"
  /\ UNCHANGED <<connVars, tableVars, listener, accConn, runVars, stopVars,
                 idleVars, todo, closeVars, wg, history>>

RefuseConn ==
  /\ accPc = "check" /\ connCount >= MaxConns
  /\ runPc' = [runPc EXCEPT ![accConn] = "refused"]
  /\ shut' = shut \cup {accConn}
  /\ accPc' = "accept" /\ accConn' = NoConn
  /\ UNCHANGED <<state, vin, tableVars, listener, inbox, sent, stopVars,
                 idleVars, todo, closeVars, wg, history>>

\* Mutant: the limit is off by one.
AdmitConnOneMore ==
  /\ accPc = "check" /\ connCount <= MaxConns
  /\ accPc' = "store"
  /\ UNCHANGED <<connVars, tableVars, listener, accConn, runVars, stopVars,
                 idleVars, todo, closeVars, wg, history>>

AdmitConn ==
  /\ accPc = "check" /\ connCount < MaxConns
  /\ accPc' = "store"
  /\ UNCHANGED <<connVars, tableVars, listener, accConn, runVars, stopVars,
                 idleVars, todo, closeVars, wg, history>>

\* A Range that is under way may or may not meet the new key.
StoreConn ==
  /\ accPc = "store"
  /\ connections' = connections \cup {accConn}
  /\ \E seen \in SUBSET {t \in Rangers : todo[t] # {}} :
       todo' = [t \in Rangers |->
                  IF t \in seen THEN todo[t] \cup {accConn} ELSE todo[t]]
  /\ accPc' = "count"
  /\ UNCHANGED <<connVars, connCount, vins, listener, accConn, runVars,
                 stopVars, idleVars, closeVars, wg, history>>

CountConn ==
  /\ accPc = "count"
  /\ connCount' = connCount + 1
  /\ accPc' = "spawn"
  /\ UNCHANGED <<connVars, connections, vins, listener, accConn, runVars,
                 stopVars, idleVars, todo, closeVars, wg, history>>

SpawnRun ==
  /\ accPc = "spawn"
  /\ WgAdd
  /\ runPc' = [runPc EXCEPT ![accConn] = "process"]
  /\ accPc' = "accept" /\ accConn' = NoConn
  /\ UNCHANGED <<connVars, tableVars, listener, inbox, sent, stopVars,
                 idleVars, todo, closeVars, history>>

Start ==
  \/ StartListen \/ StartIdle \/ StartFails \/ AcceptFails
  \/ RefuseConn \/ AdmitConn \/ StoreConn \/ CountConn \/ SpawnRun

---------------------------------------------------------------------------
(* run: the goroutine of connection c.  "process" is processPackets and    *)
(* the check of c.ctx at the head of the loop.                             *)

RunLoop(c) ==
  /\ runPc[c] = "process" /\ closePc[c] = "none" /\ inbox[c] = <<>>
  /\ runPc' = [runPc EXCEPT ![c] = IF c \in shut THEN "exit" ELSE "read"]
  /\ UNCHANGED <<connVars, tableVars, accVars, inbox, sent, stopVars,
                 idleVars, todo, closeVars, wg, history>>

Read(c) ==
  /\ runPc[c] = "read" /\ c \notin shut
  /\ \E n \in 0..MaxBatch : \E batch \in [1..n -> Packets] :
       /\ sent[c] + n <= MaxLogins
       /\ inbox' = [inbox EXCEPT ![c] = batch]
       /\ sent' = [sent EXCEPT ![c] = @ + n]
  /\ runPc' = [runPc EXCEPT ![c] = "process"]
  /\ UNCHANGED <<connVars, tableVars, accVars, stopVars, idleVars, todo,
                 closeVars, wg, history>>

\* The socket is closed, the peer is gone, or the read deadline passed.
ReadFails(c) ==
  /\ runPc[c] = "read"
  /\ runPc' = [runPc EXCEPT ![c] = "exit"]
  /\ UNCHANGED <<connVars, tableVars, accVars, inbox, sent, stopVars,
                 idleVars, todo, closeVars, wg, history>>

\* Mutant: the refused packet stays in the buffer.
LoginRejectedAgain(c) ==
  /\ runPc[c] = "process" /\ closePc[c] = "none"
  /\ inbox[c] # <<>> /\ Head(inbox[c]) = Rejected
  /\ CallClose(c, c)
  /\ UNCHANGED <<connVars, tableVars, accVars, runVars, stopVars,
                 idleVars, todo, wg, history>>

\* handlePacket of a login that the Authenticator refuses: Close and go on
\* with the next packet of the batch.
LoginRejected(c) ==
  /\ runPc[c] = "process" /\ closePc[c] = "none"
  /\ inbox[c] # <<>> /\ Head(inbox[c]) = Rejected
  /\ inbox' = [inbox EXCEPT ![c] = Tail(@)]
  /\ CallClose(c, c)
  /\ UNCHANGED <<connVars, tableVars, accVars, runPc, sent, stopVars,
                 idleVars, todo, wg, history>>

\* handlePacket of an accepted login: c.vin, then c.state, then the registry.
LoginVIN(c) ==
  /\ runPc[c] = "process" /\ closePc[c] = "none"
  /\ inbox[c] # <<>> /\ Head(inbox[c]) # Rejected
  /\ vin' = [vin EXCEPT ![c] = Head(inbox[c])]
  /\ inbox' = [inbox EXCEPT ![c] = Tail(@)]
  /\ runPc' = [runPc EXCEPT ![c] = "setstate"]
  /\ relogged' = IF vin[c] # NoVIN THEN relogged \cup {c} ELSE relogged
  /\ UNCHANGED <<state, shut, tableVars, accVars, sent, stopVars, idleVars,
                 todo, closeVars, wg, early, raced>>

LoginState(c) ==
  /\ runPc[c] = "setstate"
  /\ state' = [state EXCEPT ![c] = "LoggedIn"]
  /\ runPc' = [runPc EXCEPT ![c] = "addreg"]
  /\ UNCHANGED <<vin, shut, tableVars, accVars, inbox, sent, stopVars,
                 idleVars, todo, closeVars, wg, history>>

LoginRegister(c) ==
  /\ runPc[c] = "addreg"
  /\ vins' = add(vins, vin[c], c)
  /\ runPc' = [runPc EXCEPT ![c] = "process"]
  /\ UNCHANGED <<connVars, connections, connCount, accVars, inbox, sent,
                 stopVars, idleVars, todo, closeVars, wg, history>>

\* Mutant: run has no deferred Close.
RunExitWithoutClose(c) ==
  /\ runPc[c] = "exit"
  /\ runPc' = [runPc EXCEPT ![c] = "join"]
  /\ UNCHANGED <<connVars, tableVars, accVars, inbox, sent, stopVars,
                 idleVars, todo, closeVars, wg, history>>

\* The deferred Close, then the deferred wg.Done.
RunExit(c) ==
  /\ runPc[c] = "exit"
  /\ runPc' = [runPc EXCEPT ![c] = "join"]
  /\ CallClose(c, c)
  /\ UNCHANGED <<connVars, tableVars, accVars, inbox, sent, stopVars,
                 idleVars, todo, wg, history>>

RunDone(c) ==
  /\ runPc[c] = "join" /\ closePc[c] = "none"
  /\ runPc' = [runPc EXCEPT ![c] = "done"]
  /\ WgDone
  /\ UNCHANGED <<connVars, tableVars, accVars, inbox, sent, ctxDone,
                 idleVars, todo, closeVars, history>>

Run(c) ==
  \/ RunLoop(c) \/ Read(c) \/ ReadFails(c)
  \/ LoginRejected(c) \/ LoginVIN(c) \/ LoginState(c) \/ LoginRegister(c)
  \/ RunExit(c) \/ RunDone(c)

---------------------------------------------------------------------------
(* Stop, called once, at any moment.                                       *)

StopCancel ==
  /\ stopPc = "none"
  /\ ctxDone' = TRUE
  /\ early' = Running
  /\ stopPc' = "listener"
  /\ UNCHANGED <<connVars, tableVars, accVars, runVars, idleVars, todo,
                 closeVars, wg, relogged, raced>>

\* A nil listener (Start has not listened yet) is not closed, now or later.
StopListener ==
  /\ stopPc = "listener"
  /\ listener' = IF listener = "open" THEN "closed" ELSE listener
  /\ stopPc' = "begin"
  /\ UNCHANGED <<connVars, tableVars, accPc, accConn, runVars, ctxDone,
                 idleVars, todo, closeVars, wg, history>>

StopRangeBegin ==
  /\ stopPc = "begin"
  /\ todo' = [todo EXCEPT ![Stopper] = connections]
  /\ stopPc' = "range"
  /\ UNCHANGED <<connVars, tableVars, accVars, runVars, ctxDone, idleVars,
                 closeVars, wg, history>>

StopRangeVisit(c) ==
  /\ stopPc = "range" /\ closePc[Stopper] = "none" /\ c \in todo[Stopper]
  /\ todo' = [todo EXCEPT ![Stopper] = @ \ {c}]
  /\ CallClose(Stopper, c)
  /\ UNCHANGED <<connVars, tableVars, accVars, runVars, stopVars, idleVars,
                 wg, history>>

\* Range passes over a key that was deleted before it got there.
RangeSkip(t, c) ==
  /\ c \in todo[t] /\ c \notin connections
  /\ todo' = [todo EXCEPT ![t] = @ \ {c}]
  /\ UNCHANGED <<connVars, tableVars, accVars, runVars, stopVars, idleVars,
                 closeVars, wg, history>>

StopRangeEnd ==
  /\ stopPc = "range" /\ closePc[Stopper] = "none" /\ todo[Stopper] = {}
  /\ stopPc' = "wait"
  /\ UNCHANGED <<connVars, tableVars, accVars, runVars, ctxDone, idleVars,
                 todo, closeVars, wg, history>>

\* Mutant: Stop goes on without waiting.
StopWaitNot ==
  /\ stopPc = "wait"
  /\ stopPc' = "forwarders"
  /\ UNCHANGED <<connVars, tableVars, accVars, runVars, ctxDone, idleVars,
                 todo, closeVars, wg, history>>

StopWait ==
  /\ stopPc = "wait"
  /\ stopPc' = IF wg = 0 THEN "forwarders" ELSE "waiting"
  /\ UNCHANGED <<connVars, tableVars, accVars, runVars, ctxDone, idleVars,
                 todo, closeVars, wg, history>>

StopWoken ==
  /\ stopPc = "woken"
  /\ stopPc' = IF wg = 0 THEN "forwarders" ELSE "panic"
  /\ UNCHANGED <<connVars, tableVars, accVars, runVars, ctxDone, idleVars,
                 todo, closeVars, wg, history>>

StopForwarders ==
  /\ stopPc = "forwarders"
  /\ stopPc' = "done"
  /\ UNCHANGED <<connVars, tableVars, accVars, runVars, ctxDone, idleVars,
                 todo, closeVars, wg, history>>

Stop ==
  \/ StopListener \/ StopRangeBegin \/ StopRangeEnd
  \/ StopWait \/ StopWoken \/ StopForwarders
  \/ \E c \in Conns : StopRangeVisit(c) \/ RangeSkip(Stopper, c)

---------------------------------------------------------------------------
(* idleCheckLoop.  Time is not modelled here: a connection may be found    *)
(* idle at any visit.                                                      *)

\* Mutant: the idle checker has no deferred wg.Done.
IdleExitWithoutDone ==
  /\ idlePc = "select" /\ ctxDone
  /\ idlePc' = "done"
  /\ UNCHANGED <<connVars, tableVars, accVars, runVars, stopVars, idleConn,
                 todo, closeVars, wg, history>>

IdleExit ==
  /\ idlePc = "select" /\ ctxDone
  /\ idlePc' = "done"
  /\ WgDone
  /\ UNCHANGED <<connVars, tableVars, accVars, runVars, ctxDone, idleConn,
                 todo, closeVars, history>>

IdleTick ==
  /\ idlePc = "select"
  /\ todo' = [todo EXCEPT ![Idler] = connections]
  /\ idlePc' = "range"
  /\ UNCHANGED <<connVars, tableVars, accVars, runVars, stopVars, idleConn,
                 closeVars, wg, history>>

AtIdleVisit(c) ==
  /\ idlePc = "range" /\ closePc[Idler] = "none" /\ c \in todo[Idler]
  /\ todo' = [todo EXCEPT ![Idler] = @ \ {c}]

\* The connection is closed already, or was heard from recently.
IdleFresh(c) ==
  /\ AtIdleVisit(c)
  /\ UNCHANGED <<connVars, tableVars, accVars, runVars, stopVars, idleVars,
                 closeVars, wg, history>>

\* Send fails: the write fails, or the connection never logged in and has
\* no VIN to put into the frame.
IdleProbeFails(c) ==
  /\ AtIdleVisit(c)
  /\ CallClose(Idler, c)
  /\ UNCHANGED <<connVars, tableVars, accVars, runVars, stopVars, idleVars,
                 wg, history>>

IdleProbe(c) ==
  /\ AtIdleVisit(c)
  /\ state[c] # "Closed" /\ vin[c] # NoVIN /\ c \notin shut
  /\ idlePc' = "sleep" /\ idleConn' = c
  /\ UNCHANGED <<connVars, tableVars, accVars, runVars, stopVars,
                 closeVars, wg, history>>

\* Three seconds later: still silent, or heard from.
IdleClose ==
  /\ idlePc = "sleep" /\ closePc[Idler] = "none"
  /\ state[idleConn] # "Closed"
  /\ CallClose(Idler, idleConn)
  /\ idlePc' = "range" /\ idleConn' = NoConn
  /\ UNCHANGED <<connVars, tableVars, accVars, runVars, stopVars, todo, wg,
                 history>>

IdleKeep ==
  /\ idlePc = "sleep"
  /\ idlePc' = "range" /\ idleConn' = NoConn
  /\ UNCHANGED <<connVars, tableVars, accVars, runVars, stopVars, todo,
                 closeVars, wg, history>>

IdleRangeEnd ==
  /\ idlePc = "range" /\ closePc[Idler] = "none" /\ todo[Idler] = {}
  /\ idlePc' = "select"
  /\ UNCHANGED <<connVars, tableVars, accVars, runVars, stopVars, idleConn,
                 todo, closeVars, wg, history>>

IdleVisit(c) == IdleFresh(c) \/ IdleProbeFails(c) \/ IdleProbe(c)

IdleLoop ==
  \/ IdleTick \/ IdleClose \/ IdleKeep \/ IdleRangeEnd
  \/ \E c \in Conns : IdleVisit(c) \/ RangeSkip(Idler, c)

---------------------------------------------------------------------------
(* An application goroutine finds c through Connections, GetConnection or  *)
(* a Handler call, and closes it.                                          *)

AppClose(a, c) ==
  /\ closePc[a] = "none"
  /\ c \in connections \cup Running /\ state[c] # "Closed"
  /\ CallClose(a, c)
  /\ UNCHANGED <<connVars, tableVars, accVars, runVars, stopVars, idleVars,
                 todo, wg, history>>

---------------------------------------------------------------------------
\* A panic in Stop ends the process.
Alive == stopPc # "panic"

Step ==
  \/ Start
  \/ StopCancel \/ Stop
  \/ IdleExit \/ IdleLoop
  \/ \E c \in Conns : Accept(c) \/ Run(c)
  \/ \E t \in Threads : CloseStep(t)
  \/ \E a \in Apps, c \in Conns : AppClose(a, c)

Next == Alive /\ Step

Spec == Init /\ [][Next]_vars

\* What a goroutine does without waiting for its peer.
RunsOn(c) ==
  \/ RunLoop(c) \/ (c \in shut /\ ReadFails(c))
  \/ LoginRejected(c) \/ LoginVIN(c) \/ LoginState(c) \/ LoginRegister(c)
  \/ RunExit(c) \/ RunDone(c)

(* Fairness: the Go scheduler runs every goroutine that can run, and the   *)
(* Handler and the Authenticator of the application return.  Nothing else  *)
(* is assumed of the application, of peers, or of when Stop is called.     *)
(* When both cases of idleCheckLoop's select are ready Go picks one at     *)
(* random, so a cancelled context is not overlooked for ever: that is the  *)
(* strong fairness of IdleExit.                                            *)
Fairness ==
  /\ \A c \in Conns : WF_vars(Alive /\ RunsOn(c))
  /\ \A t \in Threads : WF_vars(Alive /\ CloseStep(t))
  /\ WF_vars(Alive /\ Stop)
  /\ WF_vars(Alive /\ IdleLoop)
  /\ SF_vars(Alive /\ IdleExit)

FairSpec == Spec /\ Fairness

---------------------------------------------------------------------------
(* Properties.                                                             *)

AccStates ==
  {"off", "idle", "accept", "check", "store", "count", "spawn", "done"}
RunStates == {"none", "refused", "process", "read", "setstate", "addreg",
              "exit", "join", "done"}
StopStates == {"none", "listener", "begin", "range", "wait", "waiting",
               "woken", "forwarders", "done", "panic"}
IdleStates == {"off", "select", "range", "sleep", "done"}
CloseStates == {"none", "mark", "shut", "delete", "dec", "remove"}

\* Every variable keeps its type, and a program counter that holds a
\* connection (accConn, idleConn, target) names a real one whenever the code
\* is about to dereference it.
TypeOK ==
  /\ listener \in {"nil", "open", "closed"} /\ ctxDone \in BOOLEAN
  /\ connections \subseteq Conns
  /\ connCount \in Int /\ wg \in Int
  /\ vins \in Registries
  /\ state \in [Conns -> {"New", "LoggedIn", "Closed"}]
  /\ vin \in [Conns -> VINs \cup {NoVIN}]
  /\ shut \subseteq Conns
  /\ accPc \in AccStates
  /\ accConn \in Conns \cup {NoConn}
  /\ accPc \in {"check", "store", "count", "spawn"} => accConn \in Conns
  /\ runPc \in [Conns -> RunStates]
  /\ inbox \in [Conns -> Seq(Packets)]
  /\ stopPc \in StopStates
  /\ idlePc \in IdleStates
  /\ idleConn \in Conns \cup {NoConn}
  /\ idlePc = "sleep" => idleConn \in Conns
  /\ todo \in [Rangers -> SUBSET Conns]
  /\ closePc \in [Threads -> CloseStates]
  /\ target \in [Threads -> Conns \cup {NoConn}]
  /\ \A t \in Threads : closePc[t] # "none" => target[t] \in Conns
  /\ sent \in [Conns -> Nat]
  /\ early \subseteq Conns /\ relogged \subseteq Conns /\ raced \subseteq Conns

\* The limit check of Start: however many goroutines close connections
\* meanwhile, ConnCount never reports more than maxConns.
CountWithinLimit == connCount <= MaxConns

\* A goroutine that ended leaves nothing behind: once no Close is under way
\* on its connection, the socket is closed, the state is Closed and the
\* connection has left the table that Connections and GetConnection read.
NothingLeftOpen ==
  \A c \in Conns :
    runPc[c] = "done" /\ ClosersOf(c) = {} =>
      c \in shut /\ state[c] = "Closed" /\ c \notin connections

\* unregister gives the slot back: the counter never exceeds the connections
\* that are in the table or that some Close is just discounting, so no
\* sequence of closes can use up the limit of maxConns for good.
NoSlotLost ==
  connCount <=
    Cardinality(connections \cup
                {target[t] : t \in {u \in Threads : closePc[u] = "dec"}})

\* unregister and the registry: a goroutine that ended is no longer found by
\* its VIN, unless it logged in twice or another goroutine's unregister ran
\* between the store of its login state and the registry's add.
RegistryClean ==
  \A c \in Conns :
    runPc[c] = "done" /\ ClosersOf(c) = {} /\ c \notin relogged \cup raced =>
      \A v \in VINs : \A i \in 1..Len(vins[v]) : vins[v][i] # c

\* GetConnectionByVIN: a connection that is in the table and has logged in is
\* in the list of its VIN, whichever other connections of the same VIN come
\* and go, so the VIN is found.
FoundByVIN ==
  \A c \in connections :
    state[c] = "LoggedIn" /\ runPc[c] \notin {"setstate", "addreg"} =>
      /\ get(vins, vin[c]) # NoConn
      /\ c \in Range(getAll(vins, vin[c]))

\* Stop closes the forwarders only after every connection goroutine that was
\* running when Stop was called has ended (wg.Wait before f.Close).
StopJoins ==
  stopPc \in {"forwarders", "done"} => early \cap Running = {}

\* Closing a connection ends its goroutine, whatever is left to be handled.
ClosedRunEnds ==
  \A c \in Conns :
    c \in shut /\ c \in Running ~> runPc[c] = "done" \/ ~Alive

\* Stop returns, unless a connection that Start admitted while Stop was
\* under way escapes its Range for good: it is served and nobody closes it.
StopReturns ==
  \/ stopPc = "listener" ~> stopPc \in {"done", "panic"}
  \/ \E c \in Conns : <>[](c \in Running \ (early \cup shut))

\* server_test.go:75, "expected 0 connections after close": when every accepted
\* connection is closed and nothing is under way, ConnCount is 0.
CountReturnsToZero ==
  /\ \A c \in Conns : runPc[c] \in {"refused", "done", "none"} /\ ClosersOf(c) = {}
  /\ accPc \in {"accept", "done"}
  => connCount = 0
============================================================================
