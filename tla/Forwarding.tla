----------------------------- MODULE Forwarding -----------------------------
(***************************************************************************)
(* Forwarding (server.go, options.go, forward/): connections hand every    *)
(* message to every forwarder, each in a goroutine of its own that nobody  *)
(* waits for; Stop closes the forwarders once its wg.Wait has returned;    *)
(* the option WithForwarder may add one to a running server.  forwardMu    *)
(* guards the list of forwarders.                                          *)
(*                                                                         *)
(* A message is a connection and a number.  How connections are admitted,  *)
(* closed and joined is in Server; here the accept loop admits one at any  *)
(* time, also behind Stop's Range or after its Wait, and a connection ends *)
(* at any time between two messages.  A forwarder's client (Kafka, MQTT,   *)
(* or any other) takes as long as it likes, or for ever.                   *)
(***************************************************************************)
EXTENDS Naturals, Sequences, FiniteSets

CONSTANTS Conns,      \* connections
          Stopper,    \* the goroutine that calls Stop
          Forwarders, \* all forwarders
          Initial,    \* those given to NewServer, in order
          Added,      \* the one added while the server runs
          MaxMsgs     \* bound: messages of each connection

ASSUME StopperAssumption == Stopper \notin Conns
ASSUME ForwardersAssumption ==
  Initial \in Seq(Forwarders) /\ Added \in Forwarders
ASSUME MaxMsgsAssumption == MaxMsgs \in Nat

VARIABLES
  forwarders, \* s.forwarders
  readers,    \* who holds forwardMu.RLock
  addPc,      \* WithForwarder: "idle", "waiting" for forwardMu.Lock, "done"
  connPc,     \* "none", "serving", "locking", "spawning" or "ended"
  msgs,       \* messages each connection has handled
  list,       \* the forwarders its loop has still to visit
  tasks,      \* the goroutines inside Forward: [fw, conn, n, pc]
  called,     \* history: the list each call of forward found
  spawned,    \* history: the forwarders its goroutines were started for
  stopPc,     \* "idle", "wait", "locking", "closing" or "done"
  found,      \* history: the connections admitted before Stop was called
  toClose,    \* the forwarders Stop has still to close
  closed      \* the forwarders it has closed

listVars == <<forwarders, addPc>>
connVars == <<connPc, msgs, list, called, spawned>>
stopVars == <<stopPc, found, toClose, closed>>
vars == <<listVars, readers, connVars, tasks, stopVars>>

Init ==
  /\ forwarders = Initial /\ readers = {} /\ addPc = "idle"
  /\ connPc = [c \in Conns |-> "none"]
  /\ msgs = [c \in Conns |-> 0]
  /\ list = [c \in Conns |-> <<>>]
  /\ called = [c \in Conns |-> <<>>]
  /\ spawned = [c \in Conns |-> <<>>]
  /\ tasks = {}
  /\ stopPc = "idle" /\ found = {} /\ toClose = <<>> /\ closed = {}

---------------------------------------------------------------------------
(* forwardMu: a writer that waits keeps new readers out.                   *)

RLock(g) ==
  /\ addPc # "waiting"
  /\ readers' = readers \cup {g}

RUnlock(g) == readers' = readers \ {g}

\* WithForwarder, applied by an application.
AddLock ==
  /\ addPc = "idle"
  /\ addPc' = "waiting"
  /\ UNCHANGED <<forwarders, readers, connVars, tasks, stopVars>>

AddAppend ==
  /\ addPc = "waiting" /\ readers = {}
  /\ forwarders' = Append(forwarders, Added)
  /\ addPc' = "done"
  /\ UNCHANGED <<readers, connVars, tasks, stopVars>>

---------------------------------------------------------------------------
(* forward, by a connection whose handlePacket has a message.              *)

Handle(c) ==
  /\ connPc[c] = "serving" /\ msgs[c] < MaxMsgs
  /\ msgs' = [msgs EXCEPT ![c] = @ + 1]
  /\ connPc' = [connPc EXCEPT ![c] = "locking"]
  /\ UNCHANGED <<listVars, readers, list, called, spawned, tasks, stopVars>>

ForwardRLock(c) ==
  /\ connPc[c] = "locking"
  /\ RLock(c)
  /\ connPc' = [connPc EXCEPT ![c] = "spawning"]
  /\ list' = [list EXCEPT ![c] = forwarders]
  /\ called' = [called EXCEPT ![c] = Append(@, forwarders)]
  /\ spawned' = [spawned EXCEPT ![c] = Append(@, <<>>)]
  /\ UNCHANGED <<listVars, msgs, tasks, stopVars>>

\* A goroutine for forwarder f.
Spawn(c, f) ==
  /\ tasks' = tasks \cup {[fw |-> f, conn |-> c, n |-> msgs[c], pc |-> "new"]}
  /\ spawned' = [spawned EXCEPT ![c][msgs[c]] = Append(@, f)]

\* Mutant: the goroutines share the loop's variable.
ForwardSpawnShared(c) ==
  /\ connPc[c] = "spawning" /\ list[c] # <<>>
  /\ Spawn(c, list[c][Len(list[c])])
  /\ list' = [list EXCEPT ![c] = Tail(@)]
  /\ UNCHANGED <<listVars, readers, connPc, msgs, called, stopVars>>

ForwardSpawn(c) ==
  /\ connPc[c] = "spawning" /\ list[c] # <<>>
  /\ Spawn(c, Head(list[c]))
  /\ list' = [list EXCEPT ![c] = Tail(@)]
  /\ UNCHANGED <<listVars, readers, connPc, msgs, called, stopVars>>

\* Mutant: forward waits for its goroutines.
ForwardRUnlockJoins(c) ==
  /\ connPc[c] = "spawning" /\ list[c] = <<>>
  /\ ~\E k \in tasks : k.conn = c
  /\ RUnlock(c)
  /\ connPc' = [connPc EXCEPT ![c] = "serving"]
  /\ UNCHANGED <<listVars, msgs, list, called, spawned, tasks, stopVars>>

\* Mutant: a lock that is not released.
ForwardRUnlockNot(c) ==
  /\ connPc[c] = "spawning" /\ list[c] = <<>>
  /\ UNCHANGED readers
  /\ connPc' = [connPc EXCEPT ![c] = "serving"]
  /\ UNCHANGED <<listVars, msgs, list, called, spawned, tasks, stopVars>>

ForwardRUnlock(c) ==
  /\ connPc[c] = "spawning" /\ list[c] = <<>>
  /\ RUnlock(c)
  /\ connPc' = [connPc EXCEPT ![c] = "serving"]
  /\ UNCHANGED <<listVars, msgs, list, called, spawned, tasks, stopVars>>

Forward(c) == ForwardRLock(c) \/ ForwardSpawn(c) \/ ForwardRUnlock(c)

\* The accept loop: wg.Add and the connection's goroutine.
Admit(c) ==
  /\ connPc[c] = "none"
  /\ connPc' = [connPc EXCEPT ![c] = "serving"]
  /\ UNCHANGED <<listVars, readers, msgs, list, called, spawned, tasks,
                 stopVars>>

\* run ends: the socket is closed, or the vehicle is gone.
ConnEnds(c) ==
  /\ connPc[c] = "serving"
  /\ connPc' = [connPc EXCEPT ![c] = "ended"]
  /\ UNCHANGED <<listVars, readers, msgs, list, called, spawned, tasks,
                 stopVars>>

---------------------------------------------------------------------------
(* A goroutine inside Forward: the message is marshalled and handed to the *)
(* client, and then comes the broker's answer, an error, or the timeout of *)
(* five seconds of the MQTT forwarder, whose message may arrive later.     *)

TaskPublish(k) ==
  /\ k.pc = "new"
  /\ tasks' = (tasks \ {k}) \cup {[k EXCEPT !.pc = "waiting"]}
  /\ UNCHANGED <<listVars, readers, connVars, stopVars>>

TaskReturns(k) ==
  /\ tasks' = tasks \ {k}
  /\ UNCHANGED <<listVars, readers, connVars, stopVars>>

---------------------------------------------------------------------------
(* Stop.                                                                   *)

\* The connections that are there are told to close; see Server.
StopBegin ==
  /\ stopPc = "idle"
  /\ stopPc' = "wait"
  /\ found' = {c \in Conns : connPc[c] # "none"}
  /\ UNCHANGED <<listVars, readers, connVars, tasks, toClose, closed>>

\* Mutant: Stop does not wait.
StopWaitNot ==
  /\ stopPc = "wait"
  /\ stopPc' = "locking"
  /\ UNCHANGED <<listVars, readers, connVars, tasks, found, toClose, closed>>

\* Mutant: the goroutines of forward are counted in the WaitGroup.
StopWaitForAll ==
  /\ stopPc = "wait"
  /\ \A c \in Conns : connPc[c] \in {"none", "ended"}
  /\ tasks = {}
  /\ stopPc' = "locking"
  /\ UNCHANGED <<listVars, readers, connVars, tasks, found, toClose, closed>>

\* wg.Wait returns at a moment when no connection's goroutine runs; another
\* may be started behind it.
StopWait ==
  /\ stopPc = "wait"
  /\ \A c \in Conns : connPc[c] \in {"none", "ended"}
  /\ stopPc' = "locking"
  /\ UNCHANGED <<listVars, readers, connVars, tasks, found, toClose, closed>>

StopRLock ==
  /\ stopPc = "locking"
  /\ RLock(Stopper)
  /\ toClose' = forwarders
  /\ stopPc' = "closing"
  /\ UNCHANGED <<listVars, connVars, tasks, found, closed>>

\* Mutant: the loop ends at the first forwarder that fails to close.
StopCloseUntilError ==
  /\ stopPc = "closing" /\ toClose # <<>>
  /\ closed' = closed \cup {Head(toClose)}
  /\ toClose' \in {Tail(toClose), <<>>}
  /\ UNCHANGED <<listVars, readers, connVars, tasks, stopPc, found>>

\* f.Close, whose error is ignored.
StopClose ==
  /\ stopPc = "closing" /\ toClose # <<>>
  /\ closed' = closed \cup {Head(toClose)}
  /\ toClose' = Tail(toClose)
  /\ UNCHANGED <<listVars, readers, connVars, tasks, stopPc, found>>

StopRUnlock ==
  /\ stopPc = "closing" /\ toClose = <<>>
  /\ RUnlock(Stopper)
  /\ stopPc' = "done"
  /\ UNCHANGED <<listVars, connVars, tasks, found, toClose, closed>>

Stop == StopBegin \/ StopWait \/ StopRLock \/ StopClose \/ StopRUnlock

---------------------------------------------------------------------------
Next ==
  \/ AddLock \/ AddAppend
  \/ \E c \in Conns : Admit(c) \/ Handle(c) \/ Forward(c) \/ ConnEnds(c)
  \/ \E k \in tasks : TaskPublish(k) \/ TaskReturns(k)
  \/ Stop

Spec == Init /\ [][Next]_vars

(* Fairness: the scheduler runs goroutines that can run, forwarders return *)
(* from Close, and the connections that Stop has found and closed end.  A  *)
(* late connection is nobody's to close: it may be served for ever.        *)
(* Nothing is assumed of the goroutines inside Forward: a broker may hang. *)
Fairness ==
  /\ WF_vars(AddAppend)
  /\ \A c \in Conns : WF_vars(Forward(c))
  /\ \A c \in Conns : WF_vars(c \in found /\ ConnEnds(c))
  /\ WF_vars(StopWait \/ StopRLock \/ StopClose \/ StopRUnlock)

FairSpec == Spec /\ Fairness

---------------------------------------------------------------------------
(* Properties.                                                             *)

Tasks == [fw : Forwarders, conn : Conns, n : Nat, pc : {"new", "waiting"}]

\* Every variable keeps its type, and forwardMu is held by exactly those that
\* are between RLock and RUnlock.
TypeOK ==
  /\ forwarders \in Seq(Forwarders)
  /\ addPc \in {"idle", "waiting", "done"}
  /\ connPc \in [Conns -> {"none", "serving", "locking", "spawning",
                        "ended"}]
  /\ msgs \in [Conns -> Nat]
  /\ list \in [Conns -> Seq(Forwarders)]
  /\ called \in [Conns -> Seq(Seq(Forwarders))]
  /\ spawned \in [Conns -> Seq(Seq(Forwarders))]
  /\ tasks \subseteq Tasks
  /\ stopPc \in {"idle", "wait", "locking", "closing", "done"}
  /\ found \subseteq Conns
  /\ toClose \in Seq(Forwarders) /\ closed \subseteq Forwarders
  /\ readers = {c \in Conns : connPc[c] = "spawning"}
                 \cup (IF stopPc = "closing" THEN {Stopper} ELSE {})

\* A call of forward that has returned has started one goroutine for every
\* forwarder that was registered when it began, and no other, whatever is
\* registered meanwhile.
EveryForwarderOnce ==
  \A c \in Conns : connPc[c] # "spawning" => spawned[c] = called[c]

\* A connection that was admitted before Stop was called starts no goroutine
\* for a forwarder that Stop has closed: its messages are on their way before
\* it is joined.  (The goroutine itself may come too late, and a connection
\* admitted behind Stop does forward to closed forwarders.)
StartedBeforeClose ==
  [][\A k \in tasks' \ tasks :
       k.pc = "new" /\ k.conn \in found => k.fw \notin closed]_vars

\* A forwarder that hangs never holds up a connection: forward returns.
ForwardReturns ==
  \A c \in Conns :
    connPc[c] \in {"locking", "spawning"} ~> connPc[c] = "serving"

\* Nor does it hold up Stop, which returns with every forwarder closed that
\* was registered when the connections had ended.
StopClosesForwarders ==
  \A f \in Forwarders :
    (stopPc = "locking" /\ \E i \in 1..Len(forwarders) : forwarders[i] = f)
      ~> (stopPc = "done" /\ f \in closed)

\* Stop returns, with goroutines of forward still running, unless some
\* connection that was admitted behind it is served for ever.
StopReturns ==
  \/ stopPc # "idle" ~> stopPc = "done"
  \/ \E c \in Conns : <>[](c \notin found /\ connPc[c] \notin {"none", "ended"})
============================================================================
