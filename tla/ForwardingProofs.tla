-------------------------- MODULE ForwardingProofs --------------------------
(***************************************************************************)
(* What Forwarding keeps for every set of connections and forwarders, any  *)
(* number of messages and whatever the forwarders do.                      *)
(***************************************************************************)
EXTENDS Forwarding, SequenceTheorems, TLAPS

---------------------------------------------------------------------------
(* The inductive invariant.  Between RLock and RUnlock the goroutines that *)
(* were started and the forwarders still to be visited make up the list    *)
(* that the call found.  Once Stop has passed its wait no connection that  *)
(* was there when it was called forwards, and nothing is closed before; a  *)
(* connection has to have been there when Stop is called to be among them. *)

CallOK(c) ==
  /\ Len(spawned[c]) = Len(called[c])
  /\ connPc[c] = "locking" => msgs[c] = Len(called[c]) + 1
  /\ connPc[c] # "locking" => msgs[c] = Len(called[c])
  /\ connPc[c] # "spawning" => spawned[c] = called[c]
  /\ connPc[c] = "spawning" =>
       /\ msgs[c] > 0
       /\ \A i \in 1..(msgs[c] - 1) : spawned[c][i] = called[c][i]
       /\ spawned[c][msgs[c]] \o list[c] = called[c][msgs[c]]

Calls == \A c \in Conns : CallOK(c)

Joined ==
  /\ stopPc \in {"locking", "closing", "done"} =>
       \A c \in found : connPc[c] = "ended"
  /\ stopPc = "wait" => \A c \in found : connPc[c] # "none"
  /\ closed # {} => stopPc \in {"closing", "done"}

IInv == TypeOK /\ Calls /\ Joined

LEMMA InitInv == Init => IInv
BY ForwardersAssumption, StopperAssumption
   DEF Init, IInv, TypeOK, Calls, CallOK, Joined

---------------------------------------------------------------------------
(* Steps that leave the connections alone.                                 *)

LEMMA AddStep ==
  ASSUME IInv, AddLock \/ AddAppend
  PROVE  IInv'
<1>1. forwarders' \in Seq(Forwarders)
  <2>1. Append(forwarders, Added) \in Seq(Forwarders)
    BY ForwardersAssumption, AppendProperties DEF IInv, TypeOK
  <2> QED
    BY <2>1 DEF IInv, TypeOK, AddLock, AddAppend
<1>2. UNCHANGED <<readers, connVars, tasks, stopVars>>
  BY DEF AddLock, AddAppend
<1>3. addPc' \in {"idle", "waiting", "done"}
  BY DEF AddLock, AddAppend
<1>4. TypeOK'
  BY <1>1, <1>2, <1>3 DEF IInv, TypeOK, connVars, stopVars
<1> QED
  BY <1>2, <1>4 DEF IInv, Calls, CallOK, Joined, connVars, stopVars

LEMMA TaskStep ==
  ASSUME IInv, NEW k \in tasks, TaskPublish(k) \/ TaskReturns(k)
  PROVE  IInv'
<1>1. k \in Tasks /\ [k EXCEPT !.pc = "waiting"] \in Tasks
  BY DEF IInv, TypeOK, Tasks
<1>2. tasks' \subseteq Tasks
  BY <1>1 DEF IInv, TypeOK, TaskPublish, TaskReturns
<1>3. UNCHANGED <<listVars, readers, connVars, stopVars>>
  BY DEF TaskPublish, TaskReturns
<1> QED
  BY <1>2, <1>3
     DEF IInv, TypeOK, Calls, CallOK, Joined, listVars, connVars, stopVars

LEMMA StopStep ==
  ASSUME IInv, Stop
  PROVE  IInv'
<1>1. TypeOK'
  <2> USE StopperAssumption DEF IInv, TypeOK, listVars, connVars
  <2>1. CASE StopBegin
    BY <2>1 DEF StopBegin
  <2>2. CASE StopWait
    BY <2>2 DEF StopWait
  <2>3. CASE StopRLock
    BY <2>3 DEF StopRLock, RLock
  <2>4. CASE StopClose
    BY <2>4 DEF StopClose
  <2>5. CASE StopRUnlock
    BY <2>5 DEF StopRUnlock, RUnlock
  <2> QED
    BY <2>1, <2>2, <2>3, <2>4, <2>5 DEF Stop
<1>2. UNCHANGED connVars
  BY DEF Stop, StopBegin, StopWait, StopRLock, StopClose, StopRUnlock
<1>3. Joined'
  BY <1>2 DEF IInv, TypeOK, Joined, connVars, Stop, StopBegin, StopWait, StopRLock,
              StopClose, StopRUnlock
<1> QED
  BY <1>1, <1>2, <1>3 DEF IInv, Calls, CallOK, connVars

---------------------------------------------------------------------------
(* Steps of a connection.                                                  *)

LEMMA HandleStep ==
  ASSUME IInv, NEW c \in Conns, Handle(c)
  PROVE  IInv'
<1> USE DEF IInv, Handle, listVars, stopVars
<1>1. TypeOK'
  BY DEF TypeOK
<1>2. Calls'
  BY DEF TypeOK, Calls, CallOK
<1>3. Joined'
  BY DEF TypeOK, Joined
<1> QED
  BY <1>1, <1>2, <1>3

LEMMA RLockStep ==
  ASSUME IInv, NEW c \in Conns, ForwardRLock(c)
  PROVE  IInv'
<1> USE StopperAssumption DEF IInv, ForwardRLock, RLock, listVars, stopVars
<1>1. /\ <<>> \in Seq(Forwarders)
      /\ forwarders \in Seq(Forwarders)
      /\ called[c] \in Seq(Seq(Forwarders))
      /\ spawned[c] \in Seq(Seq(Forwarders))
  BY DEF TypeOK
<1>2. /\ Append(called[c], forwarders) \in Seq(Seq(Forwarders))
      /\ Append(spawned[c], <<>>) \in Seq(Seq(Forwarders))
  BY <1>1, AppendProperties
<1>3. /\ called' \in [Conns -> Seq(Seq(Forwarders))]
      /\ spawned' \in [Conns -> Seq(Seq(Forwarders))]
  BY <1>2 DEF TypeOK
<1>4. readers' = {d \in Conns : connPc'[d] = "spawning"}
                   \cup (IF stopPc' = "closing" THEN {Stopper} ELSE {})
  BY DEF TypeOK
<1>5. TypeOK'
  BY <1>3, <1>4 DEF TypeOK
<1>6. CallOK(c)'
  <2>1. /\ spawned[c] = called[c] /\ msgs[c] = Len(called[c]) + 1
        /\ connPc'[c] = "spawning" /\ msgs'[c] = msgs[c]
        /\ called'[c] = Append(called[c], forwarders)
        /\ spawned'[c] = Append(spawned[c], <<>>)
        /\ list'[c] = forwarders
    BY DEF TypeOK, Calls, CallOK
  <2>2. <<>> \o forwarders = forwarders
    BY <1>1, ConcatEmptySeq
  <2>3. Len(called[c]) \in Nat
    BY <1>1, LenProperties
  <2>4. /\ Len(called'[c]) = msgs[c] /\ Len(spawned'[c]) = msgs[c]
        /\ called'[c][msgs[c]] = forwarders
        /\ spawned'[c][msgs[c]] = <<>>
        /\ \A i \in 1..(msgs[c] - 1) : spawned'[c][i] = called'[c][i]
    BY <1>1, <2>1, <2>3, AppendProperties
  <2>5. spawned'[c][msgs'[c]] \o list'[c] = called'[c][msgs'[c]]
    BY <2>1, <2>2, <2>4
  <2>6. \A i \in 1..(msgs'[c] - 1) : spawned'[c][i] = called'[c][i]
    BY <2>1, <2>4
  <2>7. /\ Len(spawned'[c]) = Len(called'[c]) /\ msgs'[c] = Len(called'[c])
        /\ msgs'[c] > 0
    BY <2>1, <2>3, <2>4
  <2> QED
    BY ONLY <2>1, <2>5, <2>6, <2>7 DEF CallOK
<1>7. \A d \in Conns \ {c} : CallOK(d)'
  BY DEF TypeOK, Calls, CallOK
<1>8. Joined'
  BY DEF TypeOK, Joined
<1> QED
  BY <1>5, <1>6, <1>7, <1>8 DEF Calls

LEMMA SpawnStep ==
  ASSUME IInv, NEW c \in Conns, ForwardSpawn(c)
  PROVE  IInv'
<1> USE DEF IInv, ForwardSpawn, listVars, stopVars
<1> DEFINE n == msgs[c]
           f == Head(list[c])
<1>1. /\ list[c] \in Seq(Forwarders) /\ list[c] # <<>>
      /\ spawned[c] \in Seq(Seq(Forwarders))
      /\ n \in 1..Len(spawned[c]) /\ n \in Nat
      /\ n = Len(called[c])
  BY LenProperties DEF TypeOK, Calls, CallOK
<1>2. /\ f \in Forwarders /\ Tail(list[c]) \in Seq(Forwarders)
      /\ list[c] = <<f>> \o Tail(list[c])
  BY <1>1
<1>3. spawned[c][n] \in Seq(Forwarders)
  BY <1>1, ElementOfSeq
<1>4. /\ Append(spawned[c][n], f) \in Seq(Forwarders)
      /\ Append(spawned[c][n], f) = spawned[c][n] \o <<f>>
  BY <1>2, <1>3, AppendProperties, AppendIsConcat
<1>5. spawned' = [spawned EXCEPT ![c] = [spawned[c] EXCEPT
                                  ![n] = Append(spawned[c][n], f)]]
  BY DEF Spawn
<1> DEFINE s == [spawned[c] EXCEPT ![n] = Append(spawned[c][n], f)]
<1>6. /\ s \in Seq(Seq(Forwarders)) /\ Len(s) = Len(spawned[c])
      /\ s[n] = Append(spawned[c][n], f)
      /\ \A i \in 1..(n - 1) : s[i] = spawned[c][i]
  <2> HIDE DEF f, n
  <2> DEFINE e == Append(spawned[c][n], f)
  <2>1. e \in Seq(Forwarders)
    BY <1>4
  <2> HIDE DEF e
  <2>2. /\ s \in Seq(Seq(Forwarders)) /\ Len(s) = Len(spawned[c])
        /\ \A j \in 1..Len(spawned[c]) : s[j] = IF j = n THEN e
                                                ELSE spawned[c][j]
    BY ONLY <1>1, <2>1, ExceptSeq DEF e
  <2> QED
    BY ONLY <1>1, <2>2 DEF e
<1>7. spawned'[c] = s /\ spawned' \in [Conns -> Seq(Seq(Forwarders))]
  BY <1>5, <1>6 DEF TypeOK
<1>8. tasks' \subseteq Tasks
  BY <1>2 DEF TypeOK, Spawn, Tasks
<1>9. TypeOK'
  BY <1>2, <1>7, <1>8 DEF TypeOK
<1>10. CallOK(c)'
  <2>1. list'[c] = Tail(list[c])
    BY DEF TypeOK
  <2>2. s[n] \o Tail(list[c]) = spawned[c][n] \o list[c]
    <3>1. <<f>> \in Seq(Forwarders)
      BY <1>2
    <3>2. /\ s[n] = spawned[c][n] \o <<f>>
          /\ list[c] = <<f>> \o Tail(list[c])
      BY <1>2, <1>4, <1>6
    <3> DEFINE a == spawned[c][n]
               g == <<f>>
               t == Tail(list[c])
    <3>3. /\ a \in Seq(Forwarders) /\ g \in Seq(Forwarders)
          /\ t \in Seq(Forwarders)
      BY <3>1, <1>2, <1>3
    <3>4. (a \o g) \o t = a \o (g \o t)
      <4> HIDE DEF a, g, t
      <4> QED
        BY <3>3, ConcatAssociative
    <3> QED
      BY <3>2, <3>4
  <2> HIDE DEF s
  <2> QED
    BY <1>1, <1>6, <1>7, <2>1, <2>2 DEF Calls, CallOK
<1>11. \A d \in Conns \ {c} : CallOK(d)'
  BY <1>5 DEF TypeOK, Calls, CallOK
<1>12. Joined'
  BY DEF Joined, TypeOK
<1> QED
  BY <1>9, <1>10, <1>11, <1>12 DEF Calls

LEMMA RUnlockStep ==
  ASSUME IInv, NEW c \in Conns, ForwardRUnlock(c)
  PROVE  IInv'
<1> USE StopperAssumption DEF IInv, ForwardRUnlock, RUnlock, listVars, stopVars
<1>1. TypeOK'
  BY DEF TypeOK
<1>2. CallOK(c)'
  <2>1. /\ spawned[c] \in Seq(Seq(Forwarders))
        /\ called[c] \in Seq(Seq(Forwarders))
        /\ Len(spawned[c]) = Len(called[c])
        /\ msgs[c] = Len(called[c]) /\ msgs[c] \in Nat /\ msgs[c] > 0
        /\ \A i \in 1..(msgs[c] - 1) : spawned[c][i] = called[c][i]
        /\ spawned[c][msgs[c]] \o list[c] = called[c][msgs[c]]
        /\ list[c] = <<>>
    BY DEF TypeOK, Calls, CallOK
  <2>2. spawned[c][msgs[c]] = called[c][msgs[c]]
    BY <2>1, ElementOfSeq, ConcatEmptySeq
  <2>3. \A i \in 1..Len(spawned[c]) : spawned[c][i] = called[c][i]
    <3> DEFINE n == msgs[c]
    <3>1. n \in Nat /\ Len(spawned[c]) = n
      BY <2>1
    <3> HIDE DEF n
    <3>2. \A i \in 1..n : i = n \/ i \in 1..(n - 1)
      BY <3>1
    <3> QED
      BY ONLY <2>1, <2>2, <3>1, <3>2 DEF n
  <2>4. spawned[c] = called[c]
    BY <2>1, <2>3, SeqEqual
  <2> QED
    BY <2>1, <2>4 DEF TypeOK, CallOK
<1>3. \A d \in Conns \ {c} : CallOK(d)'
  BY DEF TypeOK, Calls, CallOK
<1>4. Joined'
  BY DEF TypeOK, Joined
<1> QED
  BY <1>1, <1>2, <1>3, <1>4 DEF Calls

LEMMA EndStep ==
  ASSUME IInv, NEW c \in Conns, Admit(c) \/ ConnEnds(c)
  PROVE  IInv'
<1> USE DEF IInv, Admit, ConnEnds, listVars, stopVars
<1>1. TypeOK'
  BY DEF TypeOK
<1>2. Calls'
  <2>1. CallOK(c)'
    BY DEF TypeOK, Calls, CallOK
  <2>2. ASSUME NEW d \in Conns \ {c} PROVE CallOK(d)'
    <3>1. CallOK(d)
      BY DEF Calls
    <3>2. connPc'[d] = connPc[d] /\ UNCHANGED <<msgs, list, called, spawned>>
      BY DEF TypeOK
    <3> QED
      BY ONLY <3>1, <3>2 DEF CallOK
  <2> QED
    BY <2>1, <2>2 DEF Calls
<1>3. Joined'
  BY DEF TypeOK, Joined
<1> QED
  BY <1>1, <1>2, <1>3

LEMMA NextStep == IInv /\ [Next]_vars => IInv'
<1> SUFFICES ASSUME IInv, [Next]_vars PROVE IInv'
  OBVIOUS
<1>1. CASE UNCHANGED vars
  BY <1>1 DEF IInv, TypeOK, Calls, CallOK, Joined, vars, listVars, connVars,
              stopVars
<1> QED
  BY <1>1, AddStep, TaskStep, StopStep, HandleStep, RLockStep, SpawnStep,
     RUnlockStep, EndStep DEF Next, Forward

LEMMA Invariant == Spec => []IInv
BY InitInv, NextStep, PTL DEF Spec

---------------------------------------------------------------------------
(* Theorems.                                                               *)

\* Every variable keeps its type and forwardMu is held by exactly those that
\* are between RLock and RUnlock.
THEOREM TypeCorrect == Spec => []TypeOK
<1>1. IInv => TypeOK
  BY DEF IInv
<1> QED
  BY <1>1, Invariant, PTL

\* A call of forward that has returned has started one goroutine for every
\* forwarder registered when it began.
THEOREM EveryForwarderIsCalledOnce == Spec => []EveryForwarderOnce
<1>1. IInv => EveryForwarderOnce
  BY DEF IInv, Calls, CallOK, EveryForwarderOnce
<1> QED
  BY <1>1, Invariant, PTL

\* A connection that was admitted before Stop was called starts no goroutine
\* for a forwarder that Stop has closed.
THEOREM StartsBeforeClose == Spec => StartedBeforeClose
<1> DEFINE A == \A k \in tasks' \ tasks :
                  k.pc = "new" /\ k.conn \in found => k.fw \notin closed
<1>1. IInv /\ [Next]_vars => [A]_vars
  <2> SUFFICES ASSUME IInv, Next, NEW k \in tasks' \ tasks, k.pc = "new",
                      k.conn \in found
               PROVE  k.fw \notin closed
    BY DEF A
  <2>1. ~\E j \in tasks : TaskPublish(j) \/ TaskReturns(j)
    BY DEF TaskPublish, TaskReturns, IInv, TypeOK, Tasks
  <2>2. PICK c \in Conns : ForwardSpawn(c)
    BY <2>1 DEF Next, AddLock, AddAppend, Admit, Handle, Forward, ForwardRLock,
                ForwardRUnlock, ConnEnds, Stop, StopBegin, StopWait, StopRLock,
                StopClose, StopRUnlock
  <2> QED
    BY <2>2 DEF IInv, TypeOK, Tasks, Joined, ForwardSpawn, Spawn
<1> QED
  BY <1>1, Invariant, PTL DEF Spec, StartedBeforeClose
============================================================================
