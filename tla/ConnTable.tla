----------------------------- MODULE ConnTable -----------------------------
(***************************************************************************)
(* What the server promises about its connections, without goroutines,     *)
(* counters or locks: a connection is offered, refused or admitted, and    *)
(* once admitted it is listed in the table until it is removed, for good.  *)
(* Its socket is closed before it is removed.  It is served once.  Stop    *)
(* returns only when every connection it found being served is over.       *)
(***************************************************************************)
EXTENDS FiniteSets

CONSTANT Conns

VARIABLES
  life,     \* where each connection is in its life
  table,    \* the connections Connections and GetConnection report
  closed,   \* the connections whose socket is closed
  stop,     \* "running", "stopping", "stopped", "panicked"
  waitFor   \* the connections that Stop must see the end of

vars == <<life, table, closed, stop, waitFor>>

In(phase) == {c \in Conns : life[c] = phase}

Init ==
  /\ life = [c \in Conns |-> "offered"]
  /\ table = {} /\ closed = {}
  /\ stop = "running" /\ waitFor = {}

Refuse(c) ==
  /\ life[c] = "offered"
  /\ life' = [life EXCEPT ![c] = "refused"]
  /\ closed' = closed \cup {c}
  /\ UNCHANGED <<table, stop, waitFor>>

Admit(c) ==
  /\ life[c] = "offered"
  /\ life' = [life EXCEPT ![c] = "admitted"]
  /\ table' = table \cup {c}
  /\ UNCHANGED <<closed, stop, waitFor>>

Serve(c) ==
  /\ life[c] = "admitted"
  /\ life' = [life EXCEPT ![c] = "served"]
  /\ UNCHANGED <<table, closed, stop, waitFor>>

Shut(c) ==
  /\ life[c] # "offered"
  /\ closed' = closed \cup {c}
  /\ UNCHANGED <<life, table, stop, waitFor>>

Remove(c) ==
  /\ c \in table \cap closed
  /\ table' = table \ {c}
  /\ UNCHANGED <<life, closed, stop, waitFor>>

Finish(c) ==
  /\ life[c] = "served"
  /\ life' = [life EXCEPT ![c] = "over"]
  /\ UNCHANGED <<table, closed, stop, waitFor>>

StopBegins ==
  /\ stop = "running"
  /\ stop' = "stopping"
  /\ waitFor' = In("served")
  /\ UNCHANGED <<life, table, closed>>

StopEnds ==
  /\ stop = "stopping"
  /\ \/ stop' = "stopped" /\ waitFor \subseteq In("over")
     \/ stop' = "panicked"
  /\ UNCHANGED <<life, table, closed, waitFor>>

Next ==
  /\ stop # "panicked"
  /\ \/ StopBegins \/ StopEnds
     \/ \E c \in Conns : \/ Refuse(c) \/ Admit(c) \/ Serve(c)
                         \/ Shut(c) \/ Remove(c) \/ Finish(c)

Spec == Init /\ [][Next]_vars
============================================================================
