---------------------------- MODULE ServerTable ----------------------------
(***************************************************************************)
(* Server implements ConnTable: the refinement mapping.                    *)
(***************************************************************************)
EXTENDS Server

\* Stored by Start, and its goroutine not started yet.
Admitted(c) == accConn = c /\ accPc \in {"count", "spawn"}

Life ==
  [c \in Conns |->
     CASE runPc[c] = "refused" -> "refused"
       [] runPc[c] = "done" -> "over"
       [] c \in Running -> "served"
       [] runPc[c] = "none" /\ Admitted(c) -> "admitted"
       [] OTHER -> "offered"]

StopPhase ==
  CASE stopPc = "none" -> "running"
    [] stopPc \in {"forwarders", "done"} -> "stopped"
    [] stopPc = "panic" -> "panicked"
    [] OTHER -> "stopping"

Table == INSTANCE ConnTable WITH
           life <- Life, table <- connections, closed <- shut,
           stop <- StopPhase, waitFor <- early

\* Whatever the goroutines of Start, run, Stop, the idle checker and the
\* applications do to the table, the sockets and the WaitGroup, step by step,
\* is a behaviour of ConnTable: no connection is listed twice or comes back,
\* none is removed before its socket is closed, none is served that was not
\* listed, and Stop does not return before the goroutines it found have ended.
ImplementsTable == Table!Spec
============================================================================
