---------------------------- MODULE MCForwarding ----------------------------
(***************************************************************************)
(* A small instance of Forwarding for TLC: two forwarders from the start   *)
(* and one that is added.                                                  *)
(***************************************************************************)
EXTENDS Forwarding

CONSTANTS f1, f2, f3

MCForwarders == {f1, f2, f3}
MCInitial == <<f1, f2>>
============================================================================
