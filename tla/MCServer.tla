------------------------------ MODULE MCServer ------------------------------
(***************************************************************************)
(* Small instances of Server for TLC.                                      *)
(***************************************************************************)
EXTENDS ServerTable

\* Connections are interchangeable, and so are VINs.
Symmetry == Permutations(Conns) \cup Permutations(VINs)
============================================================================
