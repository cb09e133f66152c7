---------------------------- MODULE VinRegistry ----------------------------
(***************************************************************************)
(* The VIN index of the server (vin_registry.go): for each VIN the         *)
(* connections that logged in with it, oldest first.  Every operation runs *)
(* under the registry's mutex, so each is one atomic operator on the map.  *)
(* A VIN that is not a key of the Go map has the empty sequence here: the  *)
(* code deletes a key whose list becomes empty, and get and getAll do not  *)
(* tell a missing key from an empty list.                                  *)
(***************************************************************************)
EXTENDS Naturals, SequencesExt

CONSTANTS Conns,   \* the connections ever offered to the server
          VINs,    \* the VINs a vehicle may log in with
          NoConn   \* the nil *Connection

ASSUME NoConnAssumption == NoConn \notin Conns

Registries == [VINs -> Seq(Conns)]

newVinRegistry == [v \in VINs |-> <<>>]

add(reg, v, c) == [reg EXCEPT ![v] = Append(@, c)]

\* Mutant: the search starts at the second entry.
removeFromSecond(reg, v, c) ==
  [reg EXCEPT ![v] =
     IF @ = <<>> THEN @ ELSE <<Head(@)>> \o RemoveFirst(Tail(@), c)]

\* Mutant: the whole list of the VIN is deleted.
removeAll(reg, v, c) == [reg EXCEPT ![v] = <<>>]

\* One occurrence only: the loop breaks after the first match.
remove(reg, v, c) == [reg EXCEPT ![v] = RemoveFirst(@, c)]

get(reg, v) == IF reg[v] = <<>> THEN NoConn ELSE Head(reg[v])

getAll(reg, v) == reg[v]
============================================================================
