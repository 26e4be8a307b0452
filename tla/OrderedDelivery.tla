-------------------------- MODULE OrderedDelivery --------------------------
(***************************************************************************)
(* What an authenticated channel with a counter promises: of the requests  *)
(* that key holders issued, each at its place, some are delivered, never   *)
(* one twice and never one after a later one.  Requests may be lost.       *)
(***************************************************************************)
EXTENDS Integers, Sequences

CONSTANT Requests    (* what may be issued: records with a field counter     *)
VARIABLES issued, delivered

vars == <<issued, delivered>>

LastPlace == IF delivered = <<>> THEN 0 ELSE delivered[Len(delivered)].counter

Init ==
  /\ issued = {}
  /\ delivered = <<>>

Issue(r) ==
  /\ issued' = issued \cup {r}
  /\ UNCHANGED delivered

Deliver(r) ==
  /\ r \in issued
  /\ r.counter > LastPlace
  /\ delivered' = Append(delivered, r)
  /\ UNCHANGED issued

Next == \E r \in Requests : Issue(r) \/ Deliver(r)

Spec == Init /\ [][Next]_vars
=============================================================================
