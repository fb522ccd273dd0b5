---------------------------- MODULE EventDelivery ----------------------------
(***************************************************************************)
(* What the event log promises the fleet's cloud, whatever the network and *)
(* the process do: an event is recorded before anything else happens to    *)
(* it, the cloud receives only recorded events, and the device stops       *)
(* offering an event only once the cloud has it or once Tries attempts to  *)
(* hand it over have failed.  It may offer an event again after that.      *)
(***************************************************************************)
EXTENDS Naturals

CONSTANTS
  Events,   \* the events a device ever records
  Tries     \* the failed attempts after which an event is given up

VARIABLES
  recorded,   \* the events in the log
  received,   \* the events the cloud has
  released,   \* the events the device no longer offers
  failures    \* how many attempts have failed, for each event

vars == <<recorded, received, released, failures>>

Init ==
  /\ recorded = {} /\ received = {} /\ released = {}
  /\ failures = [e \in Events |-> 0]

Record(e) ==
  /\ e \notin recorded
  /\ recorded' = recorded \cup {e}
  /\ UNCHANGED <<received, released, failures>>

Receive(S) ==
  /\ S \subseteq recorded
  /\ received' = received \cup S
  /\ UNCHANGED <<recorded, released, failures>>

Fail(S) ==
  /\ S \subseteq recorded
  /\ failures' = [e \in Events |-> IF e \in S THEN failures[e] + 1 ELSE failures[e]]
  /\ UNCHANGED <<recorded, received, released>>

Release(S) ==
  /\ \A e \in S : e \in received \/ failures[e] >= Tries
  /\ released' = released \cup S
  /\ UNCHANGED <<recorded, received, failures>>

Next == \/ \E e \in Events : Record(e)
        \/ \E S \in SUBSET Events : Receive(S) \/ Fail(S) \/ Release(S)

Spec == Init /\ [][Next]_vars
=============================================================================
