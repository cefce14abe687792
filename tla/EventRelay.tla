------------------------------ MODULE EventRelay ------------------------------
(***************************************************************************)
(* What the outbox promises to the business transactions that enqueue      *)
(* events and to the consumers of the bus, with no table, lease or worker  *)
(* in it: an accepted event may reach the bus any number of times, is      *)
(* concluded only after it did, and is refused only if it never does.      *)
(***************************************************************************)

CONSTANT Events         \* stable event ids

VARIABLES accepted,     \* events the producers handed over
          delivered,    \* events that are on the bus at least once
          outcome       \* what the relay has concluded about each event

vars == <<accepted, delivered, outcome>>

Outcomes == {"OPEN", "DONE", "REFUSED"}

TypeOK ==
    /\ accepted \subseteq Events
    /\ delivered \subseteq accepted
    /\ outcome \in [Events -> Outcomes]

Init ==
    /\ accepted = {}
    /\ delivered = {}
    /\ outcome = [e \in Events |-> "OPEN"]

Accept(e) ==
    /\ e \notin accepted
    /\ accepted' = accepted \union {e}
    /\ UNCHANGED <<delivered, outcome>>

\* A second delivery is a step that leaves the relay as it is: duplicates are
\* allowed, also after the event was concluded, but not of a refused event.
Deliver(e) ==
    /\ e \in accepted
    /\ outcome[e] # "REFUSED"
    /\ delivered' = delivered \union {e}
    /\ UNCHANGED <<accepted, outcome>>

Conclude(e) ==
    /\ e \in delivered
    /\ outcome[e] = "OPEN"
    /\ outcome' = [outcome EXCEPT ![e] = "DONE"]
    /\ UNCHANGED <<accepted, delivered>>

Refuse(e) ==
    /\ e \in accepted \ delivered
    /\ outcome[e] = "OPEN"
    /\ outcome' = [outcome EXCEPT ![e] = "REFUSED"]
    /\ UNCHANGED <<accepted, delivered>>

Next == \E e \in Events : Accept(e) \/ Deliver(e) \/ Conclude(e) \/ Refuse(e)

Spec == Init /\ [][Next]_vars
===============================================================================
