------------------------------ MODULE EventLog ------------------------------
(***************************************************************************)
(* What publishing outbound events promises, with no batch, failure or     *)
(* retry in sight: an append-only log that holds a valid event at most     *)
(* once, and batches that are confirmed once all of them is in the log.    *)
(***************************************************************************)
EXTENDS Sequences, Naturals

CONSTANTS
  Events,     \* outbound events
  Malformed,  \* the events that break the schema or carry an inline payload
  KeyOf,      \* the idempotency key of each event
  Batches     \* the batches callers ask to publish

VARIABLES log, confirmed

IsLogged(e) == \E i \in DOMAIN log : KeyOf[log[i]] = KeyOf[e]

Init == log = <<>> /\ confirmed = {}

Enter(e) ==
  /\ e \notin Malformed
  /\ ~IsLogged(e)
  /\ log' = Append(log, e)
  /\ UNCHANGED confirmed

Confirm(b) ==
  /\ \A i \in DOMAIN b : IsLogged(b[i])
  /\ confirmed' = confirmed \cup {b}
  /\ UNCHANGED log

Next == (\E e \in Events : Enter(e)) \/ (\E b \in Batches : Confirm(b))

Spec == Init /\ [][Next]_<<log, confirmed>>
=============================================================================
