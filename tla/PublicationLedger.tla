------------------------- MODULE PublicationLedger --------------------------
(***************************************************************************)
(* What the bus promises about publications, with no batch, cursor, worker *)
(* or transaction in sight: a publication is decided at most once, by the  *)
(* request that names it first, and an upstream fact is settled only after *)
(* it, or a request it competes with, has been decided.                    *)
(***************************************************************************)
CONSTANTS
  Facts,          \* the facts of the upstream outbox
  Commands,       \* the publication commands of clients
  Malformed,      \* the requests that carry no usable material
  PublicationOf,  \* the publication each request asks for
  KeyOf,          \* the idempotency key of each request, with its scope
  None            \* no request

Requests == Facts \cup Commands
Publications == {PublicationOf[r] : r \in Requests}
Keys == {KeyOf[r] : r \in Requests}

VARIABLES decided, settled

\* A request competes with those that ask for the same publication and with
\* those that come with the same key.
Rivals(r) ==
  {s \in Requests : PublicationOf[s] = PublicationOf[r] \/ KeyOf[s] = KeyOf[r]}

Init ==
  /\ decided = [p \in Publications |-> None]
  /\ settled = {}

Decide(r) ==
  /\ r \notin Malformed
  /\ decided[PublicationOf[r]] = None
  /\ decided' = [decided EXCEPT ![PublicationOf[r]] = r]
  /\ UNCHANGED settled

Settle(f) ==
  /\ f \in Malformed \/ \E r \in Rivals(f) : decided[PublicationOf[r]] = r
  /\ settled' = settled \cup {f}
  /\ UNCHANGED decided

Next == (\E r \in Requests : Decide(r)) \/ (\E f \in Facts : Settle(f))

Spec == Init /\ [][Next]_<<decided, settled>>
=============================================================================
