------------------------- MODULE MCPublicationRelay -------------------------
(***************************************************************************)
(* Instances of publication acceptance and the outbox relay for TLC.       *)
(***************************************************************************)
EXTENDS PublicationRelay, TLC

CONSTANTS f1, f2, f3, f4, c1, w1, w2

\* Requests that share a source record, those that share an event, and those
\* that the bus rejects.
Sharing == [r \in Requests |-> IF r \in {f1, f2, c1} THEN "a" ELSE r]
Reusing == [r \in Requests |-> IF r \in {f2, f3} THEN "e" ELSE r]
Deciding == [r \in Requests |-> IF r \in {f3, c1} THEN "rejected" ELSE "accepted"]

\* Every request with a publication of its own.
Owning == [r \in Requests |-> r]

WorkerSymmetry == Permutations(Workers)
=============================================================================
