------------------------ MODULE MCReplayPreparation -------------------------
(***************************************************************************)
(* Instances of replay preparation and the audit trail for TLC.            *)
(***************************************************************************)
EXTENDS ReplayPreparation

CONSTANTS d1, d2, a1, a2

\* Each dead letter with a replay of its own, or one identifier for both.
Owning == [d \in DeadLetters |-> d]
Colliding == [d \in DeadLetters |-> "replay"]

\* Commands for two dead letters: two approvals of one, one with the chain of
\* the other, and one from an actor without a role.
Given(d, c, a, p) == [deadLetter |-> d, chain |-> c, approval |-> a, privileged |-> p]
Asked == {Given(d1, d1, a1, TRUE), Given(d1, d1, a2, TRUE), Given(d2, d2, a1, TRUE),
          Given(d2, d1, a1, TRUE), Given(d2, d2, a1, FALSE)}

\* The whole trail, or the record of one dead letter.
Asking == {Entry,
  {e \in Entry : e.kind \in {"deadLettered", "replayRejected"} /\ e.of = d2}}
=============================================================================
