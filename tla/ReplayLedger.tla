---------------------------- MODULE ReplayLedger ----------------------------
(***************************************************************************)
(* What preparing replays promises, with no worker, transaction or reader  *)
(* in sight: a replay is prepared once, for one approval, from a dead      *)
(* letter whose failure was audited.                                       *)
(***************************************************************************)
CONSTANTS
  DeadLetters,  \* the dead letters of failed deliveries
  Approvals,    \* approvals of replays
  ReplayIdOf,   \* the replay preparation of each dead letter
  None          \* no preparation

ReplayIds == {ReplayIdOf[d] : d \in DeadLetters}

VARIABLES audited, opened, prepared

Init ==
  /\ audited = {}
  /\ opened = {}
  /\ prepared = [i \in ReplayIds |-> None]

Audit(d) ==
  /\ audited' = audited \cup {d}
  /\ UNCHANGED <<opened, prepared>>

Open(d) ==
  /\ opened' = opened \cup {d}
  /\ UNCHANGED <<audited, prepared>>

Prepare(d, a) ==
  /\ d \in audited \cap opened
  /\ prepared[ReplayIdOf[d]] = None
  /\ prepared' = [prepared EXCEPT ![ReplayIdOf[d]] = [deadLetter |-> d, approval |-> a]]
  /\ UNCHANGED <<audited, opened>>

Next == \E d \in DeadLetters :
  Audit(d) \/ Open(d) \/ \E a \in Approvals : Prepare(d, a)

Spec == Init /\ [][Next]_<<audited, opened, prepared>>
=============================================================================
