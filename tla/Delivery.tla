------------------------------ MODULE Delivery ------------------------------
(***************************************************************************)
(* The delivery aggregate of crates/domain/src/delivery.rs, as operators   *)
(* on a record of four fields:                                             *)
(*                                                                         *)
(*   status    where the delivery is in its lifecycle;                     *)
(*   attempts  one outcome per dispatch attempt, "open" until it finishes: *)
(*             attempt number n is attempts[n], the attempt count is the   *)
(*             length and the last attempt reference is the last index;    *)
(*   history   the status changes made so far, each a pair <<from, to>>;   *)
(*   version   the version the store committed the record under.           *)
(*                                                                         *)
(* Identifiers, timestamps, reasons and the transport semantic do not      *)
(* decide what an operation does and are left out.                         *)
(*                                                                         *)
(* A definition introduced as a slip is a variant with a mistake in it: it *)
(* is no part of the model, and some property must fail when it takes the  *)
(* place of the definition below it.                                       *)
(***************************************************************************)
EXTENDS Naturals, Sequences

Status == {"Scheduled", "Dispatching", "Delivered", "Failed",
           "Completed", "DeadLettered"}

\* DeliveryLifecycle::can_transition: the status changes that may happen.
Transition ==
  { <<"Scheduled", "Dispatching">>,   <<"Scheduled", "Failed">>,
    <<"Dispatching", "Delivered">>,   <<"Dispatching", "Failed">>,
    <<"Delivered", "Completed">>,     <<"Delivered", "Failed">>,
    <<"Failed", "Scheduled">>,        <<"Failed", "DeadLettered">> }

\* DeliveryLifecycle::rejects_reopen: the statuses nothing leads out of.
Terminal == {"Completed", "DeadLettered"}

Outcome == {"open", "delivered", "failed"}

DeliveryRecord ==
  [ status: Status, version: Nat, history: Seq(Transition),
    attempts: Seq(Outcome) ]

LastAttempt(d) == Len(d.attempts)

\* A delivery just scheduled, under the version it is stored with at first.
ScheduledDelivery ==
  [status |-> "Scheduled", version |-> 1, history |-> <<>>, attempts |-> <<>>]

-----------------------------------------------------------------------------
CanMove(d, to) == <<d.status, to>> \in Transition

\* A status change and the history entry every caller appends after it.
Move(d, to) ==
  [d EXCEPT !.status = to, !.history = Append(@, <<d.status, to>>)]

\* start_attempt refuses any delivery that is not scheduled.
CanStart(d) == d.status = "Scheduled"

StartAttempt(d) ==
  [Move(d, "Dispatching") EXCEPT !.attempts = Append(@, "open")]

\* finish_attempt: only the last attempt, and only once.
IsCurrent(d, n) == n = LastAttempt(d) /\ n > 0
CanFinish(d, n) == IsCurrent(d, n) /\ d.attempts[n] = "open"
IsFinished(d, n) == IsCurrent(d, n) /\ d.attempts[n] # "open"

Finish(d, outcome) == [d EXCEPT !.attempts[LastAttempt(d)] = outcome]

\* mark_delivered and mark_failed on an attempt that finishes with them.
CanDeliver(d) == d.status = "Dispatching"
CanFail(d) == CanMove(d, "Failed")
Deliver(d) == Move(Finish(d, "delivered"), "Delivered")
FailAttempt(d) == Move(Finish(d, "failed"), "Failed")

\* mark_completed: an acknowledged delivery whose last attempt delivered it.
CanComplete(d, n) ==
  /\ d.status = "Delivered"
  /\ IsCurrent(d, n)
  /\ d.attempts[n] = "delivered"

\* reschedule_for_retry and mark_dead_lettered.
CanReschedule(d) == d.status = "Failed"
CanDeadLetter(d) == d.status = "Failed"

-----------------------------------------------------------------------------
(***************************************************************************)
(* What a well-formed delivery looks like.                                 *)
(***************************************************************************)

\* Every entry is an allowed change that starts where the one before ended,
\* the first one at Scheduled.
IsChain(h) ==
  /\ \A i \in 1 .. Len(h) : h[i] \in Transition
  /\ \A i \in 1 .. Len(h) - 1 : h[i + 1][1] = h[i][2]
  /\ Len(h) > 0 => h[1][1] = "Scheduled"

\* The status a history leads to.
EndOf(h) == IF h = <<>> THEN "Scheduled" ELSE h[Len(h)][2]

\* The history tells the whole story of the status.
IsLawful(d) == IsChain(d.history) /\ EndOf(d.history) = d.status

\* Only the attempt being dispatched is open, and what the status says of
\* the last attempt is what the attempt recorded.
IsSettled(d) ==
  /\ \A n \in 1 .. LastAttempt(d) - 1 : d.attempts[n] # "open"
  /\ d.status = "Dispatching" <=>
       LastAttempt(d) > 0 /\ d.attempts[LastAttempt(d)] = "open"
  /\ d.status \in {"Delivered", "Completed"} =>
       LastAttempt(d) > 0 /\ d.attempts[LastAttempt(d)] = "delivered"

IsPrefixOf(g, h) ==
  /\ Len(g) <= Len(h)
  /\ \A i \in 1 .. Len(g) : h[i] = g[i]
=============================================================================
