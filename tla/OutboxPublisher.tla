-------------------------- MODULE OutboxPublisher ---------------------------
(***************************************************************************)
(* The outbound publisher: callers hand over batches of outbound events,   *)
(* the service validates a whole batch before the adapter sees any of it,  *)
(* and the adapter publishes the events one by one, each under its lock.   *)
(* An event that was published before is answered with the receipt it got  *)
(* then.  A failure ends the batch where it is: what was published stays   *)
(* published, and the receipts collected so far are lost.  The publication *)
(* of one event is a batch of one.                                         *)
(***************************************************************************)
EXTENDS Naturals, Sequences

CONSTANTS
  Workers,     \* tasks that publish
  Events,      \* outbound events
  Malformed,   \* the events that break the schema or carry an inline payload
  KeyOf,       \* event id, record reference and schema version of each event
  Batches,     \* the batches callers ask to publish
  MaxOutages,  \* bound on the failures of the adapter
  None         \* no event

ASSUME EventsAssumption ==
  /\ Malformed \subseteq Events
  /\ None \notin Events
  /\ Batches \subseteq Seq(Events)
  /\ MaxOutages \in Nat

VARIABLES
  sink,       \* what was published, in order
  receipts,   \* the event whose receipt each key has
  evidence,   \* the evidence of every publication and failure, in order
  outages,    \* how often the adapter has failed
  pc, batch,  \* the call of each worker
  answers,    \* the receipts it has collected
  confirmed   \* the batches answered as published, with their receipts

adapter == <<sink, receipts, evidence, outages>>
call == <<pc, batch, answers>>
vars == <<adapter, call, confirmed>>

Keys == {KeyOf[e] : e \in Events}
Failures == {"retryable_failed", "rejected"}
Evidence == [event : Events, status : Failures \cup {"published"}]
Answer == [event : Events, duplicate : BOOLEAN]

TypeOK ==
  /\ sink \in Seq(Events)
  /\ receipts \in [Keys -> Events \cup {None}]
  /\ evidence \in Seq(Evidence)
  /\ outages \in 0 .. MaxOutages
  /\ pc \in [Workers -> {"idle", "publishing", "failed"}]
  /\ batch \in [Workers -> Seq(Events)]
  /\ answers \in [Workers -> Seq(Answer)]
  /\ confirmed \subseteq [batch : Batches, answers : Seq(Answer)]

Init ==
  /\ sink = <<>>
  /\ receipts = [k \in Keys |-> None]
  /\ evidence = <<>>
  /\ outages = 0
  /\ pc = [w \in Workers |-> "idle"]
  /\ batch = [w \in Workers |-> <<>>]
  /\ answers = [w \in Workers |-> <<>>]
  /\ confirmed = {}

-----------------------------------------------------------------------------
\* Slip: only the first event of a batch is validated.
IsValidAtFirst(b) == Len(b) > 0 => b[1] \notin Malformed

\* Every event is validated before any is published.
IsValid(b) == \A i \in DOMAIN b : b[i] \notin Malformed

Turn(w) == Len(answers[w]) + 1

\* Slip: the batch is emptied from its end.
CurrentFromEnd(w) == batch[w][Len(batch[w]) - Len(answers[w])]

Current(w) == batch[w][Turn(w)]
IsPending(w) == pc[w] = "publishing" /\ Turn(w) <= Len(batch[w])
Receipt(w) == receipts[KeyOf[Current(w)]]

Answered(w, e, duplicate) ==
  /\ answers' = [answers EXCEPT ![w] = Append(@, [event |-> e, duplicate |-> duplicate])]
  /\ UNCHANGED <<pc, batch, confirmed>>

Record(e, status) == evidence' = Append(evidence, [event |-> e, status |-> status])

\* A batch with an invalid event is refused before anything happens.
Start(w, b) ==
  /\ pc[w] = "idle"
  /\ IsValid(b)
  /\ pc' = [pc EXCEPT ![w] = "publishing"]
  /\ batch' = [batch EXCEPT ![w] = b]
  /\ UNCHANGED <<adapter, answers, confirmed>>

\* Slip: an event that was published before ends the batch as a conflict.
ReuseRefused(w) ==
  /\ IsPending(w)
  /\ Receipt(w) # None
  /\ pc' = [pc EXCEPT ![w] = "idle"]
  /\ batch' = [batch EXCEPT ![w] = <<>>]
  /\ answers' = [answers EXCEPT ![w] = <<>>]
  /\ UNCHANGED <<adapter, confirmed>>

Reuse(w) ==
  /\ IsPending(w)
  /\ Receipt(w) # None
  /\ Answered(w, Receipt(w), TRUE)
  /\ UNCHANGED adapter

\* Slip: the receipt is given and not kept.
PublishForgotten(w) ==
  /\ IsPending(w)
  /\ Receipt(w) = None
  /\ sink' = Append(sink, Current(w))
  /\ Record(Current(w), "published")
  /\ Answered(w, Current(w), FALSE)
  /\ UNCHANGED <<receipts, outages>>

Publish(w) ==
  /\ IsPending(w)
  /\ Receipt(w) = None
  /\ receipts' = [receipts EXCEPT ![KeyOf[Current(w)]] = Current(w)]
  /\ sink' = Append(sink, Current(w))
  /\ Record(Current(w), "published")
  /\ Answered(w, Current(w), FALSE)
  /\ UNCHANGED outages

\* The batch ends here.  Its caller may repeat it after a retryable failure,
\* and is told not to after a rejection.
Ended(w, status) ==
  /\ pc' = [pc EXCEPT ![w] = IF status = "rejected" THEN "idle" ELSE "failed"]
  /\ batch' = [batch EXCEPT ![w] = IF status = "rejected" THEN <<>> ELSE @]
  /\ answers' = [answers EXCEPT ![w] = <<>>]
  /\ UNCHANGED confirmed

\* Slip: the failure is taken before the receipt is looked for.
FailFirst(w, status) ==
  /\ IsPending(w)
  /\ outages < MaxOutages
  /\ outages' = outages + 1
  /\ Record(Current(w), status)
  /\ Ended(w, status)
  /\ UNCHANGED <<sink, receipts>>

\* Slip: the batch goes on after a failure.
FailPassed(w, status) ==
  /\ IsPending(w)
  /\ Receipt(w) = None
  /\ outages < MaxOutages
  /\ outages' = outages + 1
  /\ Record(Current(w), status)
  /\ Answered(w, Current(w), FALSE)
  /\ UNCHANGED <<sink, receipts>>

Fail(w, status) ==
  /\ IsPending(w)
  /\ Receipt(w) = None
  /\ outages < MaxOutages
  /\ outages' = outages + 1
  /\ Record(Current(w), status)
  /\ Ended(w, status)
  /\ UNCHANGED <<sink, receipts>>

Confirm(w) ==
  /\ pc[w] = "publishing"
  /\ Turn(w) > Len(batch[w])
  /\ confirmed' = confirmed \cup {[batch |-> batch[w], answers |-> answers[w]]}
  /\ pc' = [pc EXCEPT ![w] = "idle"]
  /\ batch' = [batch EXCEPT ![w] = <<>>]
  /\ answers' = [answers EXCEPT ![w] = <<>>]
  /\ UNCHANGED adapter

\* The caller repeats the whole batch.
Repeat(w) ==
  /\ pc[w] = "failed"
  /\ pc' = [pc EXCEPT ![w] = "publishing"]
  /\ UNCHANGED <<adapter, batch, answers, confirmed>>

Proceed(w) ==
  \/ Reuse(w)
  \/ Publish(w)
  \/ \E status \in Failures : Fail(w, status)
  \/ Confirm(w)
  \/ Repeat(w)

Next == \E w \in Workers : (\E b \in Batches : Start(w, b)) \/ Proceed(w)

Spec == Init /\ [][Next]_vars

\* A call that has begun runs to its end, and a caller whose batch failed
\* with a retryable error repeats it; nobody has to make a call.
FairSpec == Spec /\ \A w \in Workers : WF_vars(Proceed(w))
-----------------------------------------------------------------------------
\* The place of an event in the sink.
IsBefore(d, e) == \E i, j \in DOMAIN sink : i < j /\ sink[i] = d /\ sink[j] = e

\* Once the evidence of an event says it was published, no later failure is
\* recorded for it: a receipt is looked for before a failure is injected.
PublishedIsFinal ==
  \A i, j \in DOMAIN evidence :
    /\ i < j
    /\ evidence[i].status = "published"
    => KeyOf[evidence[j].event] # KeyOf[evidence[i].event]

\* A caller that got receipts for its batch finds every event of it in the
\* sink, under the event its receipt names, whatever calls failed or were
\* repeated in between (publish_batch returns at the first failure).
ConfirmedIsPublished ==
  \A c \in confirmed :
    /\ Len(c.answers) = Len(c.batch)
    /\ \A i \in DOMAIN c.batch :
         /\ KeyOf[c.answers[i].event] = KeyOf[c.batch[i]]
         /\ \E j \in DOMAIN sink : sink[j] = c.answers[i].event

\* The events a confirmed call published itself reached the sink in the order
\* of its batch, however the steps of other calls fell in between.
BatchOrderIsKept ==
  \A c \in confirmed :
    \A i, j \in DOMAIN c.answers :
      i < j /\ ~c.answers[i].duplicate /\ ~c.answers[j].duplicate
      => IsBefore(c.batch[i], c.batch[j])

\* A batch with an invalid event publishes nothing, not even the valid events
\* before it (publish_batch_committed validates all items first).
InvalidBatchIsHarmless ==
  \A i \in DOMAIN sink :
    \E b \in Batches :
      /\ \E j \in DOMAIN b : b[j] = sink[i]
      /\ \A j \in DOMAIN b : b[j] \notin Malformed

\* The publisher implements an append-only log without duplicates.
Log == INSTANCE EventLog
         WITH log <- sink, confirmed <- {c.batch : c \in confirmed}
LogSpec == Log!Spec

\* A batch that failed half-way is confirmed in the end by repeating it,
\* although its first events are published already, unless one of its events
\* is rejected.
FailedBatchIsConfirmed ==
  \A w \in Workers, b \in Batches :
    pc[w] = "failed" /\ batch[w] = b ~>
      /\ pc[w] = "idle"
      /\ \/ \E c \in confirmed : c.batch = b
         \/ \E i \in DOMAIN evidence, j \in DOMAIN b :
              evidence[i] = [event |-> b[j], status |-> "rejected"]
=============================================================================
