-------------------------- MODULE DeliveryRuntime --------------------------
(***************************************************************************)
(* The delivery services as the shells drive them:                         *)
(*                                                                         *)
(*   job runners (crates/jobs) run progression batches and retry cycles: a *)
(*   batch is what one scan found, worked off item by item while others    *)
(*   change it, and ends with the cursor for the next one;                 *)
(*   consumers (crates/worker) and the API (crates/api) take in feedback,  *)
(*   and whoever sent it sends it again when the answer is retryable.      *)
(*                                                                         *)
(* A step of a service is the step of DeliveryServices, together with what *)
(* it means for the batch or the message it belongs to. Deliveries are     *)
(* numbers, in the order of their identifiers, and so are the places of    *)
(* the retry plans (PlanNo); 0 is the cursor before the first of them.     *)
(* Who starts jobs, and with which cursor, is not in the sources: here     *)
(* each job is given the cursor the last one of its kind returned.         *)
(***************************************************************************)
EXTENDS DeliveryServices

CONSTANTS
  Runners,    \* the workers that run jobs
  Clerks,     \* the workers that serve requests
  PlanNo,     \* where a delivery's retry plan stands among all plans
  BatchSize,  \* the batch size of the jobs
  Mail,       \* the feedback that is sent
  Restarts    \* does the scheduler start over when a job found nothing?

ASSUME RuntimeAssumption ==
  /\ Runners \subseteq Workers /\ Clerks \subseteq Workers
  /\ Deliveries \subseteq Nat \ {0}
  /\ PlanNo \in [Deliveries \X PlanIds -> Nat \ {0}]
  /\ \A y, z \in Deliveries \X PlanIds : PlanNo[y] = PlanNo[z] => y = z
  /\ BatchSize \in Nat \ {0}
  /\ Mail \subseteq FeedbackRequest
  /\ Restarts \in BOOLEAN

Job == {"progress", "retry"}

\* What a batch counts an item as.
Count == {"dispatched", "skipped", "retried", "exhausted", "failed"}

\* A batch: the items still to do, what became of the others, and the cursor
\* it will return.
Batch == [ use: Job, todo: SUBSET Request, done: SUBSET (Request \X Count),
           next: Nat ]

NoBatch == [use |-> "none"]

VARIABLES
  known,   \* the deliveries created so far
  batch,   \* the batch each worker is running
  cursor,  \* the cursor for the next job of each kind
  fate     \* what became of each piece of mail

runtime == <<known, batch, cursor, fate>>
allVars == <<vars, runtime>>

RuntimeInit ==
  /\ Init
  /\ known \in SUBSET Deliveries
  /\ batch = [w \in Workers |-> NoBatch]
  /\ cursor = [j \in Job |-> 0]
  /\ fate = [r \in Mail |-> "pending"]

\* Deliveries are created by others.
Arrive(d) ==
  /\ d \notin known
  /\ known' = known \cup {d}
  /\ UNCHANGED <<vars, batch, cursor, fate>>

-----------------------------------------------------------------------------
(***************************************************************************)
(* Scans.                                                                  *)
(***************************************************************************)
No(r) == IF r.use = "progress" THEN r.delivery ELSE PlanNo[r.delivery, r.plan]

\* The scan starts over when nothing is left after the cursor: no delivery
\* of whatever status.
IsBeyond(d, after) == d > after \/ \A e \in known : e <= after

\* Scheduled deliveries and scheduled retry plans after a cursor.
Schedulable(after) ==
  {[delivery |-> d, use |-> "progress"] :
     d \in {e \in known : /\ delivery[e].status = "Scheduled"
                          /\ IsBeyond(e, after)}}

\* Slip: the cycle passes over plans that have nothing left.
DueWithBudget(after) ==
  {[plan |-> x[2], delivery |-> x[1], use |-> "retry",
    seen |-> plan[x[1]][x[2]]] :
     x \in {y \in Deliveries \X PlanIds :
              /\ HasRemaining(plan[y[1]][y[2]])
              /\ PlanNo[y] > after}}

DueRetries(after) ==
  {[plan |-> x[2], delivery |-> x[1], use |-> "retry",
    seen |-> plan[x[1]][x[2]]] :
     x \in {y \in Deliveries \X PlanIds :
              /\ plan[y[1]][y[2]].status = "scheduled"
              /\ PlanNo[y] > after}}

\* The first items, as many as a batch may hold.
FirstOf(items) ==
  {r \in items : Cardinality({q \in items : No(q) < No(r)}) < BatchSize}

Scan(j) ==
  FirstOf(IF j = "progress" THEN Schedulable(cursor[j])
                            ELSE DueRetries(cursor[j]))

-----------------------------------------------------------------------------
(***************************************************************************)
(* Batches.                                                                *)
(***************************************************************************)
IsFree(w) == pc[w] = "idle" /\ batch[w] = NoBatch

\* A scan that finds something: progress_batch and run_retry_cycle. The
\* batch will return the place of the last item found.
StartBatch(w, j) ==
  /\ IsFree(w)
  /\ \E last \in Scan(j) :
       /\ \A r \in Scan(j) : No(r) <= No(last)
       /\ batch' = [batch EXCEPT ![w] = [ use |-> j, todo |-> Scan(j),
                                          done |-> {}, next |-> No(last) ]]
  /\ UNCHANGED <<vars, known, cursor, fate>>

\* A scan that finds nothing returns the cursor it was given; the scheduler
\* keeps it, or starts over.
FindNothing(w, j) ==
  /\ IsFree(w)
  /\ Scan(j) = {}
  /\ cursor' = [cursor EXCEPT ![j] = IF Restarts THEN 0 ELSE @]
  /\ UNCHANGED <<vars, known, batch, fate>>

\* The items are worked off in order, whatever happened to them since.
StartItem(w) ==
  /\ batch[w] # NoBatch
  /\ \E r \in batch[w].todo :
       /\ \A q \in batch[w].todo : No(r) <= No(q)
       /\ Take(w, r)
       /\ batch' = [batch EXCEPT ![w].todo = @ \ {r}]
  /\ UNCHANGED <<known, cursor, fate>>

EndBatch(w) ==
  /\ pc[w] = "idle"
  /\ batch[w] # NoBatch
  /\ batch[w].todo = {}
  /\ cursor' = [cursor EXCEPT ![batch[w].use] = batch[w].next]
  /\ batch' = [batch EXCEPT ![w] = NoBatch]
  /\ UNCHANGED <<vars, known, fate>>

-----------------------------------------------------------------------------
(***************************************************************************)
(* Mail: feedback commands, backend signals and timeout signals.           *)
(***************************************************************************)
TakeMail(w, r) ==
  /\ IsFree(w)
  /\ fate[r] = "pending"
  /\ r.delivery \in known
  /\ TakeFeedback(w, r)
  /\ fate' = [fate EXCEPT ![r] = "taken"]
  /\ UNCHANGED <<known, batch, cursor>>

\* The key is bound to another request, or the delivery does not exist.
TurnAway(w, r) ==
  /\ IsFree(w)
  /\ fate[r] = "pending"
  /\ r.delivery \notin known \/ \E a \in anchors : a.id = AnchorIdOf(r)
  /\ fate' = [fate EXCEPT ![r] = "refused"]
  /\ UNCHANGED <<vars, known, batch, cursor>>

\* Operators ask for retries and give deliveries up.
Operate(w) ==
  /\ IsFree(w)
  /\ \E d \in known :
       \/ TakeDeadLetter(w, d)
       \/ \E p \in PlanIds, n \in Budgets : TakeRequestRetry(w, d, p, n)
  /\ UNCHANGED runtime

-----------------------------------------------------------------------------
(***************************************************************************)
(* The services' steps. Whoever works on an item or a piece of mail says   *)
(* at the end what became of it.                                           *)
(***************************************************************************)
Went(w, count, answer) ==
  /\ IF req[w].use \in Job
       THEN /\ batch' = [batch EXCEPT ![w].done = @ \cup {<<req[w], count>>}]
            /\ fate' = fate
       ELSE IF req[w] \in Mail
              THEN /\ fate' = [fate EXCEPT ![req[w]] = answer]
                   /\ batch' = batch
              ELSE UNCHANGED <<batch, fate>>
  /\ UNCHANGED <<known, cursor>>

CountOf(w) ==
  IF req[w].use = "progress"
    THEN IF rec[w].status = "Delivered" THEN "dispatched" ELSE "failed"
    ELSE IF IsSpent(req[w]) THEN "exhausted" ELSE "retried"

Finishes(w) == Commit(w) /\ Went(w, CountOf(w), "recorded")

\* Slip: a message is forgotten when its commit fails.
GivesUpForgotten(w) ==
  CommitFails(w) /\ Went(w, "failed", "taken")

\* Slip: the item is counted before its commit is known.
GivesUpAsDone(w) == CommitFails(w) /\ Went(w, CountOf(w), "pending")

\* A failed commit is a retryable error: the item of a batch counts as
\* failed, and a message is sent again.
GivesUp(w) == CommitFails(w) /\ Went(w, "failed", "pending")

\* Conflicts and unknown records: an item of a progression counts as
\* skipped, one of a retry cycle as failed, and a message is not repeated.
Declines(w) ==
  /\ Refuse(w)
  /\ Went(w, IF req[w].use = "progress" THEN "skipped" ELSE "failed", "refused")

\* An answer of the backend that is thrown away is a conflict for the job,
\* although its delivery or plan is as it was.
Discards(w) ==
  /\ DropsAnswer(w)
  /\ Went(w, IF req[w].use = "progress" THEN "skipped" ELSE "failed", "refused")

Works(w) ==
  /\ \/ Progress(w) \/ Retry(w) \/ Exhaust(w)
     \/ Ack(w) \/ Reject(w) \/ SignalDelivered(w) \/ SignalFailed(w)
     \/ TimeOut(w) \/ RequestRetry(w) \/ DeadLetter(w)
     \/ Dispatched(w) \/ DispatchFailed(w)
     \/ Stage(w)
  /\ UNCHANGED runtime

GetsOn(w) ==
  Works(w) \/ Finishes(w) \/ Declines(w) \/ StartItem(w) \/ EndBatch(w)

RunJob(j) == \E w \in Runners : StartBatch(w, j) \/ FindNothing(w, j)

Answer(r) == \E w \in Clerks : TakeMail(w, r) \/ TurnAway(w, r)

RuntimeNext ==
  \/ \E d \in Deliveries : Arrive(d)
  \/ \E j \in Job : RunJob(j)
  \/ \E r \in Mail : Answer(r)
  \/ \E w \in Clerks : Operate(w)
  \/ \E w \in Workers : GetsOn(w) \/ GivesUp(w) \/ Discards(w)

RuntimeSpec == RuntimeInit /\ [][RuntimeNext]_allVars

\* Workers get on with what they began, jobs are started again and again,
\* and mail is delivered until it is answered.
Fairness ==
  /\ \A w \in Workers : WF_allVars(GetsOn(w))
  /\ \A j \in Job : SF_allVars(RunJob(j))
  /\ \A r \in Mail : SF_allVars(Answer(r))

FairSpec == RuntimeSpec /\ Fairness

-----------------------------------------------------------------------------
(***************************************************************************)
(* Properties.                                                             *)
(***************************************************************************)
RuntimeTypeOK ==
  /\ TypeOK
  /\ known \subseteq Deliveries
  /\ batch \in [Workers -> Batch \cup {NoBatch}]
  /\ cursor \in [Job -> Nat]
  /\ fate \in [Mail -> {"pending", "taken", "recorded", "refused"}]

\* The items a batch has done although their deliveries still wait, whatever
\* it counted them as.
StillWaiting(b) ==
  {x \in b.done : /\ x[1].use = "progress"
                  /\ delivery[x[1].delivery].status = "Scheduled"}

\* A delivery that a progression batch reports as dispatched has left the
\* queue for good, whoever raced the batch for it. An item that was done and
\* still waits cost an outage, a failed commit or an answer thrown away: no
\* race between a scan and others' work leaves a delivery behind.
ReportedHasLeft ==
  \A w \in Workers :
    batch[w] # NoBatch =>
      /\ \A x \in batch[w].done :
           x[2] = "dispatched" =>
             delivery[x[1].delivery].status # "Scheduled"
      /\ Cardinality(StillWaiting(batch[w])) <= outages

\* Again and again no delivery is waiting: each is attempted in the end,
\* wherever the cursor of the scans stood when it arrived, once commits stop
\* failing and the backend's answers are no longer thrown away.
ScheduledIsAttempted ==
  []<>(\A d \in known : delivery[d].status # "Scheduled")

\* Again and again no retry plan with a used-up budget is open: retry cycles
\* find and close them, and their deliveries are free for another plan.
SpentPlanIsClosed ==
  []<>(\A d \in Deliveries : \A p \in PlanIds :
         ~(plan[d][p].status = "scheduled" /\ plan[d][p].remaining = 0))

\* Every piece of mail is recorded or refused in the end: a commit that fails
\* does not lose it.
MailIsAnswered ==
  \A r \in Mail : <>(fate[r] \in {"recorded", "refused"})
=============================================================================
