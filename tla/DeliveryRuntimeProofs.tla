----------------------- MODULE DeliveryRuntimeProofs -----------------------
(***************************************************************************)
(* Proofs about the runtime of the delivery services, for any number of    *)
(* runners and clerks, any batch size and any mail: batches that work off  *)
(* an old scan keep what the services keep, and their reports are true.    *)
(***************************************************************************)
EXTENDS DeliveryRuntime, DeliveryServicesProofs

-----------------------------------------------------------------------------
(***************************************************************************)
(* No delivery enters the queue again, so a scheduled delivery is the one  *)
(* that was created, under its first version.                              *)
(***************************************************************************)
QueueIsFirst ==
  \A d \in Deliveries :
    delivery[d].status = "Scheduled" => delivery[d].version = 1

CopiesLeaveQueue ==
  \A w \in Workers :
    InHand(w) =>
      /\ SavesDelivery(req[w]) => rec[w].status # "Scheduled"
      /\ req[w].use = "progress" => rec[w].version = 1

QInv == QueueIsFirst /\ CopiesLeaveQueue

\* The deliveries that are not in the queue stay out of it.
QueueShrinks ==
  \A d \in Deliveries :
    delivery[d].status # "Scheduled" => delivery'[d].status # "Scheduled"

\* What the handlers make of a copy.
LEMMA CopyFields ==
  ASSUME NEW d \in DeliveryRecord, NEW to
  PROVE  /\ Move(d, to).status = to
         /\ Move(d, to).version = d.version
         /\ StartAttempt(d).status = "Dispatching"
         /\ StartAttempt(d).version = d.version
         /\ Deliver(d).status = "Delivered"
         /\ Deliver(d).version = d.version
         /\ FailAttempt(d).status = "Failed"
         /\ FailAttempt(d).version = d.version
<1>1. \A t : Move(d, t).status = t /\ Move(d, t).version = d.version
  BY DEF Move, DeliveryRecord
<1>2. StartAttempt(d).status = "Dispatching" /\ StartAttempt(d).version = d.version
  BY DEF StartAttempt, Move, DeliveryRecord
<1>3. \A o : /\ Finish(d, o) = [d EXCEPT !.attempts =
                                 [@ EXCEPT ![LastAttempt(d)] = o]]
             /\ \A t : Move(Finish(d, o), t).status = t
                       /\ Move(Finish(d, o), t).version = d.version
  BY DEF Finish, Move, DeliveryRecord
<1> QED
  BY <1>1, <1>2, <1>3 DEF Deliver, FailAttempt

\* A step that leaves the stored deliveries as they are and puts one copy in
\* a worker's hand, or none.
LEMMA QuietStep ==
  ASSUME TypeOK, QInv, NEW w \in Workers, NEW st, NEW r, NEW c,
         pc' = [pc EXCEPT ![w] = st],
         req' = [req EXCEPT ![w] = r],
         rec' = [rec EXCEPT ![w] = c],
         delivery' = delivery,
         st \in {"loaded", "ready", "staged"} =>
           /\ SavesDelivery(r) => c.status # "Scheduled"
           /\ r.use = "progress" => c.version = 1
  PROVE  QInv' /\ QueueShrinks
<1>1. QueueIsFirst' /\ QueueShrinks
  BY DEF QInv, QueueIsFirst, QueueShrinks
<1>2. ASSUME NEW v \in Workers, InHand(v)'
      PROVE  /\ SavesDelivery(req'[v]) => rec'[v].status # "Scheduled"
             /\ req'[v].use = "progress" => rec'[v].version = 1
  <2>1. CASE v = w
    <3>1. pc'[v] = st /\ req'[v] = r /\ rec'[v] = c
      BY <2>1 DEF TypeOK
    <3> QED
      BY <3>1, <1>2 DEF InHand
  <2>2. CASE v # w
    <3>1. pc'[v] = pc[v] /\ req'[v] = req[v] /\ rec'[v] = rec[v]
      BY <2>2 DEF TypeOK
    <3> QED
      BY <3>1, <1>2 DEF InHand, QInv, CopiesLeaveQueue
  <2> QED
    BY <2>1, <2>2
<1> QED
  BY <1>1, <1>2 DEF QInv, CopiesLeaveQueue

LEMMA QueueTake ==
  ASSUME TypeOK, QInv, NEW w \in Workers, NEW r, Take(w, r)
  PROVE  QInv' /\ QueueShrinks
<1>1. rec' = [rec EXCEPT ![w] = rec[w]]
  BY DEF Take, TypeOK
<1> QED
  BY <1>1, QuietStep DEF Take, store

LEMMA QueuePutDown ==
  ASSUME TypeOK, QInv, NEW w \in Workers, Finished(w), UNCHANGED delivery
  PROVE  QInv' /\ QueueShrinks
  BY QuietStep DEF Finished

LEMMA QueueDrop ==
  ASSUME TypeOK, QInv, NEW w \in Workers, DropsAnswer(w)
  PROVE  QInv' /\ QueueShrinks
  BY QueuePutDown DEF DropsAnswer, store

\* The handlers' work on what they loaded.
LEMMA QueueWork ==
  ASSUME TypeOK, QInv, NEW w \in Workers, NEW c, NEW next,
         Work(w, c, next),
         SavesDelivery(req[w]) => c.status # "Scheduled",
         req[w].use = "progress" => c.version = 1
  PROVE  QInv' /\ QueueShrinks
<1>1. req' = [req EXCEPT ![w] = req[w]]
  BY DEF Work, TypeOK
<1> QED
  BY <1>1, QuietStep DEF Work, store

\* What a worker in work loads.
LEMMA LoadedFields ==
  ASSUME IInv, NEW w \in Workers, pc[w] # "idle"
  PROVE  /\ req[w].delivery \in Deliveries
         /\ Loaded(w) = delivery[req[w].delivery]
         /\ Loaded(w) \in DeliveryRecord
         /\ rec[w] \in DeliveryRecord
  BY RequestFields DEF IInv, TypeOK, RequestsInHand, Loaded

\* No handler's copy puts a delivery back into the queue.
LEMMA QueueHandle ==
  ASSUME IInv, QInv, NEW w \in Workers, Handle(w)
  PROVE  QInv' /\ QueueShrinks
<1> DEFINE d == Loaded(w)
           use == req[w].use
<1>1. TypeOK
  BY DEF IInv
<1>2. pc[w] = "received" =>
        /\ d \in DeliveryRecord
        /\ d.status = "Scheduled" => d.version = 1
  BY LoadedFields DEF QInv, QueueIsFirst
<1>3. CASE Progress(w)
  <2>1. /\ pc[w] = "received" /\ d.status = "Scheduled"
        /\ use = "progress" /\ Work(w, StartAttempt(d), "loaded")
    BY <1>3 DEF Progress, Serves, Accepts, CanStart
  <2>2. StartAttempt(d).status = "Dispatching" /\ StartAttempt(d).version = 1
    BY <2>1, <1>2, CopyFields
  <2> HIDE DEF d
  <2> QED
    BY <1>1, <2>1, <2>2, QueueWork
<1>4. CASE Retry(w)
  <2>1. /\ pc[w] = "received" /\ use = "retry"
        /\ CanStart(Rescheduled(d))
        /\ Work(w, StartAttempt(Rescheduled(d)), "loaded")
    BY <1>4 DEF Retry, Serves, Accepts
  <2>2. StartAttempt(Rescheduled(d)).status = "Dispatching"
    BY <1>2, <2>1, LoadedDelivery, RetryCopy
  <2> HIDE DEF d
  <2> QED
    BY <1>1, <2>1, <2>2, QueueWork
<1>5. CASE Exhaust(w) \/ RequestRetry(w)
  <2>1. /\ ~SavesDelivery(req[w]) /\ use # "progress"
        /\ Work(w, d, "ready")
    BY <1>5 DEF Exhaust, RequestRetry, Serves, SavesDelivery
  <2> HIDE DEF d
  <2> QED
    BY <1>1, <2>1, QueueWork
<1>6. CASE Ack(w) \/ Reject(w) \/ SignalDelivered(w) \/ SignalFailed(w)
           \/ TimeOut(w) \/ DeadLetter(w)
  <2>1. PICK c :
          /\ pc[w] = "received" /\ use # "progress" /\ Work(w, c, "ready")
          /\ c \in {Move(d, "Completed"), Move(d, "Failed"), Deliver(d),
                    FailAttempt(d), Move(d, "DeadLettered")}
    BY <1>6 DEF Ack, Reject, SignalDelivered, SignalFailed, TimeOut, TimedOut,
         DeadLetter, Serves
  <2>2. c.status # "Scheduled"
    BY <1>2, <2>1, CopyFields
  <2> QED
    BY <1>1, <2>1, <2>2, QueueWork
<1>7. CASE Dispatched(w) \/ DispatchFailed(w)
  <2>1. PICK c \in {Deliver(rec[w]), FailAttempt(rec[w])} :
          /\ pc[w] = "loaded"
          /\ pc' = [pc EXCEPT ![w] = "ready"]
          /\ req' = [req EXCEPT ![w] = req[w]]
          /\ rec' = [rec EXCEPT ![w] = c]
          /\ delivery' = delivery
    BY <1>1, <1>7 DEF Dispatched, DispatchFailed, store, TypeOK
  <2>2. c.status # "Scheduled" /\ c.version = rec[w].version
    <3> DEFINE q == rec[w]
    <3>1. q \in DeliveryRecord
      BY <1>1 DEF TypeOK
    <3> HIDE DEF q
    <3>2. /\ Deliver(q).status = "Delivered" /\ Deliver(q).version = q.version
          /\ FailAttempt(q).status = "Failed"
          /\ FailAttempt(q).version = q.version
      BY <3>1, CopyFields
    <3> QED
      BY <2>1, <3>2 DEF q
  <2>3. use = "progress" => c.version = 1
    BY <2>1, <2>2 DEF QInv, CopiesLeaveQueue, InHand
  <2> QED
    BY <1>1, <2>1, <2>2, <2>3, QuietStep
<1>8. CASE Stage(w)
  <2>1. /\ pc[w] = "ready"
        /\ pc' = [pc EXCEPT ![w] = "staged"]
        /\ req' = [req EXCEPT ![w] = req[w]]
        /\ rec' = [rec EXCEPT ![w] = rec[w]]
        /\ delivery' = delivery
    BY <1>1, <1>8 DEF Stage, store, TypeOK
  <2>2. /\ SavesDelivery(req[w]) => rec[w].status # "Scheduled"
        /\ use = "progress" => rec[w].version = 1
    BY <2>1 DEF QInv, CopiesLeaveQueue, InHand
  <2> QED
    BY <1>1, <2>1, <2>2, QuietStep
<1>9. CASE Refuse(w)
  BY <1>1, <1>9, QueuePutDown DEF Refuse, store
<1> QED
  BY <1>3, <1>4, <1>5, <1>6, <1>7, <1>8, <1>9 DEF Handle

\* A commit stores a copy that has left the queue, or no delivery at all.
LEMMA QueueCommit ==
  ASSUME IInv, QInv, NEW w \in Workers, Commit(w) \/ CommitFails(w)
  PROVE  /\ QInv' /\ QueueShrinks
         /\ Commit(w) /\ SavesDelivery(req[w]) =>
              delivery'[req[w].delivery].status # "Scheduled"
<1> DEFINE r == req[w]
           c == [rec[w] EXCEPT !.version = @ + 1]
<1>1. TypeOK
  BY DEF IInv
<1>2. /\ pc[w] = "staged" /\ Finished(w)
      /\ Commit(w) => \/ SavesDelivery(r) /\ SaveDelivery(w)
                      \/ ~SavesDelivery(r) /\ UNCHANGED delivery
      /\ CommitFails(w) => UNCHANGED delivery
  BY DEF Commit, CommitProgress, CommitFeedback, CommitRetry, CommitExhaust,
     CommitRequestRetry, CommitDeadLetter, Committing, CommitFails, store,
     SavesDelivery, FeedbackUse
<1>3. r.delivery \in Deliveries /\ rec[w] \in DeliveryRecord
  BY <1>2, LoadedFields
<1>4. CASE SavesDelivery(r) /\ SaveDelivery(w)
  <2>1. rec[w].status # "Scheduled"
    BY <1>2, <1>4 DEF QInv, CopiesLeaveQueue, InHand
  <2>2. c.status # "Scheduled"
    BY <1>3, <2>1 DEF DeliveryRecord
  <2>3. delivery' = [delivery EXCEPT ![r.delivery] = c]
    BY <1>4 DEF SaveDelivery
  <2>4. /\ delivery'[r.delivery] = c
        /\ \A d \in Deliveries : d # r.delivery => delivery'[d] = delivery[d]
    <3> HIDE DEF c, r
    <3> QED
      BY <1>1, <1>3, <2>3 DEF TypeOK
  <2>5. QueueIsFirst' /\ QueueShrinks
    BY <2>2, <2>4 DEF QInv, QueueIsFirst, QueueShrinks
  <2>6. CopiesLeaveQueue'
    <3> SUFFICES ASSUME NEW v \in Workers, InHand(v)'
                 PROVE  /\ SavesDelivery(req'[v]) => rec'[v].status # "Scheduled"
                        /\ req'[v].use = "progress" => rec'[v].version = 1
      BY DEF CopiesLeaveQueue
    <3>1. v # w
      BY <1>1, <1>2 DEF Finished, InHand, TypeOK
    <3>2. pc'[v] = pc[v] /\ req'[v] = req[v] /\ rec'[v] = rec[v]
      BY <1>1, <1>2, <3>1 DEF Finished, TypeOK
    <3> QED
      BY <3>2 DEF InHand, QInv, CopiesLeaveQueue
  <2> QED
    BY <2>2, <2>4, <2>5, <2>6 DEF QInv
<1>5. CASE UNCHANGED delivery /\ ~(Commit(w) /\ SavesDelivery(r))
  BY <1>1, <1>2, <1>5, QueuePutDown
<1>6. CASE UNCHANGED delivery /\ Commit(w) /\ SavesDelivery(r)
  BY <1>2, <1>4, <1>6
<1> QED
  BY <1>2, <1>4, <1>5, <1>6

-----------------------------------------------------------------------------
(***************************************************************************)
(* Batches and mail.                                                       *)
(***************************************************************************)
BooksTypeOK ==
  /\ known \subseteq Deliveries
  /\ batch \in [Workers -> Batch \cup {NoBatch}]
  /\ cursor \in [Job -> Nat]
  /\ fate \in [Mail -> {"pending", "taken", "recorded", "refused"}]

\* Whoever works on an item works on it for a batch.
ItemsHaveBatch ==
  \A w \in Workers :
    pc[w] # "idle" /\ req[w].use \in Job => batch[w] # NoBatch

\* What a batch says of its items, given the deliveries and the outages: what
\* was dispatched has left the queue, and what has not cost an outage each.
WaitingOf(b, dl) ==
  {x \in b.done : x[1].use = "progress" /\ dl[x[1].delivery].status = "Scheduled"}

IsTrue(b, dl, n) ==
  b # NoBatch =>
    /\ \A x \in b.done :
         x[2] = "dispatched" => dl[x[1].delivery].status # "Scheduled"
    /\ IsFiniteSet(b.done)
    /\ Cardinality(WaitingOf(b, dl)) <= n

ReportsHold == \A w \in Workers : IsTrue(batch[w], delivery, outages)

BInv ==
  /\ IInv /\ QInv
  /\ BooksTypeOK
  /\ ItemsHaveBatch
  /\ ReportsHold

LEMMA BatchIsRecord ==
  ASSUME NEW b \in Batch \cup {NoBatch}, b # NoBatch
  PROVE  /\ b \in Batch
         /\ b.use \in Job /\ b.todo \subseteq Request
         /\ b.done \subseteq Request \X Count /\ b.next \in Nat
  BY DEF Batch

LEMMA BatchIsNoNone ==
  ASSUME NEW b \in Batch PROVE b # NoBatch
<1>1. b.use \in Job
  BY DEF Batch
<1>2. NoBatch.use \notin Job
  BY DEF NoBatch, Job
<1> QED
  BY <1>1, <1>2

\* Fewer items wait than before, or as many.
LEMMA FewerWait ==
  ASSUME NEW b, NEW n \in Nat, NEW m \in Nat, n <= m, IsFiniteSet(b.done),
         NEW dl, NEW dm, Cardinality(WaitingOf(b, dl)) <= n,
         WaitingOf(b, dm) \subseteq WaitingOf(b, dl)
  PROVE  Cardinality(WaitingOf(b, dm)) <= m
<1> DEFINE W == WaitingOf(b, dl)
           V == WaitingOf(b, dm)
<1>1. IsFiniteSet(W)
  <2>1. W \subseteq b.done
    BY DEF WaitingOf
  <2> QED
    BY <2>1, FS_Subset
<1> HIDE DEF W, V
<1>2. /\ Cardinality(V) <= Cardinality(W)
      /\ Cardinality(V) \in Nat /\ Cardinality(W) \in Nat
  BY <1>1, FS_Subset, FS_CardinalityType DEF W, V
<1> QED
  BY <1>2 DEF W, V

\* Reports that were true stay true when the queue only shrinks and outages
\* are only added to.
LEMMA ReportsStayTrue ==
  ASSUME NEW b \in Batch \cup {NoBatch}, IsTrue(b, delivery, outages),
         QueueShrinks, NEW m \in Nat, outages \in Nat, outages <= m
  PROVE  IsTrue(b, delivery', m)
<1> SUFFICES ASSUME b # NoBatch
             PROVE  IsTrue(b, delivery', m)
  BY DEF IsTrue
<1>1. \A x \in b.done : x[1].delivery \in Deliveries
  BY BatchIsRecord, RequestFields
<1>2. \A x \in b.done :
        x[2] = "dispatched" => delivery'[x[1].delivery].status # "Scheduled"
  BY <1>1 DEF IsTrue, QueueShrinks
<1>3. WaitingOf(b, delivery') \subseteq WaitingOf(b, delivery)
  BY <1>1 DEF WaitingOf, QueueShrinks
<1>4. IsFiniteSet(b.done) /\ Cardinality(WaitingOf(b, delivery)) <= outages
  BY DEF IsTrue
<1>5. Cardinality(WaitingOf(b, delivery')) <= m
  BY <1>3, <1>4, FewerWait
<1> QED
  BY <1>2, <1>4, <1>5 DEF IsTrue

\* One more item is done. If its delivery still waits, an outage is added.
LEMMA ReportGrows ==
  ASSUME NEW b \in Batch, NEW c \in Batch, NEW x,
         c.done = b.done \cup {x}, IsTrue(b, delivery', outages),
         outages \in Nat, outages' \in Nat, outages <= outages',
         x[2] = "dispatched" => delivery'[x[1].delivery].status # "Scheduled",
         \/ outages' = outages + 1
         \/ x[1].use = "progress" =>
              delivery'[x[1].delivery].status # "Scheduled"
  PROVE  IsTrue(c, delivery', outages')
<1> DEFINE W == WaitingOf(b, delivery')
           V == WaitingOf(c, delivery')
<1>1. /\ IsFiniteSet(b.done) /\ Cardinality(W) <= outages
      /\ \A y \in b.done :
           y[2] = "dispatched" => delivery'[y[1].delivery].status # "Scheduled"
  BY BatchIsNoNone DEF IsTrue
<1>2. IsFiniteSet(c.done)
  BY <1>1, FS_AddElement
<1>3. IsFiniteSet(W) /\ IsFiniteSet(V)
  <2>1. W \subseteq b.done /\ V \subseteq c.done
    BY DEF WaitingOf
  <2> QED
    BY <1>1, <1>2, <2>1, FS_Subset
<1>4. \/ V = W
      \/ V = W \cup {x} /\ outages' = outages + 1
  BY DEF WaitingOf
<1> HIDE DEF W, V
<1>5. Cardinality(W) \in Nat
  BY <1>3, FS_CardinalityType
<1>6. \/ Cardinality(W \cup {x}) = Cardinality(W)
      \/ Cardinality(W \cup {x}) = Cardinality(W) + 1
  <2>1. x \in W => W \cup {x} = W
    OBVIOUS
  <2>2. CASE x \in W
    BY <2>1, <2>2
  <2>3. CASE x \notin W
    BY <1>3, <2>3, FS_AddElement
  <2> QED
    BY <2>2, <2>3
<1>7. Cardinality(V) <= outages'
  <2>1. Cardinality(W) <= outages
    BY <1>1 DEF W
  <2>2. CASE V = W
    BY <1>5, <2>1, <2>2
  <2>3. CASE V = W \cup {x} /\ outages' = outages + 1
    BY <1>5, <1>6, <2>1, <2>3
  <2> QED
    BY <1>4, <2>2, <2>3
<1> QED
  BY <1>1, <1>2, <1>7 DEF IsTrue, V

LEMMA ReportsByBatch ==
  ReportsHold => ReportedHasLeft
  BY DEF ReportsHold, ReportedHasLeft, IsTrue, StillWaiting, WaitingOf

\* What an outage bound says of two neighbouring states.
OutagesGrow == outages \in Nat /\ outages' \in Nat /\ outages <= outages'

\* A step that gives one worker another batch, or the one it has.
LEMMA BatchStep ==
  ASSUME BooksTypeOK, ReportsHold, QueueShrinks, OutagesGrow,
         NEW w \in Workers, NEW b \in Batch \cup {NoBatch},
         batch' = [batch EXCEPT ![w] = b], IsTrue(b, delivery', outages')
  PROVE  /\ batch' \in [Workers -> Batch \cup {NoBatch}]
         /\ ReportsHold'
         /\ batch'[w] = b
         /\ \A v \in Workers : v # w => batch'[v] = batch[v]
<1>1. batch \in [Workers -> Batch \cup {NoBatch}]
  BY DEF BooksTypeOK
<1>2. /\ batch' \in [Workers -> Batch \cup {NoBatch}]
      /\ batch'[w] = b
      /\ \A v \in Workers : v # w => batch'[v] = batch[v]
  BY <1>1
<1>3. \A v \in Workers : IsTrue(batch'[v], delivery', outages')
  BY <1>1, <1>2, ReportsStayTrue DEF ReportsHold, OutagesGrow
<1> QED
  BY <1>2, <1>3 DEF ReportsHold

\* The end of an item or of a piece of mail.
LEMMA WentStep ==
  ASSUME BooksTypeOK, ReportsHold, QueueShrinks, OutagesGrow,
         NEW w \in Workers, req[w] \in Request,
         req[w].use \in Job => batch[w] # NoBatch,
         NEW count \in Count,
         NEW answer \in {"pending", "taken", "recorded", "refused"},
         Went(w, count, answer),
         count = "dispatched" => delivery'[req[w].delivery].status # "Scheduled",
         \/ outages' = outages + 1
         \/ req[w].use = "progress" =>
              delivery'[req[w].delivery].status # "Scheduled"
  PROVE  /\ BooksTypeOK' /\ ReportsHold'
         /\ \A v \in Workers : v # w => batch'[v] = batch[v]
<1>1. batch \in [Workers -> Batch \cup {NoBatch}]
  BY DEF BooksTypeOK
<1>2. CASE req[w].use \in Job
  <2> DEFINE b == [batch[w] EXCEPT !.done = @ \cup {<<req[w], count>>}]
  <2>1. batch' = [batch EXCEPT ![w] = b] /\ UNCHANGED <<fate, known, cursor>>
    BY <1>2 DEF Went
  <2>2. batch[w] # NoBatch /\ batch[w] \in Batch
    BY <1>1, <1>2
  <2>3. b \in Batch /\ b.done = batch[w].done \cup {<<req[w], count>>}
    BY <2>2 DEF Batch
  <2> HIDE DEF b
  <2>4. IsTrue(batch[w], delivery', outages)
    BY <1>1, ReportsStayTrue DEF ReportsHold, OutagesGrow
  <2>5. IsTrue(b, delivery', outages')
    BY <2>2, <2>3, <2>4, ReportGrows DEF OutagesGrow
  <2> QED
    BY <2>1, <2>3, <2>5, BatchStep DEF BooksTypeOK
<1>3. CASE req[w].use \notin Job
  <2>1. UNCHANGED <<batch, known, cursor>>
    BY <1>3 DEF Went
  <2>2. fate' \in [Mail -> {"pending", "taken", "recorded", "refused"}]
    BY <1>3 DEF Went, BooksTypeOK
  <2>3. ReportsHold'
    BY <1>1, <2>1, ReportsStayTrue DEF ReportsHold, OutagesGrow
  <2> QED
    BY <2>1, <2>2, <2>3 DEF BooksTypeOK
<1> QED
  BY <1>2, <1>3

-----------------------------------------------------------------------------
(***************************************************************************)
(* The steps of the runtime.                                               *)
(***************************************************************************)

\* What scans find are requests.
LEMMA ScanFindsRequests ==
  ASSUME TypeOK, BooksTypeOK, NEW j \in Job
  PROVE  Scan(j) \subseteq Request
<1>1. \A after : Schedulable(after) \subseteq Request
  BY DEF Schedulable, BooksTypeOK, Request
<1>2. \A after : DueRetries(after) \subseteq Request
  <2> SUFFICES ASSUME NEW after, NEW d \in Deliveries, NEW p \in PlanIds
               PROVE  [plan |-> p, delivery |-> d, use |-> "retry",
                       seen |-> plan[d][p]] \in Request
    BY DEF DueRetries
  <2>1. plan[d][p] \in RetryPlan
    BY DEF TypeOK
  <2> QED
    BY <2>1 DEF Request
<1>3. \A items : FirstOf(items) \subseteq items
  BY DEF FirstOf
<1> QED
  BY <1>1, <1>2, <1>3 DEF Scan

LEMMA NoIsNatural ==
  ASSUME NEW r \in Request, r.use \in Job
  PROVE  No(r) \in Nat
<1>1. r.delivery \in Nat
  BY RequestFields, RuntimeAssumption
<1>2. CASE r.use = "progress"
  BY <1>1, <1>2 DEF No
<1>3. CASE r.use = "retry"
  BY <1>3, RequestFields, RuntimeAssumption DEF No
<1> QED
  BY <1>2, <1>3 DEF Job

\* Items of a scan are for the scan's job.
LEMMA ScanFindsItems ==
  ASSUME NEW j \in Job, NEW r \in Scan(j)
  PROVE  r.use = j
  BY DEF Scan, FirstOf, Schedulable, DueRetries, Job

\* A step that leaves the services and the reports alone.
LEMMA BooksStep ==
  ASSUME BInv, UNCHANGED vars, BooksTypeOK', ReportsHold',
         \A w \in Workers :
           pc[w] # "idle" /\ req[w].use \in Job => batch'[w] # NoBatch
  PROVE  BInv'
<1>1. IInv'
  BY NextIInv DEF BInv
<1>2. QInv'
  BY DEF BInv, QInv, QueueIsFirst, CopiesLeaveQueue, InHand, vars, store
<1>3. ItemsHaveBatch'
  BY DEF ItemsHaveBatch, vars
<1> QED
  BY <1>1, <1>2, <1>3 DEF BInv

LEMMA StandStill ==
  ASSUME UNCHANGED vars
  PROVE  QueueShrinks
  BY DEF vars, store, QueueShrinks

\* Outages are counted, never taken back.
LEMMA OutagesOnlyGrow ==
  ASSUME IInv,
         \/ UNCHANGED outages
         \/ outages' = outages + 1
  PROVE  OutagesGrow
  BY BoundsAssumption DEF IInv, TypeOK, OutagesGrow

LEMMA ArriveStep ==
  ASSUME BInv, NEW d \in Deliveries, Arrive(d)
  PROVE  BInv'
<1>1. BooksTypeOK' /\ batch' = batch /\ UNCHANGED vars
  BY DEF Arrive, BInv, BooksTypeOK
<1>2. ReportsHold'
  BY <1>1 DEF BInv, ReportsHold, vars, store
<1> QED
  BY <1>1, <1>2, BooksStep DEF BInv, ItemsHaveBatch

LEMMA StartBatchStep ==
  ASSUME BInv, NEW w \in Workers, NEW j \in Job, StartBatch(w, j)
  PROVE  BInv'
<1>1. PICK last \in Scan(j) :
        batch' = [batch EXCEPT ![w] = [use |-> j, todo |-> Scan(j),
                                       done |-> {}, next |-> No(last)]]
  BY DEF StartBatch
<1> DEFINE b == [use |-> j, todo |-> Scan(j), done |-> {}, next |-> No(last)]
<1>2. /\ Scan(j) \subseteq Request /\ No(last) \in Nat
      /\ UNCHANGED <<vars, known, cursor, fate>>
      /\ pc[w] = "idle"
  BY ScanFindsRequests, ScanFindsItems, NoIsNatural
     DEF BInv, IInv, StartBatch, IsFree
<1>3. b \in Batch /\ IsTrue(b, delivery', outages')
  <2>1. b \in Batch /\ b.done = {}
    BY <1>2 DEF Batch
  <2>2. WaitingOf(b, delivery') = {}
    BY <2>1 DEF WaitingOf
  <2>3. IsFiniteSet({}) /\ Cardinality({}) = 0 /\ outages' \in Nat
    BY <1>2, FS_EmptySet, OutagesOnlyGrow DEF BInv, vars, OutagesGrow
  <2> QED
    BY <2>1, <2>2, <2>3 DEF IsTrue
<1>4. QueueShrinks /\ OutagesGrow
  BY <1>2, StandStill, OutagesOnlyGrow DEF BInv, vars
<1> HIDE DEF b
<1>5. /\ batch' \in [Workers -> Batch \cup {NoBatch}]
      /\ ReportsHold'
      /\ \A v \in Workers : v # w => batch'[v] = batch[v]
  BY <1>1, <1>3, <1>4, BatchStep DEF BInv, b
<1>6. BooksTypeOK'
  BY <1>2, <1>5 DEF BInv, BooksTypeOK
<1> QED
  BY <1>2, <1>5, <1>6, BooksStep DEF BInv, ItemsHaveBatch

LEMMA FindNothingStep ==
  ASSUME BInv, NEW w \in Workers, NEW j \in Job, FindNothing(w, j)
  PROVE  BInv'
<1>1. BooksTypeOK' /\ batch' = batch /\ UNCHANGED vars
  BY DEF FindNothing, BInv, BooksTypeOK
<1>2. ReportsHold'
  BY <1>1 DEF BInv, ReportsHold, vars, store
<1> QED
  BY <1>1, <1>2, BooksStep DEF BInv, ItemsHaveBatch

LEMMA EndBatchStep ==
  ASSUME BInv, NEW w \in Workers, EndBatch(w)
  PROVE  BInv'
<1>1. batch[w] \in Batch
  BY DEF EndBatch, BInv, BooksTypeOK
<1>2. /\ pc[w] = "idle" /\ UNCHANGED vars /\ UNCHANGED <<known, fate>>
      /\ batch' = [batch EXCEPT ![w] = NoBatch]
      /\ cursor' \in [Job -> Nat]
  BY <1>1 DEF EndBatch, BInv, BooksTypeOK, Batch
<1>3. IsTrue(NoBatch, delivery', outages')
  BY DEF IsTrue
<1>4. /\ batch' \in [Workers -> Batch \cup {NoBatch}]
      /\ ReportsHold'
      /\ \A v \in Workers : v # w => batch'[v] = batch[v]
  BY <1>2, <1>3, StandStill, OutagesOnlyGrow, BatchStep DEF BInv, vars
<1>5. BooksTypeOK'
  BY <1>2, <1>4 DEF BInv, BooksTypeOK
<1> QED
  BY <1>2, <1>4, <1>5, BooksStep DEF BInv, ItemsHaveBatch

LEMMA TurnAwayStep ==
  ASSUME BInv, NEW w \in Workers, NEW r \in Mail, TurnAway(w, r)
  PROVE  BInv'
<1>1. BooksTypeOK' /\ batch' = batch /\ UNCHANGED vars
  BY DEF TurnAway, BInv, BooksTypeOK
<1>2. ReportsHold'
  BY <1>1 DEF BInv, ReportsHold, vars, store
<1> QED
  BY <1>1, <1>2, BooksStep DEF BInv, ItemsHaveBatch

\* A worker takes a request: for a batch that it keeps, or one that is none
\* of a job's.
LEMMA TakesStep ==
  ASSUME BInv, NEW w \in Workers, NEW r \in Request, Take(w, r),
         BooksTypeOK', ReportsHold',
         r.use \in Job => batch'[w] # NoBatch,
         \A v \in Workers : v # w => batch'[v] = batch[v]
  PROVE  BInv'
<1>1. IInv' /\ QInv'
  BY TakeStep, QueueTake DEF BInv, IInv
<1>2. \A v \in Workers : v # w => pc'[v] = pc[v] /\ req'[v] = req[v]
  BY DEF Take, BInv, IInv, TypeOK
<1>3. req'[w] = r
  BY DEF Take, BInv, IInv, TypeOK
<1>4. ItemsHaveBatch'
  BY <1>2, <1>3 DEF ItemsHaveBatch, BInv
<1> QED
  BY <1>1, <1>4 DEF BInv

LEMMA StartItemStep ==
  ASSUME BInv, NEW w \in Workers, StartItem(w)
  PROVE  BInv'
<1>1. batch[w] # NoBatch /\ batch[w] \in Batch
  BY DEF StartItem, BInv, BooksTypeOK
<1>2. PICK r \in batch[w].todo :
        /\ Take(w, r)
        /\ batch' = [batch EXCEPT ![w] =
                       [batch[w] EXCEPT !.todo = @ \ {r}]]
  BY DEF StartItem
<1> DEFINE b == [batch[w] EXCEPT !.todo = @ \ {r}]
<1>3. b \in Batch /\ b.done = batch[w].done
  BY <1>1 DEF Batch
<1>4. r \in Request /\ UNCHANGED <<known, cursor, fate>>
  BY <1>1, BatchIsRecord DEF StartItem
<1> HIDE DEF b
<1>5. QueueShrinks /\ OutagesGrow
  BY <1>2, QueueTake, OutagesOnlyGrow DEF BInv, IInv, Take
<1>6. IsTrue(b, delivery', outages')
  <2>1. IsTrue(batch[w], delivery', outages')
    BY <1>1, <1>5, ReportsStayTrue DEF BInv, ReportsHold, OutagesGrow
  <2>2. WaitingOf(b, delivery') = WaitingOf(batch[w], delivery')
    BY <1>3 DEF WaitingOf
  <2> QED
    BY <1>1, <1>3, <2>1, <2>2 DEF IsTrue
<1>7. /\ batch' \in [Workers -> Batch \cup {NoBatch}]
      /\ ReportsHold' /\ batch'[w] = b
      /\ \A v \in Workers : v # w => batch'[v] = batch[v]
  BY <1>2, <1>3, <1>5, <1>6, BatchStep DEF BInv, b
<1>8. batch'[w] # NoBatch
  BY <1>3, <1>7, BatchIsNoNone
<1>9. BooksTypeOK'
  BY <1>4, <1>7 DEF BInv, BooksTypeOK
<1> QED
  BY <1>2, <1>4, <1>7, <1>8, <1>9, TakesStep

\* Requests from outside: mail and operators.
LEMMA OutsideStep ==
  ASSUME BInv, NEW w \in Workers, NEW r \in Request, r.use \notin Job,
         Take(w, r), UNCHANGED <<known, batch, cursor>>,
         fate' \in [Mail -> {"pending", "taken", "recorded", "refused"}]
  PROVE  BInv'
<1>1. BooksTypeOK'
  BY DEF BInv, BooksTypeOK
<1>2. ReportsHold'
  BY DEF BInv, ReportsHold, Take, store
<1> QED
  BY <1>1, <1>2, TakesStep

LEMMA TakeMailStep ==
  ASSUME BInv, NEW w \in Workers, NEW r \in Mail, TakeMail(w, r)
  PROVE  BInv'
<1>1. r \in FeedbackRequest
  BY RuntimeAssumption
<1>2. r \in Request /\ r.use \notin Job
  BY <1>1 DEF Request, FeedbackRequest, FeedbackUse, Job
<1>3. fate' \in [Mail -> {"pending", "taken", "recorded", "refused"}]
  BY DEF TakeMail, BInv, BooksTypeOK
<1> QED
  BY <1>2, <1>3, OutsideStep DEF TakeMail, TakeFeedback

LEMMA OperateStep ==
  ASSUME BInv, NEW w \in Workers, Operate(w)
  PROVE  BInv'
<1>1. PICK r \in Request : r.use \notin Job /\ Take(w, r)
  <2>1. PICK d \in known :
          \/ TakeDeadLetter(w, d)
          \/ \E p \in PlanIds, n \in Budgets : TakeRequestRetry(w, d, p, n)
    BY DEF Operate
  <2>2. d \in Deliveries
    BY DEF BInv, BooksTypeOK
  <2>3. CASE TakeDeadLetter(w, d)
    <3>1. [delivery |-> d, use |-> "deadLetter"] \in Request
      BY <2>2 DEF Request
    <3> QED
      BY <2>3, <3>1 DEF TakeDeadLetter, Job
  <2>4. ASSUME NEW p \in PlanIds, NEW n \in Budgets, TakeRequestRetry(w, d, p, n)
        PROVE  \E r \in Request : r.use \notin Job /\ Take(w, r)
    <3>1. [plan |-> p, budget |-> n, delivery |-> d, use |-> "requestRetry"]
            \in Request
      BY <2>2 DEF Request
    <3> QED
      BY <2>4, <3>1 DEF TakeRequestRetry, Job
  <2> QED
    BY <2>1, <2>3, <2>4
<1>2. UNCHANGED <<known, batch, cursor, fate>>
  BY DEF Operate, runtime
<1> QED
  BY <1>1, <1>2, OutsideStep DEF BInv, BooksTypeOK

\* What the services' own steps leave to a worker's books.
LEMMA OthersKeepRequests ==
  ASSUME IInv, NEW w \in Workers,
         Handle(w) \/ Commit(w) \/ CommitFails(w) \/ DropsAnswer(w)
  PROVE  /\ \A v \in Workers : v # w => pc'[v] = pc[v] /\ req'[v] = req[v]
         /\ (req'[w] = req[w] /\ pc[w] # "idle") \/ pc'[w] = "idle"
  BY DEF Handle, Progress, Retry, Exhaust, Ack, Reject, SignalDelivered,
     SignalFailed, TimeOut, RequestRetry, DeadLetter, Dispatched,
     DispatchFailed, Stage, Refuse, Serves, Work, Commit, CommitProgress,
     CommitFeedback, CommitRetry, CommitExhaust, CommitRequestRetry,
     CommitDeadLetter, Committing, CommitFails, DropsAnswer, Finished, IInv,
     TypeOK

LEMMA InWork ==
  ASSUME IInv, NEW w \in Workers, pc[w] # "idle"
  PROVE  req[w] \in Request
  BY DEF IInv, RequestsInHand

LEMMA WorksStep ==
  ASSUME BInv, NEW w \in Workers, Works(w)
  PROVE  BInv'
<1>1. Handle(w)
  BY DEF Works, Handle
<1>2. UNCHANGED <<known, batch, cursor, fate>>
  BY DEF Works, runtime
<1>3. IInv' /\ QInv' /\ QueueShrinks
  <2>1. [Next]_vars
    BY <1>1 DEF Next
  <2> QED
    BY <1>1, <2>1, NextIInv, QueueHandle DEF BInv
<1>4. BooksTypeOK'
  BY <1>2 DEF BInv, BooksTypeOK
<1>5. ReportsHold'
  <2>1. outages' = outages
    BY DEF Works, Progress, Retry, Exhaust, Ack, Reject, SignalDelivered,
       SignalFailed, TimeOut, RequestRetry, DeadLetter, Work, Dispatched,
       DispatchFailed, Stage
  <2>2. OutagesGrow
    BY <2>1, OutagesOnlyGrow DEF BInv
  <2> QED
    BY <1>2, <1>3, <2>2, ReportsStayTrue
       DEF BInv, BooksTypeOK, ReportsHold, OutagesGrow
<1>6. ItemsHaveBatch'
  BY <1>1, <1>2, OthersKeepRequests DEF BInv, ItemsHaveBatch
<1> QED
  BY <1>3, <1>4, <1>5, <1>6 DEF BInv

\* The last step of an item or of a piece of mail, however it ends.
LEMMA EndStep ==
  ASSUME BInv, NEW w \in Workers, pc[w] # "idle", pc'[w] = "idle",
         Refuse(w) \/ Commit(w) \/ CommitFails(w) \/ DropsAnswer(w),
         NEW count \in Count,
         NEW answer \in {"pending", "taken", "recorded", "refused"},
         Went(w, count, answer),
         count = "dispatched" => delivery'[req[w].delivery].status # "Scheduled",
         \/ outages' = outages + 1
         \/ /\ outages' = outages
            /\ req[w].use = "progress" =>
                 delivery'[req[w].delivery].status # "Scheduled"
  PROVE  BInv'
<1>1. Handle(w) \/ Commit(w) \/ CommitFails(w) \/ DropsAnswer(w)
  BY DEF Handle
<1>2. IInv' /\ QInv' /\ QueueShrinks
  <2>1. [Next]_vars
    BY <1>1 DEF Next
  <2> QED
    BY <1>1, <2>1, NextIInv, QueueHandle, QueueCommit, QueueDrop DEF BInv, IInv
<1>3. req[w] \in Request /\ (req[w].use \in Job => batch[w] # NoBatch)
  BY InWork DEF BInv, ItemsHaveBatch
<1>4. OutagesGrow
  BY OutagesOnlyGrow DEF BInv
<1>5. /\ BooksTypeOK' /\ ReportsHold'
      /\ \A v \in Workers : v # w => batch'[v] = batch[v]
  BY <1>2, <1>3, <1>4, WentStep DEF BInv
<1>6. ItemsHaveBatch'
  BY <1>1, <1>5, OthersKeepRequests DEF BInv, ItemsHaveBatch
<1> QED
  BY <1>2, <1>5, <1>6 DEF BInv

LEMMA FinishesStep ==
  ASSUME BInv, NEW w \in Workers, Finishes(w)
  PROVE  BInv'
<1>1. Commit(w) /\ Went(w, CountOf(w), "recorded")
  BY DEF Finishes
<1>2. /\ pc[w] = "staged" /\ pc'[w] = "idle"
      /\ outages' = outages
  BY <1>1 DEF Commit, CommitProgress, CommitFeedback, CommitRetry,
     CommitExhaust, CommitRequestRetry, CommitDeadLetter, Committing,
     Finished, BInv, IInv, TypeOK
<1>3. CountOf(w) \in Count
  BY DEF CountOf, Count
<1>4. /\ CountOf(w) = "dispatched" => req[w].use = "progress"
      /\ req[w].use = "progress" =>
           delivery'[req[w].delivery].status # "Scheduled"
  <2>1. req[w].use = "progress" => SavesDelivery(req[w])
    BY DEF SavesDelivery
  <2>2. CountOf(w) = "dispatched" => req[w].use = "progress"
    BY DEF CountOf
  <2> QED
    BY <1>1, <2>1, <2>2, QueueCommit DEF BInv
<1> QED
  BY <1>1, <1>2, <1>3, <1>4, EndStep

LEMMA GivesUpStep ==
  ASSUME BInv, NEW w \in Workers, GivesUp(w)
  PROVE  BInv'
<1>1. pc[w] # "idle" /\ pc'[w] = "idle" /\ outages' = outages + 1
  BY DEF GivesUp, CommitFails, Finished, BInv, IInv, TypeOK
<1> QED
  BY <1>1, EndStep DEF GivesUp, Count

LEMMA DiscardsStep ==
  ASSUME BInv, NEW w \in Workers, Discards(w)
  PROVE  BInv'
<1>1. pc[w] # "idle" /\ pc'[w] = "idle" /\ outages' = outages + 1
  BY DEF Discards, DropsAnswer, Finished, BInv, IInv, TypeOK
<1>2. CASE req[w].use = "progress"
  BY <1>1, <1>2, EndStep DEF Discards, Count
<1>3. CASE req[w].use # "progress"
  BY <1>1, <1>3, EndStep DEF Discards, Count
<1> QED
  BY <1>2, <1>3

\* An item is refused because its delivery has left the queue: it was no
\* longer scheduled when it was loaded, or the version it had in the queue
\* was gone when it was staged.
LEMMA RefusedHasLeft ==
  ASSUME IInv, QInv, NEW w \in Workers, Refuse(w), req[w].use = "progress"
  PROVE  delivery'[req[w].delivery].status # "Scheduled"
<1>1. delivery' = delivery
  BY DEF Refuse, store
<1>2. pc[w] # "idle"
  BY DEF Refuse
<1>3. /\ Loaded(w) = delivery[req[w].delivery]
      /\ req[w].delivery \in Deliveries
  BY <1>2, LoadedFields
<1>4. CASE pc[w] = "received"
  BY <1>1, <1>3, <1>4 DEF Refuse, Accepts, CanStart
<1>5. CASE pc[w] = "ready"
  <2>1. ~CanStage(w)
    BY <1>5 DEF Refuse
  <2>2. Loaded(w).version # rec[w].version
    BY <2>1 DEF CanStage, VersionHolds, FeedbackIsNew, FeedbackUse, PlanIsNew,
       PlanHolds, DeadLetterIsNew
  <2>3. rec[w].version = 1
    BY <1>5 DEF QInv, CopiesLeaveQueue, InHand
  <2> QED
    BY <1>1, <1>3, <2>2, <2>3 DEF QInv, QueueIsFirst
<1> QED
  BY <1>4, <1>5 DEF Refuse

LEMMA DeclinesStep ==
  ASSUME BInv, NEW w \in Workers, Declines(w)
  PROVE  BInv'
<1>1. pc[w] # "idle" /\ pc'[w] = "idle" /\ outages' = outages
  BY DEF Declines, Refuse, Finished, BInv, IInv, TypeOK
<1>2. CASE req[w].use = "progress"
  <2>1. delivery'[req[w].delivery].status # "Scheduled"
    BY <1>2, RefusedHasLeft DEF Declines, BInv
  <2> QED
    BY <1>1, <1>2, <2>1, EndStep DEF Declines, Count
<1>3. CASE req[w].use # "progress"
  BY <1>1, <1>3, EndStep DEF Declines, Count
<1> QED
  BY <1>2, <1>3

-----------------------------------------------------------------------------
LEMMA BInitial == RuntimeInit => BInv
<1> SUFFICES ASSUME RuntimeInit PROVE BInv
  OBVIOUS
<1>1. IInv
  BY InitIInv DEF RuntimeInit
<1>2. \A w \in Workers : pc[w] = "idle" /\ batch[w] = NoBatch
  BY DEF RuntimeInit, Init
<1>3. QueueIsFirst
  <2>1. ScheduledDelivery \in DeliveryRecord /\ ScheduledDelivery.version = 1
    BY DEF ScheduledDelivery, DeliveryRecord, Status
  <2>2. StartAttempt(ScheduledDelivery).status # "Scheduled"
    BY <2>1, CopyFields
  <2>3. \A d \in Deliveries :
          delivery[d] \in {ScheduledDelivery, StartAttempt(ScheduledDelivery)}
    BY DEF RuntimeInit, Init
  <2> QED
    BY <2>1, <2>2, <2>3 DEF QueueIsFirst
<1>4. QInv
  BY <1>2, <1>3 DEF QInv, CopiesLeaveQueue, InHand
<1>5. BooksTypeOK
  BY DEF RuntimeInit, BooksTypeOK
<1> QED
  BY <1>1, <1>2, <1>4, <1>5 DEF BInv, ItemsHaveBatch, ReportsHold, IsTrue

LEMMA BInductive == BInv /\ [RuntimeNext]_allVars => BInv'
<1> SUFFICES ASSUME BInv, [RuntimeNext]_allVars PROVE BInv'
  OBVIOUS
<1>1. ASSUME NEW d \in Deliveries, Arrive(d) PROVE BInv'
  BY <1>1, ArriveStep
<1>2. ASSUME NEW j \in Job, RunJob(j) PROVE BInv'
  BY <1>2, StartBatchStep, FindNothingStep, RuntimeAssumption DEF RunJob
<1>3. ASSUME NEW r \in Mail, Answer(r) PROVE BInv'
  BY <1>3, TakeMailStep, TurnAwayStep, RuntimeAssumption DEF Answer
<1>4. ASSUME NEW w \in Clerks, Operate(w) PROVE BInv'
  BY <1>4, OperateStep, RuntimeAssumption
<1>5. ASSUME NEW w \in Workers, GetsOn(w) \/ GivesUp(w) \/ Discards(w)
      PROVE  BInv'
  BY <1>5, WorksStep, FinishesStep, DeclinesStep, StartItemStep, EndBatchStep,
     GivesUpStep, DiscardsStep DEF GetsOn
<1>6. CASE UNCHANGED allVars
  <2>1. UNCHANGED vars /\ UNCHANGED <<known, batch, cursor, fate>>
    BY <1>6 DEF allVars, runtime
  <2> QED
    BY <2>1, BooksStep DEF BInv, BooksTypeOK, ReportsHold, ItemsHaveBatch,
       vars, store
<1> QED
  BY <1>1, <1>2, <1>3, <1>4, <1>5, <1>6 DEF RuntimeNext

LEMMA BAlways == RuntimeSpec => []BInv
  BY BInitial, BInductive, PTL DEF RuntimeSpec

\* Whatever batches work off and whatever mail is repeated, the store, the
\* workers' copies, the batches and the mail hold values of the right shape.
THEOREM RuntimeTypes == RuntimeSpec => []RuntimeTypeOK
<1>1. BInv => RuntimeTypeOK
  BY DEF BInv, IInv, BooksTypeOK, RuntimeTypeOK
<1> QED
  BY <1>1, BAlways, PTL

\* However many runners race for the same deliveries with old scans, a
\* delivery that a batch reports as dispatched is not waiting, and the items it
\* has done in vain are no more than the commits that failed and the answers
\* that were thrown away.
THEOREM ReportsAreTrue == RuntimeSpec => []ReportedHasLeft
<1>1. BInv => ReportedHasLeft
  BY ReportsByBatch DEF BInv
<1> QED
  BY <1>1, BAlways, PTL

\* Items of an old scan keep what requests of the services keep: the history
\* explains the status, attempts are settled, completions acknowledged and
\* dead-lettered deliveries entered.
THEOREM BatchesKeepDeliveries ==
  RuntimeSpec => [](/\ HistoryExplainsStatus /\ AttemptsAreSettled
                    /\ CompletedIsAcked /\ DeadLetteredHasEntry)
<1>1. BInv => /\ HistoryExplainsStatus /\ AttemptsAreSettled
              /\ CompletedIsAcked /\ DeadLetteredHasEntry
  BY DEF BInv, IInv
<1> QED
  BY <1>1, BAlways, PTL
=============================================================================
