-------------------------- MODULE DeliveryServices --------------------------
(***************************************************************************)
(* The use cases that move deliveries, run by concurrent workers over the  *)
(* shared in-memory store:                                                 *)
(*                                                                         *)
(*   progress        services/delivery.rs   one item of a progression job  *)
(*   ack, fail       services/feedback.rs   a subscriber's feedback        *)
(*   signalDelivered, signalFailed          a backend's delivery signal    *)
(*   timeout                                a timeout signal               *)
(*   requestRetry    services/recovery.rs   an operator asks for retries   *)
(*   retry                                  one plan of a retry cycle      *)
(*   deadLetter                             an operator gives a delivery up*)
(*                                                                         *)
(* Each takes a request, loads the delivery, works on a private copy, may  *)
(* call the backend, stages its writes in a transaction and commits it.    *)
(* Every one of these is an await point, so the steps of two workers mix.  *)
(* One worker is the single-threaded deployment; two or more are a         *)
(* multi-threaded runtime, or several processes of the bus on one store.   *)
(*                                                                         *)
(* Steps that touch nothing another worker can see are merged: beginning   *)
(* a transaction with the load that follows it, and the staging calls of   *)
(* one transaction with each other (they read committed state in the same  *)
(* critical sections that detect a conflict, and any failure drops them    *)
(* all). Audit entries and the conflict log are written, never read, by    *)
(* these use cases and are left out, as are identifiers. Of the clocks is  *)
(* kept what a comparison of theirs can end: a step that a clock refuses   *)
(* is a step that may be refused.                                          *)
(***************************************************************************)
EXTENDS Delivery, FiniteSets

CONSTANTS
  Workers,      \* threads that run use cases
  Deliveries,   \* the deliveries in the store
  Uses,         \* the use cases in use, a subset of Use
  Keys,         \* idempotency keys (of an event: its source and identifier)
  Refs,         \* the rest of a feedback body: reference or reason
  PlanIds,      \* identifiers of the retry plans of one delivery
  Budgets,      \* the numbers of attempts a retry request may ask for
  MaxAttempts,  \* bound: no job starts an attempt beyond this number
  MaxOutages,   \* bound: how many commits may fail and how many answers of the
                \* backend be thrown away, together
  None          \* no retry plan, no boundary

Use == {"progress", "ack", "fail", "signalDelivered", "signalFailed",
        "timeout", "requestRetry", "retry", "deadLetter"}

FeedbackUse == {"ack", "fail", "signalDelivered", "signalFailed", "timeout"}

ASSUME UsesAssumption == Uses \subseteq Use
ASSUME BudgetsAssumption == Budgets \subseteq Nat \ {0}
ASSUME BoundsAssumption == MaxAttempts \in Nat /\ MaxOutages \in Nat
ASSUME NoneAssumption == None \notin PlanIds /\ None \notin Deliveries

-----------------------------------------------------------------------------
(***************************************************************************)
(* What the store holds.                                                   *)
(***************************************************************************)

\* domain::recovery::RetryPlan; version 0 stands for a plan not created.
RetryPlan == [ budget: Nat, remaining: Nat,
               status: {"unborn", "scheduled", "exhausted"}, version: Nat ]

UnbornPlan ==
  [budget |-> 0, remaining |-> 0, status |-> "unborn", version |-> 0]

\* Slip: the budget is not looked at.
IsOpenPlan(p) == p.status = "scheduled"

HasRemaining(p) == p.status = "scheduled" /\ p.remaining > 0

\* A feedback row is known by its delivery and its source; a command's
\* source is the reference the subscriber chose, the other sources also
\* name the attempt.
FeedbackId == [ delivery: Deliveries,
                kind: {"command", "signalDelivered", "signalFailed", "timeout"},
                attempt: Nat, ref: Refs ]

FeedbackRow == [ status: {"ack", "fail", "timeout"}, attempt: Nat,
                 id: FeedbackId ]

FeedbackRequest == [ delivery: Deliveries, attempt: 1 .. MaxAttempts,
                     ref: Refs, use: FeedbackUse, key: Keys ]

\* The scope of an idempotency key: subscribers' keys are scoped by their
\* delivery, event identifiers by the kind of event.
AnchorId == [ key: Keys, action: {"feedback", "signal", "timeout"},
              boundary: Deliveries \cup {None} ]

\* An anchor keeps the digest of the request, here the request itself.
Anchor == [ id: AnchorId, request: FeedbackRequest ]

Request ==
  [delivery: Deliveries, use: {"progress", "deadLetter"}]
  \cup FeedbackRequest
  \cup [plan: PlanIds, budget: Budgets, delivery: Deliveries,
        use: {"requestRetry"}]
  \cup [plan: PlanIds, delivery: Deliveries, use: {"retry"}, seen: RetryPlan]

NoRequest == [use |-> "none"]

IdOf(r) ==
  [ delivery |-> r.delivery,
    kind |-> IF r.use \in {"ack", "fail"} THEN "command" ELSE r.use,
    attempt |-> IF r.use \in {"ack", "fail"} THEN 0 ELSE r.attempt,
    ref |-> r.ref ]

StatusOf(r) ==
  CASE r.use \in {"ack", "signalDelivered"} -> "ack"
    [] r.use \in {"fail", "signalFailed"}   -> "fail"
    [] OTHER                                -> "timeout"

RowOf(r) == [status |-> StatusOf(r), attempt |-> r.attempt, id |-> IdOf(r)]

AnchorIdOf(r) ==
  CASE r.use \in {"ack", "fail"} ->
         [key |-> r.key, action |-> "feedback", boundary |-> r.delivery]
    [] r.use \in {"signalDelivered", "signalFailed"} ->
         [key |-> r.key, action |-> "signal", boundary |-> None]
    [] OTHER ->
         [key |-> r.key, action |-> "timeout", boundary |-> None]

\* Inserting a row into one of the store's maps: the key keeps one row.
Put(rows, row) == {x \in rows : x.id # row.id} \cup {row}

-----------------------------------------------------------------------------
VARIABLES
  delivery,     \* the committed delivery records
  feedback,     \* the committed feedback rows
  anchors,      \* the committed idempotency anchors
  plan,         \* the committed retry plans of each delivery
  active,       \* the plan that counts as the active one of each delivery
  deadLetters,  \* the deliveries with a dead-letter entry
  accepted,     \* external: dispatches the backend accepted, by delivery
  outages,      \* commits that failed and answers thrown away so far
  pc,           \* what each worker does next
  req,          \* the request it works on
  rec           \* its copy of the delivery

store == <<delivery, feedback, anchors, plan, active, deadLetters>>
vars == <<store, accepted, outages, pc, req, rec>>

Init ==
  /\ delivery \in
       [Deliveries -> {ScheduledDelivery, StartAttempt(ScheduledDelivery)}]
  /\ feedback = {}
  /\ anchors = {}
  /\ plan = [d \in Deliveries |-> [p \in PlanIds |-> UnbornPlan]]
  /\ active = [d \in Deliveries |-> None]
  /\ deadLetters = {}
  /\ accepted = [d \in Deliveries |-> 0]
  /\ outages = 0
  /\ pc = [w \in Workers |-> "idle"]
  /\ req = [w \in Workers |-> NoRequest]
  /\ rec = [w \in Workers |-> ScheduledDelivery]

-----------------------------------------------------------------------------
(***************************************************************************)
(* Taking a request.                                                       *)
(***************************************************************************)
Take(w, r) ==
  /\ pc[w] = "idle"
  /\ r.use \in Uses
  /\ pc' = [pc EXCEPT ![w] = "received"]
  /\ req' = [req EXCEPT ![w] = r]
  /\ UNCHANGED <<store, accepted, outages, rec>>

\* A progression job scans for scheduled deliveries.
TakeProgress(w, d) ==
  /\ delivery[d].status = "Scheduled"
  /\ LastAttempt(delivery[d]) < MaxAttempts
  /\ Take(w, [delivery |-> d, use |-> "progress"])

\* A retry cycle scans for scheduled plans and works on what it saw of them.
TakeRetry(w, d, p) ==
  /\ plan[d][p].status = "scheduled"
  /\ LastAttempt(delivery[d]) < MaxAttempts \/ ~HasRemaining(plan[d][p])
  /\ Take(w, [plan |-> p, delivery |-> d, use |-> "retry",
              seen |-> plan[d][p]])

\* A feedback whose key is already bound is answered from the anchor, or
\* refused when the request differs, and leaves everything as it is.
TakeFeedback(w, r) ==
  /\ \A a \in anchors : a.id # AnchorIdOf(r)
  /\ Take(w, r)

TakeRequestRetry(w, d, p, n) ==
  Take(w, [plan |-> p, budget |-> n, delivery |-> d, use |-> "requestRetry"])

TakeDeadLetter(w, d) ==
  Take(w, [delivery |-> d, use |-> "deadLetter"])

-----------------------------------------------------------------------------
(***************************************************************************)
(* Loading the delivery and working on a copy. "loaded" copies wait for    *)
(* the backend, "ready" ones are ready to be staged.                       *)
(***************************************************************************)
Loaded(w) == delivery[req[w].delivery]

Work(w, copy, next) ==
  /\ pc' = [pc EXCEPT ![w] = next]
  /\ rec' = [rec EXCEPT ![w] = copy]
  /\ UNCHANGED <<store, accepted, outages, req>>

\* The worker is done with the request, however it ended.
Finished(w) ==
  /\ pc' = [pc EXCEPT ![w] = "idle"]
  /\ req' = [req EXCEPT ![w] = NoRequest]
  /\ rec' = [rec EXCEPT ![w] = ScheduledDelivery]

\* The guards of each handler on the delivery it loaded.
IsSpent(r) == ~HasRemaining(r.seen)

\* Slips: the change is not recorded, or the record starts afresh.
RescheduledSilently(d) ==
  IF CanReschedule(d) THEN [d EXCEPT !.status = "Scheduled"] ELSE d

RescheduledAfresh(d) ==
  IF CanReschedule(d) THEN [d EXCEPT !.status = "Scheduled",
                                     !.history = <<>>] ELSE d

Rescheduled(d) == IF CanReschedule(d) THEN Move(d, "Scheduled") ELSE d

\* Slip: any attempt may be acknowledged.
MayAckLate(d, n) == d.status = "Delivered" /\ n \in 1 .. LastAttempt(d)

MayAck(d, n) == IsFinished(d, n) /\ CanComplete(d, n)
MayReject(d, n) == IsFinished(d, n) /\ CanFail(d)
MayTimeOut(d, n) ==
  \/ d.status = "Dispatching" /\ CanFinish(d, n)
  \/ d.status = "Delivered" /\ IsFinished(d, n)
MayDeadLetter(d) == CanDeadLetter(d) /\ EndOf(d.history) = "Failed"

Accepts(r, d) ==
  \/ r.use = "progress" /\ CanStart(d)
  \/ r.use = "retry" /\ (IsSpent(r) \/ CanStart(Rescheduled(d)))
  \/ r.use = "ack" /\ MayAck(d, r.attempt)
  \/ r.use = "fail" /\ MayReject(d, r.attempt)
  \/ r.use = "signalDelivered" /\ CanFinish(d, r.attempt) /\ CanDeliver(d)
  \/ r.use = "signalFailed" /\ CanFinish(d, r.attempt) /\ CanFail(d)
  \/ r.use = "timeout" /\ MayTimeOut(d, r.attempt)
  \/ r.use = "requestRetry" /\ CanReschedule(d)
  \/ r.use = "deadLetter" /\ MayDeadLetter(d)

\* The worker has a request for this handler, which the delivery allows.
Serves(w, use) ==
  /\ pc[w] = "received"
  /\ req[w].use = use
  /\ Accepts(req[w], Loaded(w))

\* Slip: the start of the attempt is not recorded.
ProgressSilently(w) ==
  /\ Serves(w, "progress")
  /\ Work(w, [Loaded(w) EXCEPT !.status = "Dispatching",
                               !.attempts = Append(@, "open")], "loaded")

Progress(w) ==
  /\ Serves(w, "progress")
  /\ Work(w, StartAttempt(Loaded(w)), "loaded")

Retry(w) ==
  /\ Serves(w, "retry")
  /\ ~IsSpent(req[w])
  /\ Work(w, StartAttempt(Rescheduled(Loaded(w))), "loaded")

\* A plan without remaining attempts is closed; the delivery is not saved.
Exhaust(w) ==
  /\ Serves(w, "retry")
  /\ IsSpent(req[w])
  /\ Work(w, Loaded(w), "ready")

Ack(w) ==
  /\ Serves(w, "ack")
  /\ Work(w, Move(Loaded(w), "Completed"), "ready")

Reject(w) ==
  /\ Serves(w, "fail")
  /\ Work(w, Move(Loaded(w), "Failed"), "ready")

SignalDelivered(w) ==
  /\ Serves(w, "signalDelivered")
  /\ Work(w, Deliver(Loaded(w)), "ready")

SignalFailed(w) ==
  /\ Serves(w, "signalFailed")
  /\ Work(w, FailAttempt(Loaded(w)), "ready")

\* Slip: the attempt stays open.
TimedOutOpen(d) == Move(d, "Failed")

TimedOut(d) ==
  IF d.status = "Dispatching" THEN FailAttempt(d) ELSE Move(d, "Failed")

TimeOut(w) ==
  /\ Serves(w, "timeout")
  /\ Work(w, TimedOut(Loaded(w)), "ready")

\* The delivery is only read: the plan is created beside it.
RequestRetry(w) ==
  /\ Serves(w, "requestRetry")
  /\ Work(w, Loaded(w), "ready")

DeadLetter(w) ==
  /\ Serves(w, "deadLetter")
  /\ Work(w, Move(Loaded(w), "DeadLettered"), "ready")

\* The backend answers a dispatch: it accepts it or the call fails.
Dispatched(w) ==
  /\ pc[w] = "loaded"
  /\ pc' = [pc EXCEPT ![w] = "ready"]
  /\ rec' = [rec EXCEPT ![w] = Deliver(@)]
  /\ accepted' = [accepted EXCEPT ![req[w].delivery] = @ + 1]
  /\ UNCHANGED <<store, outages, req>>

DispatchFailed(w) ==
  /\ pc[w] = "loaded"
  /\ pc' = [pc EXCEPT ![w] = "ready"]
  /\ rec' = [rec EXCEPT ![w] = FailAttempt(@)]
  /\ UNCHANGED <<store, accepted, outages, req>>

\* The answer is thrown away and the work with it: the backend answers the
\* call with an outcome that does not deliver, or the clock ran back while a
\* progression waited, and then the backend may have accepted the dispatch.
DropsAnswer(w) ==
  /\ pc[w] = "loaded"
  /\ outages < MaxOutages
  /\ outages' = outages + 1
  /\ \/ accepted' = accepted
     \/ /\ req[w].use = "progress"
        /\ accepted' = [accepted EXCEPT ![req[w].delivery] = @ + 1]
  /\ Finished(w)
  /\ UNCHANGED store

-----------------------------------------------------------------------------
(***************************************************************************)
(* Staging the writes: the store compares with what is committed now.      *)
(***************************************************************************)
SavesDelivery(r) ==
  r.use # "requestRetry" /\ ~(r.use = "retry" /\ IsSpent(r))

PlanOf(r) == plan[r.delivery][r.plan]

\* Slip: the version the commit will give is compared.
NextVersionHolds(w) ==
  SavesDelivery(req[w]) => Loaded(w).version = rec[w].version + 1

VersionHolds(w) ==
  SavesDelivery(req[w]) => Loaded(w).version = rec[w].version

\* Slip: the key is looked up, the feedback is not.
KeyIsNew(r) ==
  r.use \in FeedbackUse => \A a \in anchors : a.id # AnchorIdOf(r)

FeedbackIsNew(r) ==
  r.use \in FeedbackUse =>
    /\ \A f \in feedback : f.id # IdOf(r)
    /\ \A a \in anchors : a.id # AnchorIdOf(r)

\* Slip: another plan may be active.
PlanIsUnborn(r) == r.use = "requestRetry" => PlanOf(r).version = 0

PlanIsNew(r) ==
  r.use = "requestRetry" =>
    PlanOf(r).version = 0 /\ active[r.delivery] = None

\* Slip: the version the commit will give is compared.
NextPlanHolds(r) ==
  r.use = "retry" => PlanOf(r).version = r.seen.version + 1

PlanHolds(r) ==
  r.use = "retry" =>
    /\ PlanOf(r).version = r.seen.version
    /\ IsSpent(r) \/ active[r.delivery] \in {None, r.plan}

DeadLetterIsNew(r) ==
  r.use = "deadLetter" => r.delivery \notin deadLetters

CanStage(w) ==
  /\ VersionHolds(w)
  /\ FeedbackIsNew(req[w])
  /\ PlanIsNew(req[w])
  /\ PlanHolds(req[w])
  /\ DeadLetterIsNew(req[w])

Stage(w) ==
  /\ pc[w] = "ready"
  /\ CanStage(w)
  /\ pc' = [pc EXCEPT ![w] = "staged"]
  /\ UNCHANGED <<store, accepted, outages, req, rec>>

\* The handler finds the request unacceptable and rolls back. A comparison of
\* clocks refuses a timeout that claims to precede its attempt, and a signal
\* when the clock ran back since; dead-lettering reads the committed history
\* once more before it stages.
Refuse(w) ==
  /\ \/ pc[w] = "received" /\ ~Accepts(req[w], Loaded(w))
     \/ /\ pc[w] = "received"
        /\ req[w].use \in {"timeout", "signalDelivered", "signalFailed"}
        /\ Loaded(w).status = "Dispatching"
     \/ /\ pc[w] = "ready" /\ req[w].use = "deadLetter"
        /\ EndOf(Loaded(w).history) # "Failed"
     \/ pc[w] = "ready" /\ ~CanStage(w)
  /\ Finished(w)
  /\ UNCHANGED <<store, accepted, outages>>

-----------------------------------------------------------------------------
(***************************************************************************)
(* Committing: the staged rows replace the committed ones; nothing is      *)
(* compared again.                                                         *)
(***************************************************************************)
Committing(w, uses) ==
  /\ pc[w] = "staged"
  /\ req[w].use \in uses
  /\ Finished(w)
  /\ UNCHANGED <<accepted, outages>>

\* Slip: the version stays.
SaveDeliveryAsIs(w) ==
  delivery' = [delivery EXCEPT ![req[w].delivery] = rec[w]]

\* The copy, under the version that follows the one it was loaded with.
SaveDelivery(w) ==
  delivery' = [delivery EXCEPT ![req[w].delivery] =
                 [rec[w] EXCEPT !.version = @ + 1]]

SavePlan(r, p) ==
  plan' = [plan EXCEPT ![r.delivery][r.plan] = p]

CommitProgress(w) ==
  /\ Committing(w, {"progress"})
  /\ SaveDelivery(w)
  /\ UNCHANGED <<feedback, anchors, plan, active, deadLetters>>

CommitFeedback(w) ==
  /\ Committing(w, FeedbackUse)
  /\ SaveDelivery(w)
  /\ feedback' = Put(feedback, RowOf(req[w]))
  /\ anchors' =
       Put(anchors, [id |-> AnchorIdOf(req[w]), request |-> req[w]])
  /\ UNCHANGED <<plan, active, deadLetters>>

\* Slip: the attempt is not taken from the budget.
CommitRetryUnpaid(w) ==
  LET r == req[w] IN
  /\ Committing(w, {"retry"})
  /\ ~IsSpent(r)
  /\ SaveDelivery(w)
  /\ SavePlan(r, [r.seen EXCEPT !.version = @ + 1])
  /\ active' = [active EXCEPT ![r.delivery] = r.plan]
  /\ UNCHANGED <<feedback, anchors, deadLetters>>

CommitRetry(w) ==
  LET r == req[w] IN
  /\ Committing(w, {"retry"})
  /\ ~IsSpent(r)
  /\ SaveDelivery(w)
  /\ SavePlan(r, [r.seen EXCEPT !.remaining = @ - 1, !.version = @ + 1])
  /\ active' = [active EXCEPT ![r.delivery] = r.plan]
  /\ UNCHANGED <<feedback, anchors, deadLetters>>

CommitExhaust(w) ==
  LET r == req[w] IN
  /\ Committing(w, {"retry"})
  /\ IsSpent(r)
  /\ SavePlan(r, [r.seen EXCEPT !.status = "exhausted", !.version = @ + 1])
  /\ active' = [active EXCEPT ![r.delivery] = IF @ = r.plan THEN None ELSE @]
  /\ UNCHANGED <<delivery, feedback, anchors, deadLetters>>

CommitRequestRetry(w) ==
  LET r == req[w] IN
  /\ Committing(w, {"requestRetry"})
  /\ SavePlan(r, [budget |-> r.budget, remaining |-> r.budget,
                  status |-> "scheduled", version |-> 1])
  /\ active' = [active EXCEPT ![r.delivery] = r.plan]
  /\ UNCHANGED <<delivery, feedback, anchors, deadLetters>>

\* Slip: the entry is left to another unit of work.
CommitDeadLetterAlone(w) ==
  /\ Committing(w, {"deadLetter"})
  /\ SaveDelivery(w)
  /\ UNCHANGED <<feedback, anchors, plan, active, deadLetters>>

CommitDeadLetter(w) ==
  /\ Committing(w, {"deadLetter"})
  /\ SaveDelivery(w)
  /\ deadLetters' = deadLetters \cup {req[w].delivery}
  /\ UNCHANGED <<feedback, anchors, plan, active>>

\* The unit of work fails to commit and the staged rows are never seen
\* again. The same happens when no audit identifier can be drawn.
CommitFails(w) ==
  /\ pc[w] = "staged"
  /\ outages < MaxOutages
  /\ outages' = outages + 1
  /\ Finished(w)
  /\ UNCHANGED <<store, accepted>>

-----------------------------------------------------------------------------
Receive(w) ==
  \/ \E d \in Deliveries :
       \/ TakeProgress(w, d)
       \/ TakeDeadLetter(w, d)
       \/ \E p \in PlanIds :
            TakeRetry(w, d, p) \/ \E n \in Budgets : TakeRequestRetry(w, d, p, n)
  \/ \E r \in FeedbackRequest : TakeFeedback(w, r)

Handle(w) ==
  \/ Progress(w) \/ Retry(w) \/ Exhaust(w)
  \/ Ack(w) \/ Reject(w) \/ SignalDelivered(w) \/ SignalFailed(w) \/ TimeOut(w)
  \/ RequestRetry(w) \/ DeadLetter(w)
  \/ Dispatched(w) \/ DispatchFailed(w)
  \/ Stage(w) \/ Refuse(w)

Commit(w) ==
  \/ CommitProgress(w) \/ CommitFeedback(w) \/ CommitRetry(w)
  \/ CommitExhaust(w) \/ CommitRequestRetry(w) \/ CommitDeadLetter(w)

Next ==
  \E w \in Workers :
    Receive(w) \/ Handle(w) \/ Commit(w) \/ CommitFails(w) \/ DropsAnswer(w)

Spec == Init /\ [][Next]_vars
-----------------------------------------------------------------------------
(***************************************************************************)
(* Properties that hold for any number of workers.                         *)
(***************************************************************************)

\* The store and the workers' copies hold values of the right shape.
TypeOK ==
  /\ delivery \in [Deliveries -> DeliveryRecord]
  /\ feedback \subseteq FeedbackRow
  /\ anchors \subseteq Anchor
  /\ plan \in [Deliveries -> [PlanIds -> RetryPlan]]
  /\ active \in [Deliveries -> PlanIds \cup {None}]
  /\ deadLetters \subseteq Deliveries
  /\ accepted \in [Deliveries -> Nat]
  /\ outages \in 0 .. MaxOutages
  /\ pc \in [Workers -> {"idle", "received", "loaded", "ready", "staged"}]
  /\ req \in [Workers -> Request \cup {NoRequest}]
  /\ rec \in [Workers -> DeliveryRecord]

\* However the workers' steps mix, the history of every stored delivery is a
\* chain of allowed changes that leads to its status (append_history and the
\* mark_* operations are separate calls in every handler).
HistoryExplainsStatus == \A d \in Deliveries : IsLawful(delivery[d])

\* Only the last attempt of a stored delivery can be open, exactly while it is
\* dispatching, and a delivered or completed one had its last attempt
\* delivered, whichever of a dispatch, a signal and a timeout came first.
AttemptsAreSettled == \A d \in Deliveries : IsSettled(delivery[d])

\* The history has one dispatching entry for every attempt, so an auditor
\* who counts dispatches in the history counts the attempts.
DispatchesAreJournalled ==
  \A d \in Deliveries :
    LastAttempt(delivery[d]) =
      Cardinality({i \in DOMAIN delivery[d].history :
                     delivery[d].history[i][2] = "Dispatching"})

\* A completed delivery has an acknowledgement, by a subscriber and for its
\* last attempt, among the feedback rows, whatever other feedback raced it.
IsAcked(d) ==
  \E f \in feedback :
    /\ f.id.delivery = d
    /\ f.id.kind = "command"
    /\ f.status = "ack"
    /\ f.attempt = LastAttempt(delivery[d])

CompletedIsAcked ==
  \A d \in Deliveries : delivery[d].status = "Completed" => IsAcked(d)

\* A dead-lettered delivery has its dead-letter entry.
DeadLetteredHasEntry ==
  \A d \in Deliveries :
    delivery[d].status = "DeadLettered" => d \in deadLetters

-----------------------------------------------------------------------------
(***************************************************************************)
(* Properties of a single worker.                                          *)
(***************************************************************************)

\* A delivery has at most one scheduled retry plan and the active pointer
\* names it, so a retry cycle never works on two plans of one delivery.
OneActivePlan ==
  \A d \in Deliveries : \A p \in PlanIds :
    plan[d][p].status = "scheduled" <=> active[d] = p

\* What an anchor answers is what was answered first: its row is there and
\* has the outcome its request asked for.
AnchorsAnswerTruly ==
  \A a \in anchors : RowOf(a.request) \in feedback

\* The backend accepts a delivery once for every attempt recorded delivered,
\* except for the commits that failed after a dispatch, the acceptances that
\* were thrown away and the dispatch in progress: retries and repeated jobs add
\* no dispatch of their own.
DeliveredAttempts(d) ==
  {n \in DOMAIN delivery[d].attempts : delivery[d].attempts[n] = "delivered"}

DispatchesInHand(d) ==
  {w \in Workers : /\ pc[w] \in {"ready", "staged"}
                   /\ req[w].use \in {"progress", "retry"}
                   /\ req[w].delivery = d}

NoNeedlessDispatch ==
  \A d \in Deliveries :
    accepted[d] <= Cardinality(DeliveredAttempts(d)) + outages
                     + Cardinality(DispatchesInHand(d))

\* A change to a stored delivery replaces exactly the version it was made
\* from: "Saves the current delivery aggregate using optimistic
\* concurrency", ports/delivery.rs.
WritesAreVersioned ==
  [][\A d \in Deliveries :
       delivery'[d] # delivery[d] =>
         delivery'[d].version = delivery[d].version + 1]_vars

\* A completed or dead-lettered delivery is never touched again: "a terminal
\* state that must not be reopened", domain/delivery.rs.
TerminalStaysClosed ==
  [][\A d \in Deliveries :
       delivery[d].status \in Terminal => delivery'[d] = delivery[d]]_vars

\* A key once bound stays bound to its request, and a recorded feedback is
\* never replaced: repeating a request always gets the first answer.
AnswersAreForever ==
  [][anchors \subseteq anchors' /\ feedback \subseteq feedback']_vars

\* The histories of the deliveries are an append-only journal.
Journal == INSTANCE DeliveryJournal
             WITH journal <- [d \in Deliveries |-> delivery[d].history]

JournalSpec == Journal!Spec
=============================================================================
