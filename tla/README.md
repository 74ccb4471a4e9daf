# A verification project for the Quantalithos bus

The bus accepts publications, from commands or from an upstream outbox, hands
deliveries to transport backends, records what subscribers, backends and timers
say about them, recovers failed ones by retry, dead letter and replay, and
publishes outbound events. These modules model its services, the jobs and
consumers that drive them and the queries that read their results, from the Rust
sources under `src/crates/`, check them with TLC on small instances, and prove
the most important results with TLAPS for every value of the constants.

Contents: [inventory](#inventory) - [modules](#modules-and-how-they-correspond-to-the-code)
- [runs](#runs) - [bounds](#bounds) - [fairness](#fairness) - [proofs](#proofs)
- [disagreements](#where-the-code-and-its-documentation-disagree)
- [not modelled](#abstractions-and-what-is-not-modelled) - [plan](#plan)

## Inventory

The workspace has seven crates: `contracts` (types), `domain` (aggregates),
`application` (services and ports), `infra` (in-memory adapters), and `api`,
`worker`, `jobs` (thin shells). All state is kept in one `SharedMemoryStore`
behind one mutex. A service method is a sequence of awaits: open a unit of work,
load, work on a copy, perhaps call the backend, stage rows, commit. The mutex is
held only inside each store call, so the calls of two services interleave.

| component | state | operations | what makes it correct |
|---|---|---|---|
| Delivery aggregate, `domain/delivery.rs` | status, attempts, history, version | start, finish, deliver, fail, reschedule, complete, dead-letter | status, history and attempts tell the same story |
| Delivery progression, `services/delivery.rs` | - | pick a scheduled delivery, dispatch it, commit | every dispatch is journalled; scheduled deliveries are attempted |
| Feedback recording, `services/feedback.rs` | feedback rows, idempotency anchors | acknowledgement, rejection, backend signals, timeouts | a repeated request gets its first answer; a completion has its acknowledgement |
| Recovery, `services/recovery.rs`, `domain/recovery.rs` | retry plans, active-plan index, dead letters | request a retry, run a plan, close a spent one, dead-letter | attempts are paid for from a budget; one active plan; closed stays closed |
| Publication acceptance, `services/publication.rs` | publications, material, anchors | accept a command, accept an outbox fact | a publication is decided once; each request gets its own decision |
| Outbox relay, `services/outbox.rs` | cursor handed from job to job | page, accept each, acknowledge | nothing is acknowledged unanswered, nothing is skipped |
| Outbox source, `infra/source.rs` | facts in order, acknowledgements | commit, poll, acknowledge | - (environment of the relay) |
| Store and unit of work, `infra/store.rs`, `uow.rs` | everything above, staged rows | stage (compares), commit (writes) | optimistic concurrency |
| Replay preparation, `services/recovery.rs` | preparations, ready index | prepare | a replay rests on an audited failure; it is prepared once, for one approval |
| Audit trail, `repositories.rs`, `services/read_output.rs` | append-only entries | append, load a chain, page | pages neither repeat nor skip; a reader gets to the end |
| Outbound publisher, `services/outbox_publisher.rs`, `infra/outbox/` | published events, receipts, evidence | publish, publish a batch | an event is published once; a confirmed batch is published, in order |
| Job scans, `store.rs`, `services/*`, `jobs` | scan cursors, running batches | scan, work off the items, count them, return a cursor | no delivery and no plan starves; what a batch reports is true |
| Worker and API adapters, `worker`, `api` | - | take a signal or a command, map the error | a message is answered in the end, also when a commit fails |
| Read output, `services/read_output.rs`, `domain/read_output.rs`, `api/query.rs` | transport-view and failure-summary projections | query a status, a history page, a transport view, a failure summary; derive a projection, mark it stale | what two lookups say goes together; nothing is disclosed untraced |
| Backend policy, identifiers, clock, logging | - | - | (stateless) |

The behaviours that are hard: two services that load the same record and stage
from it (the version is compared at staging, not at commit); an idempotency
lookup before the transaction that binds the key; a backend that accepts a
dispatch whose commit then fails; a timeout racing a signal; feedback for an
attempt that a retry superseded; a retry changing two records; a batch of facts
in which some fail, whose cursor must not move; an acknowledgement that fails
after its fact was committed; a batch of events that fails half-way and is
repeated; paging through a trail that grows with every page; a batch of items
scanned earlier than they are worked off, with others at the same deliveries; a
cursor that has passed work which arrives later; a view put together from two
lookups with commits in between. `PROJECT.json` lists each at its line, with the
properties that watch it or the reason that none does.

## Modules and how they correspond to the code

| module | what it is |
|---|---|
| `Delivery` | the aggregate as pure operators on a record: `Move`, `StartAttempt`, `Finish`, `Deliver`, ... and their guards `CanStart`, `CanFinish`, ... |
| `DeliveryServices` | progression, feedback and recovery over the shared store; EXTENDS `Delivery` |
| `DeliveryLedger` | a property that adds up several records; EXTENDS `DeliveryServices` |
| `DeliveryJournal` | abstract: each delivery has an append-only journal of lawful changes |
| `MCDeliveryServices` | instances for TLC |
| `FoldProofs` | induction over numbers and finite sets, and what folds and sums compute |
| `DeliveryServicesProofs` | lemmas about the aggregate's operators; inductive invariant of the services, any number of workers |
| `DeliverySerialProofs` | what one worker adds: versions, plans, the journal, the cost and count of attempts |
| `DeliveryRuntime` | the services driven by job batches and by mail; EXTENDS `DeliveryServices` |
| `MCDeliveryRuntime`, `DeliveryRuntimeProofs` | instances for TLC; invariants |
| `ReadOutput` | the queries and projections beside the services; EXTENDS `DeliveryServices` |
| `MCReadOutput`, `ReadOutputProofs` | instance for TLC; invariants |
| `PublicationRelay` | acceptance, relay job and outbox source |
| `PublicationLedger` | abstract: a publication is decided at most once, a fact is settled after a decision |
| `MCPublicationRelay` | instances for TLC |
| `PublicationRelayProofs` | its invariants and the refinement of the ledger |
| `OutboxPublisher` | batches of outbound events, receipts, evidence |
| `EventLog` | abstract: a key enters the log once; a batch is confirmed when all its keys are in |
| `MCOutboxPublisher`, `OutboxPublisherProofs` | instance for TLC; invariants and refinement |
| `ReplayPreparation` | replay preparation, the audit trail, and its readers |
| `ReplayLedger` | abstract: a replay is prepared once, from an audited and open dead letter |
| `MCReplayPreparation`, `ReplayPreparationProofs` | instance for TLC; invariants and refinement |

**Delivery services.** A worker is a thread that runs one use case at a time:
`received` (it has the request), `loaded` (it changed its copy and waits for the
backend), `ready` (the copy waits to be staged), `staged`. The `Take...` actions
are the lookups before the unit of work: the scans of the jobs, and the anchor
lookup of feedback. `Progress`, `Retry`, `Exhaust`, `Ack`, `Reject`,
`SignalDelivered`, `SignalFailed`, `TimeOut`, `RequestRetry` and `DeadLetter` load
the delivery and do the handler's work on the copy; `Refuse` is every error
return with its rollback, those for a clock that ran back included. `Dispatched`
and `DispatchFailed` are the backend's answer; `DropsAnswer` is an answer the
handler throws away, rolling back: the call succeeded with an outcome that does
not deliver (`AttemptOutcomeDoesNotDeliver`), or a progression's clock ran back
while it waited (`services/delivery.rs:171-183`; a retry takes both times from
its scan, so it can only meet the first). `Stage` compares versions and unique keys with what is committed,
`Commit...` writes what was staged and compares nothing, as
`SharedMemoryStore::commit_transaction` does. `accepted` counts the dispatches
the backend took: it is outside the program and never rolled back.

**Delivery runtime.** `DeliveryRuntime` composes the services with the shells
that call them: every step of a service is taken by a worker that runs a batch or
serves a message, together with what the step means for it. `StartBatch` is the
scan of `progress_batch` or `run_retry_cycle` (`Schedulable`, `DueRetries`, the
first `BatchSize` of them in the order of the store's maps), `FindNothing` a scan
with no result, `StartItem` hands the next item to the service with what the scan
saw of it, `EndBatch` returns the cursor, which is the place of the last item
found whatever became of it. `Finishes`, `Declines`, `Discards` and `GivesUp` are
the outcomes of an item, counted as the code counts them: an answer thrown away
(`Discards`) is a conflict, so a progression counts it as skipped, although its
delivery waits as before. `IsBeyond` is the
wrap-around of the progression scan; the retry scan has none. `TakeMail` is a
consumer or the feedback API; its sender repeats it when the error is retryable,
which in these services is a commit that failed (`GivesUp`), and drops it when it is
not (`Declines`, `TurnAway`). Deliveries arrive from outside (`Arrive`), and what the
scheduler does with a cursor is a constant, `Restarts`.

**Read output.** A reader is a caller of the query API. `Ask...` is the first
lookup of a query, `Answer...` the second with the answer; the services' steps come
in between. `then` is what the first lookup found, `view` the answer. The last
feedback of a status view is the one with the latest time, here any of those
found. `ListHistory` is one lookup and one page; its token is an offset.
A failure summary takes three steps: the lookups (`AskSummary`), the access entry
appended to the trail (`TraceSummary`), and the answer (`AnswerSummary`).
`WithholdSummary` is an append that fails, `RefuseSummary` a caller that is not
trusted. `accesses` counts the entries of each reader in the trail and `answers`
the requests it was answered, so that each answer needs an entry of its own. No code under `src/` refreshes
projections; `Derive`, `MarkStale` and `CommitProjection` use the domain's
functions and the store's staging the way a refresher must, one at a time.

**Publication relay.** A worker runs relay jobs and commands. `Poll` takes the
page after its cursor, `Pick` the next fact, the acceptance actions answer it
(`Duplicate`, `Conflict`, `Unusable`, or `Fresh`, `Stage`/`Collide`, `Commit`),
`Ack` acknowledges it whether it was accepted or rejected, `Failed` leaves it to
a replay, `Finish` returns the cursor of the page or the one the job was given.
`Submit` sends a command through the same acceptance. `CommitUpstream` is the
upstream system.

**Outbound publisher.** A worker is a task in `publish_batch_committed`; a single
`publish_committed` is a batch of one. `Start` validates the whole batch, then
each `Reuse`, `Publish` or `Fail` is one `publish` under the adapter's lock, and
`Confirm` returns the receipts. `Fail` ends the call and loses the receipts it
collected (`?` in `publish_batch`), while `sink` keeps what was published. After
a retryable failure the caller may call again with the same batch (`Repeat`, not
in the sources). The key of a receipt is event identifier, record reference and
schema version: `KeyOf` maps different events to one key on purpose.

**Replay preparation and the audit trail.** A worker runs `prepare`: `Receive`,
then `RejectAccess` (which appends an entry of its own), `Refuse` or `Prepare`,
then `Stage` or `Collide`, then `Commit`, which files the preparation, its index
row and its audit entry in one step, or `CommitFails`. A dead letter's chain is
the entry of the failure it was made from, so `chain` is the name of a dead
letter. Where failure material and its entry come from is outside the sources
(tests seed it): `AuditFailure` and `MoveToDeadLetter` come in any order. A
reader calls `get_bus_audit_trail` over and over: `List` computes a page, `Grant`
appends the access entry and gives the page out, `GrantFails` withholds it. A
filter is the set of entries it matches.

**What is composed and what is not.** Jobs, mail and queries are composed with the
delivery services. The other components are separate on purpose: no code under `src/` makes a delivery out of
an accepted publication or an outbound event out of a committed record (tests
seed both), so the components share the store's mechanism but no record.
Replays read the dead letters of `DeliveryServices` and change nothing in them;
`ReplayPreparation` has its own two actions that create them, whatever delivery
they come from. `Delivery` is shared by the services and the abstract journal.

Definitions marked *Slip* in the comments are plausible bugs. They are used by no
specification: each property is tried against one of them in place of the
definition it follows, and has to be violated then.

## Runs

| run | specification | question |
|---|---|---|
| `Concurrent` | 2 workers, every use case, one delivery | what holds of status, history, attempts, completion and dead letters although commits overwrite each other |
| `Serial` | 1 worker, every use case, 2 keys, 2 plans, budgets 1 and 2, a failing commit | do the promises of the ports hold when requests run one after the other; do the services implement `DeliveryJournal` |
| `Jobs` | `FairSpec`, a runner and a clerk, 2 deliveries that arrive at any time, their plans in the opposite order, batches of 2, a timeout as mail, a failing commit or an answer thrown away, cursors that start over | is what a batch reports true, is every scheduled delivery attempted, every spent plan closed, every message answered |
| `Starved` | the same with cursors passed on | is every scheduled delivery attempted: violated, see below |
| `ReadOutput` | 1 worker with progression, acknowledgement and retry, a failing commit or an answer thrown away, 1 reader of one kind of query, pages of 2, a projection refreshed twice, 3 requests for a summary | do the parts of a view go together, do pages follow the history, is each answered summary traced first |
| `LostUpdate`, `Rebound` | 2 workers | the same promises with two workers: violated, see below |
| `RelayConcurrent` | 2 workers, 3 facts, each its own publication, two facts with one key, a failure | is nothing acknowledged unanswered, skipped or answered with another's decision |
| `RelaySerial` | `FairSpec`, 1 worker, 4 facts and a command that share publications and keys, one malformed, two rejected, 2 failures | is a publication decided once, are reports true, is every fact acknowledged in the end; does the relay implement `PublicationLedger` |
| `RelayRejections` | 1 worker, two facts of one source record | what the relay reports as rejected: violated, see below |
| `Publisher` | `FairSpec`, 2 workers, batches that overlap in opposite orders, two events of one key, one invalid event, 2 failures | is each key published once, is a confirmed batch published in order, is a failed one confirmed in the end; does it implement `EventLog` |
| `Replay` | `FairSpec`, 1 worker, 1 reader with or without a filter, 2 dead letters whose replays share an identifier, 5 commands, 1 refusal, 1 failure | are the approvals of prepared replays spent once, do pages follow the trail to its end; does it implement `ReplayLedger` |

What they show. With any interleaving the history of a delivery explains its
status, its attempts are settled, a completed one was acknowledged for its last
attempt and a dead-lettered one has its entry; batches that work off old scans
change nothing of this. The damage of a lost update is
the loss of a whole consistent record, never a mixture. Versioned writes, closed
terminal states, lasting answers, one active plan, paid-for attempts and the
journal hold when use cases run one after the other, and only then. Jobs whose
scheduler starts over when a scan found nothing starve no delivery and leave no
spent plan open, though they race with requests and commits fail; jobs that pass
the returned cursor on do starve. A view of a completed delivery has the feedback
that completed it, because a delivery is looked up before its feedback, and a
transport view is never older than its projection, because that is looked up
first; both slips of the order are caught. A batch that reports a delivery as
dispatched speaks the truth, while one it reports as skipped may still wait: an
answer thrown away looks like a conflict, and `ReportedHasLeft` shows that nothing
but such answers and failing commits leaves an item waiting that a batch has
done. The relay
loses and skips nothing with any number of workers; that an answer stays the
right one needs a single worker or publications no two requests share. The
publisher keeps its promises with any number of tasks: a failed batch may leave
a part of itself published, and repeating it completes it without publishing
anything twice. Replays rest on audited failures whoever prepares them; that one
is prepared once needs a single worker, for staging compares and committing
overwrites here too. A second approval for a dead letter, or a dead letter whose
sanitized identifier collides, is refused with the conflict of the first.

## Bounds

One delivery is enough for the delivery properties: each relates the records of
one delivery (idempotency keys of events are global, but a key bound through
another delivery has the same effect as one bound through another attempt or
use). Two workers give every pair race; what three could do more is covered by
the proofs, which have no bound. `MaxAttempts` 2 allows a superseded attempt,
3 a plan with budget 2 used up; it only bounds new attempts, not feedback.
`MaxOutages` bounds failing commits and answers thrown away together: 1 is
either of them at every possible point. In the concurrent runs it is 0: both
release the worker and write nothing, like a refusal, and no property of those
runs speaks of what the backend accepted.
`Serial` shows the promises of one worker and nothing of two: `OneActivePlan`,
`AnchorsAnswerTruly`, `WritesAreVersioned` and
`AnswersAreForever` are what the ports state, checked where requests are late,
repeated and competing but never mixed; the races that break them are `LostUpdate`
and `Rebound`. In the same way `RelaySerial`'s ledger and `Replay`'s index are
those of one worker: two that stage for one publication, or one approval, both commit.
Jobs: two deliveries are the smallest that put one before and one after a cursor;
a batch of two holds both, with the items of the second scanned earlier than
they are worked off. Plans numbered against their deliveries keep the two scans from
moving together. Read output: pages of two make every history of an acknowledged
or retried delivery take several pages; a projection refreshed twice can be stale,
renewed, and replaced between the lookups of one query. No property relates two
kinds of query, so the reader makes queries of one kind, each kind in turn
(`OneEach`); three requests for a summary can be answered, withheld and refused.
Facts: three facts, a batch size of two, give pages that fill, stay short, and
repeat; four facts and a command cover sharing, competing keys, rejection and
malformed material at once.
Publisher: two batches of two that share a key and end with each other's first
event are the smallest that can reorder or duplicate events; two failures
let a repetition fail too. Replay: identifiers that collide give the sharpest
contest for one preparation; one refusal and one failing append at every
possible point; pages of four make a reader without a filter ask two or three times.
`PageSize` must exceed what others append per page: with pages of one, a reader
without a filter never reaches the end, because its own access entries are part
of the trail. Symmetry is declared on keys, references, plans and
workers, only in runs that check no liveness.

## Fairness

Delivery (`DeliveryRuntime!FairSpec`): a worker gets on with what it began (`WF`
of `GetsOn`: threads are scheduled; `GivesUp`, a failing commit, is not part of
it), jobs of either kind are started again and again although their workers are
busy in between (`SF` of `RunJob`), and a message is delivered until it is answered
(`SF` of `Answer`, which is what a retryable error asks of its sender). Which
cursor a job is started with is not fairness but the scheduler's choice:
`Restarts` names it, and `Starved` shows that it is needed. That a scan reaches
each delivery is not assumed: it follows from cursors and limits. Nothing is
assumed of subscribers or operators, and nothing has to arrive. The failing
commits and the answers thrown away (`GivesUp`, `Discards`) are finitely many,
`MaxOutages` of them together. That is an assumption about backends: one that accepts
or fails each call is always good enough, but `TransportBackendPort::dispatch` also
lets it answer `Ok` with an outcome that does not deliver. A backend that does so
for ever has its delivery rolled back, counted as skipped and left scheduled at
every batch, and `ScheduledIsAttempted` would not hold; nor would it if commits
failed for ever. The in-memory adapter never answers so
(`infra/src/repositories.rs:612-640`). A rollback is taken to succeed, as the
in-memory unit of work lets it.

Relay (`PublicationRelay!FairSpec`): a worker finishes what it took up (`WF`), and
relay jobs are triggered again and again although commands come in between (`SF`
of `Poll`). Neither upstream nor clients are fair.

Publisher: a task gets on with its batch, and its caller repeats a batch that
failed retryably (`WF` of `Proceed`), which is what a retryable error invites; a
rejected batch is not repeated, and failures are bounded. Replay: a reader
follows its page tokens (`WF` of `Read`); no worker has to do anything, and every
entry others append is bounded by the dead letters and `MaxRejected`.

## Proofs

All results hold for every set of workers, deliveries, keys, plans, facts and
every budget, batch size and bound, from the named assumptions of the modules.

*Delivery, any number of workers* (`DeliveryServicesProofs`): `TypeCorrect`,
`HistoryIsTrue`, `AttemptsStaySettled`, `CompletedNeedsAck`,
`DeadLetteredNeedsEntry`. These properties say nothing of the workers' copies,
yet a commit puts a copy in the store, so none is inductive. `IInv` adds:
the copies are lawful and settled in the same sense (`CopiesAreLawful`), a copy
that waits for the backend has its attempt open (`DispatchesAreOpen`), and a copy
that says completed or dead-lettered was made by the request that brings the
matching row along, or loaded from a record that had it (`CopiesHaveCause`).
Rows and entries are never removed, so overwriting a record by an older one
keeps the invariant. The module starts with what each operation of the aggregate
does to a lawful record; `CopyOf` is the copy each handler makes (`CopyIsMade`), so
an invariant of the copies is shown once for all ten handlers (`HandlerWorks`).
`DispatchesStayJournalled` counts: `JInv` says that stored records and copies alike
have as many dispatching entries as attempts, and `Grows` that the status changes
of the aggregate add to both or to neither.

*Delivery, one worker* (`DeliverySerialProofs`): under `OneWorker`,
`SerialWritesAreVersioned`, `SerialTerminalStaysClosed`,
`SerialAnswersAreForever`, `SerialAnchorsAnswerTruly`, `SerialOneActivePlan` and the
refinement `SerialJournal`. `SInv` adds to `IInv`
that the copy in hand extends the stored record by one version
(`CopiesAreFresh`) and that what is staged is still new (`StagedIsNew`): nothing
can have been committed since. For the plans `PInv` adds that the plan a
retry works on is the stored one and that a staged request found no active plan
(`PlansInHand`).

`SerialNoNeedlessDispatch` and `SerialAttemptsArePaidFor` balance several records.
`AInv` says how much the copy in hand has more than the stored delivery: one
attempt if its request starts one, none otherwise, and all recorded ends as
they were (`CopyGrows`); a delivery still scheduled was never attempted and has no
plan (`UnstartedAreNew`); a plan that does not exist has an empty budget. From it,
`DispatchesAreAccounted`, a stronger bound than `NoNeedlessDispatch`, is inductive:
a dispatch that was accepted is in hand until it is recorded or its commit fails,
and it is never refused at staging (`AcceptedCanStage`). For the budgets, a commit
changes at most one plan, which pays for as many attempts more as the delivery gets
(`PlansPay`, `CommitPays`); what that does to the sum is `SumChanges`.

The runs `LostUpdate` and `Rebound` show that the assumption
cannot be dropped.

*Folds* (`FoldProofs`). The folds of the community modules recurse over the subsets
of a set. The library's induction theorems take a predicate as a parameter, which
the provers cannot instantiate; `NatInduct` and `SubsetInduct` take the set of the
things the predicate holds of, and follow from well-foundedness of the naturals
(`NatLessThanWellFounded`, `WFMin`). `FoldExists` shows that such a recursion defines
a function; with it come sums of integers (`SumIsInteger`, `SumChanges`) and, in
`ReplayPreparationProofs`, the recursion that filters the trail.

*Runtime* (`DeliveryRuntimeProofs`), any number of workers, deliveries, messages
and batch sizes: `RuntimeTypes`; `BatchesKeepDeliveries`, which carries the four
properties above over to batches of old scans, because `IInv` asks nothing of when
a request was taken; and `ReportsAreTrue`, that a delivery a running batch counted as
dispatched is not waiting any more, and that no more of the items it has done are
waiting than there were outages. Its invariant says that a
scheduled delivery has never been saved, and that no copy in hand puts one back
into the queue (`QInv`), so that the queue only shrinks, apart from arrivals; a
refused item has therefore left it (`RefusedHasLeft`), and only an outage adds one
that has not.

*Read output* (`ReadOutputProofs`), any number of readers and refreshes:
`DisclosuresAreTraced` for any number of workers, a balance of the trail against
the answers that is off by the answer on its way; with one worker
`CompletedViewsHaveAck`, `TransportViewsAreNotBehind` and
`PagesFollowTheHistory`. Each invariant says what a reader's first lookup still
means at its second: found completed, the acknowledgement is among the rows and
rows stay; a projection's source is a committed version and versions only rise; the
entries given so far are a beginning of a history that only grows.

*Relay* (`PublicationRelayProofs`): `RelayTypeCorrect`, `AcknowledgedIsAnswered`,
`NothingIsPassed` for any number of workers, from `RInv`: an item waiting for its
acknowledgement is answered (`AckingIsAnswered`), records are filed under the
names of their requests (`TruthIsNamed`), and while a job is running every
position before the end of its page is acknowledged, still to be done, or in
hand, unless the page is to be replayed (`PagesAreAccounted`).
`AnswersAlwaysStand`, `AcceptedStaysTrue` and `RelayKeepsLedger` need one worker, or
publications that no two requests share: then what is staged still fits what is
committed (`StagedFits`), and an acceptance a job is about to report is there
(`AckingIsTrue`). `OneWorkerDecidesOnce` needs one worker: two that replay one
fact both commit it. Its invariant ties versions to decisions and has nothing
decided that is still staged (`DInv`).

*Publisher* (`OutboxPublisherProofs`), any number of tasks, events and keys:
`PublisherTypes`, `PublishedStaysFinal`, `ConfirmedStaysPublished`,
`BatchOrderStaysKept`, `InvalidBatchStaysHarmless` and the refinement
`PublisherKeepsLog`. A confirmed batch
speaks of the sink, so `PInv` must say what the answers collected so far stand
for: each answer is in the sink under its key (`AnswersArePublished`), the events
a call published itself stand there in order (`AnswersAreInOrder`), receipts and
sink agree (`ReceiptsMatchSink`), evidence of a publication has its receipt
(`EvidenceHasReceipt`), and a call in progress has a valid batch
(`CallsAreSound`).

*Replay* (`ReplayPreparationProofs`): `PreparedStaysTrusted` for any number of
workers and readers, from `RInv`: what a worker has checked still passes the
checks when it commits (`WorkIsTrusted`), because nothing leaves the trail or
closes a dead letter (`TrustLasts`). `IndexStaysTrue` and the refinement
`ReplaysKeepLedger` need one worker (`StagedIsNew`). `PagesAlwaysFollowTrail`
holds for any number of readers and workers, any filters and any page size: what a
reader wants of the trail is a recursive function of its length, which exists
because it is a fold over the indices (`MatchesInOrder`), and gains at most one
entry at its end when the trail does (`MatchesGrow`). Its invariant `FInv` says
that the token is the number of entries seen, that these lead what is wanted, and
that a page listed but not yet given still follows them, although the trail has
gone on meanwhile. `ReplayTypeCorrect` adds the bounds of the counters.

Only model-checked: liveness under fairness (`ScheduledIsAttempted`,
`SpentPlanIsClosed`, `MailIsAnswered`, `FactsAreAcked`, `FailedBatchIsConfirmed`,
`TrailIsRead`), which is beyond the prover. Every other property of a passing run
is stated by a theorem. `TerminalStaysClosed` and `PreparedIsTrusted` are proved
and have no run: what they say of histories and of audited dead letters is part of
`JournalSpec` and `ReplayLedgerSpec`. The serial theorems assume one worker for the whole system,
though what they need is that no two workers have one delivery or one
idempotency key in hand at the same time; that is not proved.

## Where the code and its documentation disagree

- `LostUpdate`: `ports/delivery.rs:24` promises optimistic concurrency and `:17`
  a lock. `get_for_update` takes none, and the version is compared when a save is
  staged, not when it is committed (`store.rs:122`): of two workers that staged
  from one version, the second overwrites the first. By the same gap a retry
  staged on a failed delivery overwrites its dead-lettering, though
  `domain/delivery.rs:433` calls that state one that must not be reopened.
- `Rebound`: two requests with one idempotency key and different digests are both
  recorded when both look the key up before either commits (`store.rs:227`);
  `application/tests/feedback.rs:328` expects a conflict.
- `RelayRejections`: a fact whose publication exists already is answered with a
  conflict, and `is_rejected_item` takes any conflict for a rejection: it is
  acknowledged and counted in a number that `contracts/jobs.rs:33` calls "facts
  that were committed as rejected", though nothing was committed for it and the
  publication may stand as accepted.

- `Starved`: `contracts/jobs.rs:105` calls the returned cursor the one "to use for
  a following batch". The progression scan starts over only when no delivery of
  any status stands after the cursor (`store.rs:899`), and a batch that finds
  nothing returns the cursor it was given. A finished delivery after the cursor is
  enough for jobs that follow the comment to find nothing, for ever, while a
  scheduled delivery waits before the cursor. The same holds of retry plans, whose
  scan never starts over (`store.rs:427`).

A fifth has no run of its own. `contracts/jobs.rs:103` calls the skipped items
those whose "current truth no longer matched" the job, and `:132` counts as failed
what "committed `DeliveryStatus::Failed`". An answer of the backend that does not
deliver is counted as skipped although the delivery still matches, and an item whose
commit failed as failed although nothing was committed. `Discards` and `GivesUp`
count as the code does, and `ReportedHasLeft` promises nothing of the two counts
alone.

`LostUpdate` and `Rebound` need two threads in the services. A deployment that runs one use
case at a time is not affected, which the serial runs and proofs establish.

## Abstractions and what is not modelled

- A digest is the request itself: collisions of the FNV digest are left out.
- A backend accepts a dispatch, fails it, or gives an answer that is thrown away;
  why it failed only changes a reason that is stored.
- Failure material is taken to be present for `request_retry` and
  `move_to_dead_letter`, and the recovery policy to agree with the aggregate.
- Times are left out: a scheduled plan may be due whenever a cycle looks, and a
  clock that ran back is a choice of `Refuse` or `DropsAnswer`.
- In the runs of `DeliveryServices` a job's batch is a sequence of single items,
  each with a scan of its own; `DeliveryRuntime` has whole batches.
- Operators' requests are not repeated after a failed commit: `request_retry` and
  `move_to_dead_letter` have no shell in the sources that would tell them to.
- The publication acceptance view and the backend health view return one row each,
  written once or from outside; the versions of failure summaries are returned by
  no query. The consumer of single outbox facts in `worker` is `accept_from_outbox_fact`
  without the job around it.
- One projection is refreshed at a time. Two refreshers that stage from one version
  would both be given the same next version; the sources have none.
- A commit that fails writes nothing, which is what the in-memory unit of work
  does; its port also knows an uncertain outcome that no code here produces.
- A handler that fails to draw an audit identifier returns without a rollback;
  its staged rows stay in the transaction table, unread, as after a failed commit.
- In `DeliveryServices` and `PublicationRelay` audit entries, conflict logs,
  receipts and error wording are left out; nothing there reads them. Two properties speak of the history of a
  delivery, which is modelled entry by entry.
- A page limit of zero is a job that does nothing, and a failed poll ends a job
  before it did anything: both are left out.
- `RetryPlan::cancel`, `DeadLetterEntry::start_review` and `close`, and
  `ReplayPreparation::reject`, are called by no service: a closed dead letter,
  which `prepare` refuses, never exists.
- An empty reason, chain or approval is refused before anything is read; such
  commands are left out. So is a page limit of zero, which no code refuses and
  for which page tokens never advance.
- The publisher's tap output and the wording of receipts are left out.
- Not to be modelled: contracts and fixtures (data), error codes and messages,
  backend capability policy (stateless), identifiers, clock, logging.

## Plan

1. *Done*: `Delivery`, `DeliveryServices`, `DeliveryJournal`, `DeliveryLedger`,
   `DeliveryRuntime`, `ReadOutput` and their proofs; `PublicationRelay`,
   `PublicationLedger` and their proofs; `OutboxPublisher`, `EventLog` and their
   proofs; `ReplayPreparation`, `ReplayLedger` and their proofs; `FoldProofs`.
2. Replay preparation composed with `DeliveryServices`: dead letters that a lost
   update takes back while a replay is being prepared from them.
3. The serial theorems for workers whose deliveries and keys are apart, instead of
   a single worker.
4. Single outbox facts consumed beside the relay job.
