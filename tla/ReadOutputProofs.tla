-------------------------- MODULE ReadOutputProofs --------------------------
(***************************************************************************)
(* Proofs about the read-only queries: what a view made of two lookups     *)
(* still says of the store when one worker writes between the lookups, for *)
(* any number of readers, and that every summary answered was traced first. *)
(***************************************************************************)
EXTENDS ReadOutput, DeliverySerialProofs, SequenceTheorems

\* The readers' variables are functions on the readers.
ReadersAreKnown ==
  /\ target \in [Readers -> Deliveries]
  /\ accesses \in [Readers -> [granted: Nat, rejected: Nat]]
  /\ answers \in [Readers -> Nat]
  /\ rpc = [r \in Readers |-> rpc[r]]
  /\ then = [r \in Readers |-> then[r]]
  /\ view = [r \in Readers |-> view[r]]
  /\ token = [r \in Readers |-> token[r]]
  /\ seen = [r \in Readers |-> seen[r]]

\* What a query changes belongs to the reader that makes it: its place, what it
\* found and was answered, its pages and its traces.
LEMMA ReadersStayKnown ==
  ASSUME ReadersAreKnown, [OutputNext]_outputVars
  PROVE  ReadersAreKnown'
<1>1. ASSUME NEW r \in Readers,
             \/ AskStatus(r) \/ AskTransport(r) \/ AskSummary(r) \/ ListHistory(r)
             \/ AnswerStatus(r) \/ AnswerTransport(r) \/ WithholdSummary(r)
      PROVE  ReadersAreKnown'
  <2>1. CASE AskStatus(r) \/ AskTransport(r) \/ AskSummary(r) \/ ListHistory(r)
    BY <2>1 DEF ReadersAreKnown, AskStatus, AskTransport, AskSummary, Asks,
                ListHistory, traces, asking
  <2>2. CASE AnswerStatus(r) \/ AnswerTransport(r) \/ WithholdSummary(r)
    BY <2>2 DEF ReadersAreKnown, AnswerStatus, AnswerTransport,
                WithholdSummary, Answers, asking
  <2> QED
    BY <1>1, <2>1, <2>2
<1>2. ASSUME NEW r \in Readers, RefuseSummary(r) \/ TraceSummary(r)
      PROVE  ReadersAreKnown'
  <2>1. PICK a \in {[accesses[r] EXCEPT !.rejected = @ + 1],
                    [accesses[r] EXCEPT !.granted = @ + 1]} :
          accesses' = [accesses EXCEPT ![r] = a]
    BY <1>2 DEF RefuseSummary, TraceSummary
  <2>2. a \in [granted: Nat, rejected: Nat]
    BY DEF ReadersAreKnown
  <2> QED
    BY <1>2, <2>1, <2>2 DEF RefuseSummary, TraceSummary, asking, ReadersAreKnown
<1>3. ASSUME NEW r \in Readers, AnswerSummary(r)
      PROVE  ReadersAreKnown'
  <2>1. answers' = [answers EXCEPT ![r] = @ + 1]
    BY <1>3 DEF AnswerSummary
  <2>2. answers' \in [Readers -> Nat]
    BY <2>1 DEF ReadersAreKnown
  <2> QED
    BY <1>3, <2>2 DEF ReadersAreKnown, AnswerSummary, Answers, asking
<1>4. CASE Refreshes
  BY <1>4 DEF Refreshes, Derive, MarkStale, Summarize, CommitProjection,
              Drafts, reading, traces, asking, ReadersAreKnown
<1> QED
  BY <1>1, <1>2, <1>3, <1>4
     DEF OutputNext, Reads, outputVars, outputs, reading, traces, asking,
         ReadersAreKnown

-----------------------------------------------------------------------------
(***************************************************************************)
(* Disclosure, with any number of workers.                                 *)
(***************************************************************************)

\* The trail is ahead of the answers by the one on its way.
IsTraced(r) ==
  accesses[r].granted = answers[r] + (IF rpc[r] = "traced" THEN 1 ELSE 0)

\* A reader's own step is all that can disturb its account.
LEMMA TracedOfOne ==
  ASSUME DisclosureIsTraced, NEW r \in Readers,
         \A s \in Readers \ {r} :
           rpc'[s] = rpc[s] /\ accesses'[s] = accesses[s] /\ answers'[s] = answers[s],
         IsTraced(r)'
  PROVE  DisclosureIsTraced'
BY DEF DisclosureIsTraced, IsTraced

LEMMA DisclosureStep ==
  ASSUME ReadersAreKnown, DisclosureIsTraced, [OutputNext]_outputVars
  PROVE  DisclosureIsTraced'
<1>1. CASE UNCHANGED <<rpc, accesses, answers>>
  BY <1>1 DEF DisclosureIsTraced
<1>2. ASSUME NEW r \in Readers
      PROVE  /\ accesses[r] \in [granted: Nat, rejected: Nat]
             /\ answers[r] \in Nat /\ IsTraced(r)
  BY DEF ReadersAreKnown, DisclosureIsTraced, IsTraced
<1>3. ASSUME NEW r \in Readers,
             \/ AskStatus(r) \/ AskTransport(r) \/ AskSummary(r)
             \/ AnswerStatus(r) \/ AnswerTransport(r) \/ WithholdSummary(r)
      PROVE  DisclosureIsTraced'
  <2>1. PICK p \in {"idle", "status", "transport", "summary"} :
          /\ rpc' = [rpc EXCEPT ![r] = p]
          /\ rpc[r] # "traced"
          /\ accesses' = accesses /\ answers' = answers
    BY <1>3 DEF AskStatus, AskTransport, AskSummary, Asks, AnswerStatus,
                AnswerTransport, WithholdSummary, Answers, traces
  <2>2. rpc'[r] # "traced" /\ \A s \in Readers \ {r} : rpc'[s] = rpc[s]
    BY <2>1 DEF ReadersAreKnown
  <2> QED
    BY <1>2, <2>1, <2>2, TracedOfOne DEF IsTraced
<1>4. ASSUME NEW r \in Readers, RefuseSummary(r)
      PROVE  DisclosureIsTraced'
  <2>1. accesses' = [accesses EXCEPT ![r].rejected = @ + 1]
    BY <1>4 DEF RefuseSummary
  <2>2. /\ accesses'[r].granted = accesses[r].granted
        /\ \A s \in Readers \ {r} : accesses'[s] = accesses[s]
    BY <1>2, <2>1 DEF ReadersAreKnown
  <2> QED
    BY <1>2, <1>4, <2>2, TracedOfOne DEF RefuseSummary, IsTraced
<1>5. ASSUME NEW r \in Readers, TraceSummary(r)
      PROVE  DisclosureIsTraced'
  <2>1. /\ accesses' = [accesses EXCEPT ![r].granted = @ + 1]
        /\ rpc' = [rpc EXCEPT ![r] = "traced"]
        /\ rpc[r] = "summary" /\ answers' = answers
    BY <1>5 DEF TraceSummary
  <2>2. /\ accesses'[r].granted = accesses[r].granted + 1
        /\ rpc'[r] = "traced"
        /\ \A s \in Readers \ {r} : accesses'[s] = accesses[s] /\ rpc'[s] = rpc[s]
    BY <1>2, <2>1 DEF ReadersAreKnown
  <2> QED
    BY <1>2, <2>1, <2>2, TracedOfOne DEF IsTraced
<1>6. ASSUME NEW r \in Readers, AnswerSummary(r)
      PROVE  DisclosureIsTraced'
  <2>1. /\ answers' = [answers EXCEPT ![r] = @ + 1]
        /\ rpc' = [rpc EXCEPT ![r] = "idle"]
        /\ rpc[r] = "traced" /\ accesses' = accesses
    BY <1>6 DEF AnswerSummary, Answers
  <2>2. /\ answers'[r] = answers[r] + 1 /\ rpc'[r] = "idle"
        /\ \A s \in Readers \ {r} : answers'[s] = answers[s] /\ rpc'[s] = rpc[s]
    BY <1>2, <2>1 DEF ReadersAreKnown
  <2> QED
    BY <1>2, <2>1, <2>2, TracedOfOne DEF IsTraced
<1>7. ASSUME NEW r \in Readers, ListHistory(r)
      PROVE  DisclosureIsTraced'
  BY <1>1, <1>7 DEF ListHistory, traces
<1>8. CASE Refreshes
  BY <1>1, <1>8 DEF Refreshes, Derive, MarkStale, Summarize,
                    CommitProjection, Drafts, reading, traces
<1> QED
  BY <1>1, <1>3, <1>4, <1>5, <1>6, <1>7, <1>8
     DEF OutputNext, Reads, outputVars, outputs, reading, traces

LEMMA ReadersInvariance == OutputSpec => []ReadersAreKnown
<1>1. OutputInit => ReadersAreKnown
  BY DEF OutputInit, ReadersAreKnown
<1> QED
  BY <1>1, ReadersStayKnown, PTL DEF OutputSpec

\* Every trusted request for a summary that was answered has a granted access of
\* its own in the trail, put there before the answer, however often readers
\* ask, whatever the workers do and whichever appends fail.
THEOREM DisclosuresAreTraced == OutputSpec => []DisclosureIsTraced
<1>1. OutputInit => DisclosureIsTraced
  BY DEF OutputInit, DisclosureIsTraced
<1> QED
  BY <1>1, DisclosureStep, ReadersInvariance, PTL DEF OutputSpec

-----------------------------------------------------------------------------
(***************************************************************************)
(* The deliveries and their feedback, with one worker.                     *)
(***************************************************************************)

\* The queries write nothing that the services keep.
LEMMA ServicesStep ==
  [OutputNext]_outputVars => [Next]_vars
<1>1. ASSUME NEW r \in Readers, Reads(r)
      PROVE  UNCHANGED vars
  BY <1>1 DEF Reads, AskStatus, AskTransport, AskSummary, RefuseSummary,
              AnswerStatus, AnswerTransport, TraceSummary, AnswerSummary,
              WithholdSummary, ListHistory, Asks, Answers
<1>2. ASSUME Refreshes
      PROVE  UNCHANGED vars
  BY <1>2 DEF Refreshes, Derive, MarkStale, Summarize, CommitProjection, Drafts
<1> QED
  BY <1>1, <1>2 DEF OutputNext, outputVars

LEMMA ServicesInvariance ==
  ASSUME OneWorker
  PROVE  OutputSpec => []SInv
<1>1. Init => SInv
  BY InitIInv DEF Init, SInv, CopiesAreFresh, InHand, StagedIsNew
<1>2. SInv /\ [OutputNext]_outputVars => SInv'
  BY NextSInv, ServicesStep
<1> QED
  BY <1>1, <1>2, PTL DEF OutputSpec, OutputInit

\* The store only moves forward: versions do not fall, histories and feedback
\* are added to.
StoreGrows ==
  /\ \A d \in Deliveries :
       /\ delivery'[d].version >= delivery[d].version
       /\ IsPrefixOf(delivery[d].history, delivery'[d].history)
  /\ feedback \subseteq feedback'

LEMMA StoreStep ==
  ASSUME SInv, SInv', [Next]_vars
  PROVE  StoreGrows
<1>1. feedback \subseteq feedback'
  BY AnswersStep
<1> SUFFICES ASSUME NEW d \in Deliveries
             PROVE  /\ delivery'[d].version >= delivery[d].version
                    /\ IsPrefixOf(delivery[d].history, delivery'[d].history)
  BY <1>1 DEF StoreGrows
<1>2. delivery[d] \in DeliveryRecord /\ delivery'[d] \in DeliveryRecord
  BY DEF SInv, IInv, TypeOK
<1>3. CASE delivery'[d] = delivery[d]
  <2>1. delivery[d].version \in Nat /\ delivery[d].history \in Seq(Transition)
    BY <1>2 DEF DeliveryRecord
  <2> QED
    BY <1>3, <2>1 DEF IsPrefixOf
<1>4. CASE DeliverySaved(d)
  <2>1. delivery[d].version \in Nat
    BY <1>2 DEF DeliveryRecord
  <2> QED
    BY <1>4, <2>1 DEF DeliverySaved
<1>5. delivery'[d] = delivery[d] \/ DeliverySaved(d)
  BY DeliveryStep DEF DeliverySaved
<1> QED
  BY <1>3, <1>4, <1>5

-----------------------------------------------------------------------------
(***************************************************************************)
(* A status view that shows a completed delivery.                          *)
(***************************************************************************)

\* The acknowledgement of what the first lookup found is there for the
\* second one to find.
FoundIsAcked(r) ==
  rpc[r] = "status" /\ then[r].delivery.status = "Completed" =>
    \E f \in feedback :
      /\ f.id.delivery = target[r]
      /\ f.status = "ack"
      /\ f.attempt = LastAttempt(then[r].delivery)

StatusInv ==
  /\ ReadersAreKnown
  /\ CompletedViewHasAck
  /\ \A r \in Readers : FoundIsAcked(r)

\* A reader that is doing something else keeps what it has.
LEMMA StatusKept ==
  ASSUME StatusInv, ReadersAreKnown', feedback \subseteq feedback',
         NEW r \in Readers, rpc'[r] = rpc[r], then'[r] = then[r],
         view'[r] = view[r], target' = target
  PROVE  /\ FoundIsAcked(r)'
         /\ view'[r].kind = "status" /\ view'[r].status = "Completed" =>
              \E f \in view'[r].found :
                f.status = "ack" /\ f.attempt = view'[r].attempt
BY DEF StatusInv, CompletedViewHasAck, FoundIsAcked

\* What one reader does is all there is to look at.
LEMMA StatusOfOne ==
  ASSUME StatusInv, ReadersAreKnown', feedback \subseteq feedback',
         target' = target, NEW r \in Readers,
         \A s \in Readers \ {r} :
           rpc'[s] = rpc[s] /\ then'[s] = then[s] /\ view'[s] = view[s],
         FoundIsAcked(r)',
         view'[r].kind = "status" /\ view'[r].status = "Completed" =>
           \E f \in view'[r].found :
             f.status = "ack" /\ f.attempt = view'[r].attempt
  PROVE  StatusInv'
<1>1. ASSUME NEW s \in Readers
      PROVE  /\ FoundIsAcked(s)'
             /\ view'[s].kind = "status" /\ view'[s].status = "Completed" =>
                  \E f \in view'[s].found :
                    f.status = "ack" /\ f.attempt = view'[s].attempt
  <2>1. CASE s = r
    BY <2>1
  <2>2. CASE s # r
    BY <2>2, StatusKept
  <2> QED
    BY <2>1, <2>2
<1> QED
  BY <1>1 DEF StatusInv, CompletedViewHasAck

LEMMA StatusStep ==
  ASSUME SInv, SInv', StatusInv, [OutputNext]_outputVars
  PROVE  StatusInv'
<1>1. ReadersAreKnown /\ ReadersAreKnown'
  BY ReadersStayKnown DEF StatusInv
<1>2. feedback \subseteq feedback'
  BY ServicesStep, StoreStep DEF StoreGrows
<1>3. CASE UNCHANGED reading
  <2>1. \A r \in Readers :
          rpc'[r] = rpc[r] /\ then'[r] = then[r] /\ view'[r] = view[r]
    BY <1>3 DEF reading
  <2>2. target' = target
    BY <1>3 DEF reading, asking
  <2> QED
    BY <1>1, <1>2, <2>1, <2>2, StatusKept DEF StatusInv, CompletedViewHasAck
<1>4. ASSUME NEW r \in Readers,
             AskStatus(r) \/ AskTransport(r) \/ AskSummary(r)
      PROVE  StatusInv'
  <2>1. /\ target' = target /\ view'[r] = NoView
        /\ then'[r] = Rows(target[r])
        /\ \A s \in Readers \ {r} :
             rpc'[s] = rpc[s] /\ then'[s] = then[s] /\ view'[s] = view[s]
    BY <1>1, <1>4 DEF AskStatus, AskTransport, AskSummary, Asks, asking,
                      ReadersAreKnown
  <2>2. target[r] \in Deliveries
    BY <1>1 DEF ReadersAreKnown
  <2>3. delivery[target[r]].status = "Completed" => IsAcked(target[r])
    BY <2>2 DEF SInv, IInv, CompletedIsAcked
  <2>4. FoundIsAcked(r)'
    BY <1>2, <2>1, <2>3 DEF FoundIsAcked, IsAcked, Rows
  <2> QED
    BY <1>1, <1>2, <2>1, <2>4, StatusOfOne DEF NoView
<1>5. ASSUME NEW r \in Readers, RefuseSummary(r) \/ ListHistory(r)
      PROVE  StatusInv'
  <2>1. target' = target /\ rpc' = rpc /\ then' = then /\ view' = view
    BY <1>5 DEF RefuseSummary, ListHistory, asking
  <2> QED
    BY <1>1, <1>2, <2>1, StatusKept DEF StatusInv, CompletedViewHasAck
<1>6. ASSUME NEW r \in Readers, AnswerStatus(r)
      PROVE  StatusInv'
  <2>1. PICK last : Answers(r, StatusView(then[r], Rows(target[r]), last))
    BY <1>6 DEF AnswerStatus
  <2>2. /\ target' = target /\ rpc'[r] = "idle" /\ rpc[r] = "status"
        /\ view'[r] = StatusView(then[r], Rows(target[r]), last)
        /\ \A s \in Readers \ {r} :
             rpc'[s] = rpc[s] /\ then'[s] = then[s] /\ view'[s] = view[s]
    BY <1>1, <1>6, <2>1 DEF AnswerStatus, Answers, asking, ReadersAreKnown
  <2>3. FoundIsAcked(r)'
    BY <2>2 DEF FoundIsAcked
  <2>4. /\ view'[r].status = then[r].delivery.status
        /\ view'[r].attempt = LastAttempt(then[r].delivery)
        /\ view'[r].found = {f \in feedback : f.id.delivery = target[r]}
    BY <2>2 DEF StatusView, Rows
  <2>5. FoundIsAcked(r)
    BY DEF StatusInv
  <2>6. view'[r].status = "Completed" =>
          \E f \in view'[r].found :
            f.status = "ack" /\ f.attempt = view'[r].attempt
    BY <2>2, <2>4, <2>5 DEF FoundIsAcked
  <2> QED
    BY <1>1, <1>2, <2>2, <2>3, <2>6, StatusOfOne
<1>7. ASSUME NEW r \in Readers,
             AnswerTransport(r) \/ AnswerSummary(r) \/ WithholdSummary(r)
      PROVE  StatusInv'
  <2>1. PICK a : Answers(r, a) /\ a.kind # "status"
    BY <1>7 DEF AnswerTransport, AnswerSummary, WithholdSummary,
                TransportView, NoView, Found
  <2>2. /\ target' = target /\ rpc'[r] = "idle" /\ view'[r].kind # "status"
        /\ \A s \in Readers \ {r} :
             rpc'[s] = rpc[s] /\ then'[s] = then[s] /\ view'[s] = view[s]
    BY <1>1, <2>1 DEF Answers, asking, ReadersAreKnown
  <2>3. FoundIsAcked(r)'
    BY <2>2 DEF FoundIsAcked
  <2> QED
    BY <1>1, <1>2, <2>2, <2>3, StatusOfOne
<1>8. CASE Refreshes
  BY <1>3, <1>8 DEF Refreshes, Derive, MarkStale, Summarize,
                    CommitProjection, Drafts
<1>9. ASSUME NEW r \in Readers, TraceSummary(r)
      PROVE  StatusInv'
  <2>1. /\ target' = target /\ rpc'[r] = "traced" /\ view' = view
        /\ \A s \in Readers \ {r} : rpc'[s] = rpc[s] /\ then'[s] = then[s]
    BY <1>1, <1>9 DEF TraceSummary, asking, ReadersAreKnown
  <2>2. FoundIsAcked(r)'
    BY <2>1 DEF FoundIsAcked
  <2> QED
    BY <1>1, <1>2, <2>1, <2>2, StatusOfOne DEF StatusInv, CompletedViewHasAck
<1> QED
  BY <1>3, <1>4, <1>5, <1>6, <1>7, <1>8, <1>9
     DEF OutputNext, Reads, outputVars, outputs

\* With one worker, a view that shows a completed delivery was made with the
\* feedback that acknowledged the attempt it shows, although the worker may
\* have committed anything between the two lookups.
THEOREM CompletedViewsHaveAck ==
  ASSUME OneWorker
  PROVE  OutputSpec => []CompletedViewHasAck
<1>1. OutputInit => StatusInv
  BY DEF OutputInit, StatusInv, ReadersAreKnown, CompletedViewHasAck,
         FoundIsAcked, NoView
<1>2. StatusInv => CompletedViewHasAck
  BY DEF StatusInv
<1> QED
  BY <1>1, <1>2, StatusStep, ServicesInvariance, PTL DEF OutputSpec

-----------------------------------------------------------------------------
(***************************************************************************)
(* A transport view and the projection it carries.                         *)
(***************************************************************************)

\* What a refresher derived, and what a reader found, was derived from a
\* version that was committed.
SourcesAreCommitted ==
  /\ projection \in [Deliveries -> Projection]
  /\ \A d \in Deliveries : projection[d].source <= delivery[d].version
  /\ draft # NoDraft =>
       /\ draft.of \in Deliveries
       /\ draft.projection \in Projection
       /\ draft.projection.source <= delivery[draft.of].version

FoundIsCommitted(r) ==
  rpc[r] = "transport" =>
    /\ then[r].projection \in Projection
    /\ then[r].projection.source <= delivery[target[r]].version

TransportInv ==
  /\ ReadersAreKnown
  /\ SourcesAreCommitted
  /\ ViewIsNotBehind
  /\ \A r \in Readers : FoundIsCommitted(r)

\* Refreshing stages and commits what was derived from committed versions.
LEMMA SourcesStep ==
  ASSUME SInv, SInv', [Next]_vars, SourcesAreCommitted,
         \/ Refreshes
         \/ UNCHANGED projections
  PROVE  SourcesAreCommitted'
<1>1. /\ delivery \in [Deliveries -> DeliveryRecord]
      /\ delivery' \in [Deliveries -> DeliveryRecord]
  BY DEF SInv, IInv, TypeOK
<1>2. \A d \in Deliveries : delivery[d].version \in Nat
                            /\ delivery'[d].version \in Nat
  BY <1>1 DEF DeliveryRecord
<1>3. \A d \in Deliveries : delivery'[d].version >= delivery[d].version
  BY StoreStep DEF StoreGrows
<1>4. CASE UNCHANGED projections
  BY <1>2, <1>3, <1>4 DEF projections, SourcesAreCommitted, Projection
<1>5. ASSUME NEW d \in Deliveries, Derive(d) \/ MarkStale(d)
      PROVE  SourcesAreCommitted'
  <2>1. PICK status \in {"Active", "Stale"} :
          Drafts(d, status, delivery[d].version)
    BY <1>5 DEF Derive, MarkStale
  <2>2. /\ draft' = [of |-> d, projection |->
                      [version |-> projection[d].version + 1,
                       status |-> status, source |-> delivery[d].version]]
        /\ projection' = projection /\ delivery' = delivery
    BY <2>1 DEF Drafts, vars, store
  <2>3. draft'.of = d /\ draft'.projection =
          [version |-> projection[d].version + 1,
           status |-> status, source |-> delivery[d].version]
    BY <2>2
  <2>4. projection[d].version + 1 \in Nat
    BY DEF SourcesAreCommitted, Projection
  <2>5. draft'.projection \in Projection
    BY <1>2, <2>3, <2>4 DEF Projection
  <2> QED
    BY <1>2, <2>2, <2>3, <2>5 DEF SourcesAreCommitted
<1>6. ASSUME NEW d \in Deliveries, Summarize(d)
      PROVE  SourcesAreCommitted'
  BY <1>6 DEF Summarize, vars, store, SourcesAreCommitted
<1>7. CASE CommitProjection
  <2>1. /\ projection' = [projection EXCEPT ![draft.of] = draft.projection]
        /\ draft # NoDraft /\ draft' = NoDraft /\ delivery' = delivery
    BY <1>7 DEF CommitProjection, vars, store
  <2> QED
    BY <2>1 DEF SourcesAreCommitted
<1> QED
  BY <1>4, <1>5, <1>6, <1>7 DEF Refreshes

\* What one reader does, and what the store does under the others.
LEMMA TransportOfOne ==
  ASSUME SInv, SInv', [Next]_vars, TransportInv, ReadersAreKnown',
         SourcesAreCommitted', target' = target, NEW r \in Readers,
         \A s \in Readers \ {r} :
           rpc'[s] = rpc[s] /\ then'[s] = then[s] /\ view'[s] = view[s],
         FoundIsCommitted(r)',
         view'[r].kind = "transport" =>
           view'[r].at >= view'[r].projection.source
  PROVE  TransportInv'
<1>1. \A d \in Deliveries : delivery'[d].version >= delivery[d].version
  BY StoreStep DEF StoreGrows
<1>2. \A d \in Deliveries : delivery[d].version \in Nat
                            /\ delivery'[d].version \in Nat
  <2>1. /\ delivery \in [Deliveries -> DeliveryRecord]
        /\ delivery' \in [Deliveries -> DeliveryRecord]
    BY DEF SInv, IInv, TypeOK
  <2> QED
    BY <2>1 DEF DeliveryRecord
<1>3. ASSUME NEW s \in Readers
      PROVE  FoundIsCommitted(s)'
  <2>1. CASE s = r
    BY <2>1
  <2>2. CASE s # r
    <3>1. FoundIsCommitted(s) /\ target[s] \in Deliveries
      BY DEF TransportInv, ReadersAreKnown
    <3> QED
      BY <1>1, <1>2, <2>2, <3>1 DEF FoundIsCommitted, Projection
  <2> QED
    BY <2>1, <2>2
<1>4. ViewIsNotBehind'
  BY DEF TransportInv, ViewIsNotBehind
<1> QED
  BY <1>3, <1>4 DEF TransportInv

LEMMA TransportStep ==
  ASSUME SInv, SInv', TransportInv, [OutputNext]_outputVars
  PROVE  TransportInv'
<1>1. ReadersAreKnown /\ ReadersAreKnown'
  BY ReadersStayKnown DEF TransportInv
<1>2. [Next]_vars
  BY ServicesStep
<1>3. SourcesAreCommitted'
  <2>1. Refreshes \/ UNCHANGED projections
    BY DEF OutputNext, outputVars, outputs, Reads, AskStatus, AskTransport,
           AskSummary, RefuseSummary, AnswerStatus, AnswerTransport,
           TraceSummary, AnswerSummary, WithholdSummary, ListHistory, Asks,
           Answers
  <2> QED
    BY <1>2, <2>1, SourcesStep DEF TransportInv
<1>4. \A d \in Deliveries : /\ delivery'[d].version >= delivery[d].version
                            /\ delivery[d].version \in Nat
                            /\ delivery'[d].version \in Nat
  <2>1. /\ delivery \in [Deliveries -> DeliveryRecord]
        /\ delivery' \in [Deliveries -> DeliveryRecord]
    BY DEF SInv, IInv, TypeOK
  <2> QED
    BY <1>2, <2>1, StoreStep DEF StoreGrows, DeliveryRecord
<1>5. ASSUME target' = target, NEW r \in Readers, FoundIsCommitted(r),
             rpc'[r] = rpc[r], then'[r] = then[r]
      PROVE  FoundIsCommitted(r)'
  <2>1. target[r] \in Deliveries
    BY <1>1 DEF ReadersAreKnown
  <2> QED
    BY <1>4, <1>5, <2>1 DEF FoundIsCommitted, Projection
<1>6. CASE target' = target /\ rpc' = rpc /\ then' = then /\ view' = view
  BY <1>1, <1>3, <1>5, <1>6 DEF TransportInv, ViewIsNotBehind
<1>7. ASSUME NEW r \in Readers,
             AskStatus(r) \/ AskTransport(r) \/ AskSummary(r)
      PROVE  TransportInv'
  <2>1. /\ target' = target /\ view'[r] = NoView /\ delivery' = delivery
        /\ then'[r] = Rows(target[r])
        /\ \A s \in Readers \ {r} :
             rpc'[s] = rpc[s] /\ then'[s] = then[s] /\ view'[s] = view[s]
    BY <1>1, <1>7 DEF AskStatus, AskTransport, AskSummary, Asks, asking,
                      ReadersAreKnown, vars, store
  <2>2. target[r] \in Deliveries
    BY <1>1 DEF ReadersAreKnown
  <2>3. FoundIsCommitted(r)'
    BY <2>1, <2>2 DEF FoundIsCommitted, Rows, TransportInv,
                      SourcesAreCommitted
  <2>4. view'[r].kind # "transport"
    BY <2>1 DEF NoView
  <2> QED
    BY <1>1, <1>2, <1>3, <2>1, <2>3, <2>4, TransportOfOne
<1>8. ASSUME NEW r \in Readers, AnswerTransport(r)
      PROVE  TransportInv'
  <2> DEFINE v == TransportView(then[r], Rows(target[r]))
  <2>1. /\ target' = target /\ rpc'[r] = "idle" /\ rpc[r] = "transport"
        /\ view'[r] = v
        /\ \A s \in Readers \ {r} :
             rpc'[s] = rpc[s] /\ then'[s] = then[s] /\ view'[s] = view[s]
    BY <1>1, <1>8 DEF AnswerTransport, Answers, asking, ReadersAreKnown
  <2>2. /\ v.at = delivery[target[r]].version
        /\ v.projection = then[r].projection
    BY DEF TransportView, Rows
  <2>3. FoundIsCommitted(r) /\ target[r] \in Deliveries
    BY <1>1 DEF TransportInv, ReadersAreKnown
  <2>4. then[r].projection.source \in Nat
    BY <2>1, <2>3 DEF FoundIsCommitted, Projection
  <2>5. view'[r].at >= view'[r].projection.source
    BY <1>4, <2>1, <2>2, <2>3, <2>4 DEF FoundIsCommitted
  <2>6. FoundIsCommitted(r)'
    BY <2>1 DEF FoundIsCommitted
  <2> QED
    BY <1>1, <1>2, <1>3, <2>1, <2>5, <2>6, TransportOfOne
<1>9. ASSUME NEW r \in Readers,
             AnswerStatus(r) \/ AnswerSummary(r) \/ WithholdSummary(r)
      PROVE  TransportInv'
  <2>1. \A last :
          StatusView(then[r], Rows(target[r]), last).kind # "transport"
    BY DEF StatusView
  <2>2. ASSUME AnswerStatus(r)
        PROVE  \E last : Answers(r, StatusView(then[r], Rows(target[r]), last))
    BY <2>2 DEF AnswerStatus
  <2>3. ASSUME AnswerSummary(r) \/ WithholdSummary(r)
        PROVE  \E a : Answers(r, a) /\ a.kind # "transport"
    BY <2>3 DEF AnswerSummary, WithholdSummary, NoView, Found
  <2>4. PICK a : Answers(r, a) /\ a.kind # "transport"
    BY <1>9, <2>1, <2>2, <2>3
  <2>5. /\ target' = target /\ rpc'[r] = "idle" /\ view'[r].kind # "transport"
        /\ \A s \in Readers \ {r} :
             rpc'[s] = rpc[s] /\ then'[s] = then[s] /\ view'[s] = view[s]
    BY <1>1, <2>4 DEF Answers, asking, ReadersAreKnown
  <2>6. FoundIsCommitted(r)'
    BY <2>5 DEF FoundIsCommitted
  <2> QED
    BY <1>1, <1>2, <1>3, <2>5, <2>6, TransportOfOne
<1>10. ASSUME NEW r \in Readers, RefuseSummary(r) \/ ListHistory(r)
       PROVE  TransportInv'
  BY <1>6, <1>10 DEF RefuseSummary, ListHistory, asking
<1>11. CASE Refreshes
  BY <1>6, <1>11 DEF Refreshes, Derive, MarkStale, Summarize,
                     CommitProjection, Drafts, reading, asking
<1>12. CASE UNCHANGED outputs
  BY <1>6, <1>12 DEF outputs, reading, asking
<1>13. ASSUME NEW r \in Readers, TraceSummary(r)
       PROVE  TransportInv'
  <2>1. /\ target' = target /\ rpc'[r] = "traced" /\ view' = view
        /\ \A s \in Readers \ {r} : rpc'[s] = rpc[s] /\ then'[s] = then[s]
    BY <1>1, <1>13 DEF TraceSummary, asking, ReadersAreKnown
  <2>2. FoundIsCommitted(r)'
    BY <2>1 DEF FoundIsCommitted
  <2>3. view'[r].kind = "transport" =>
          view'[r].at >= view'[r].projection.source
    BY <2>1 DEF TransportInv, ViewIsNotBehind
  <2> QED
    BY <1>1, <1>2, <1>3, <2>1, <2>2, <2>3, TransportOfOne
<1> QED
  BY <1>7, <1>8, <1>9, <1>10, <1>11, <1>12, <1>13
     DEF OutputNext, Reads, outputVars

\* With one worker, the status a transport view shows is never older than
\* the source of the projection it carries.
THEOREM TransportViewsAreNotBehind ==
  ASSUME OneWorker
  PROVE  OutputSpec => []ViewIsNotBehind
<1>1. OutputInit /\ SInv => TransportInv
  <2> SUFFICES ASSUME OutputInit, SInv PROVE TransportInv
    OBVIOUS
  <2>1. \A d \in Deliveries : delivery[d].version \in Nat
    BY DEF SInv, IInv, TypeOK, DeliveryRecord
  <2>2. NoProjection \in Projection /\ NoProjection.source = 0
    BY DEF NoProjection, Projection
  <2>3. SourcesAreCommitted
    BY <2>1, <2>2 DEF OutputInit, SourcesAreCommitted
  <2> QED
    BY <2>3 DEF OutputInit, TransportInv, ReadersAreKnown, ViewIsNotBehind,
                FoundIsCommitted, NoView
<1>2. TransportInv => ViewIsNotBehind
  BY DEF TransportInv
<1> QED
  BY <1>1, <1>2, TransportStep, ServicesInvariance, PTL DEF OutputSpec

-----------------------------------------------------------------------------
(***************************************************************************)
(* The pages of a history.                                                 *)
(***************************************************************************)

\* The token counts what was read, and that is how the history begins.
PageInv(r) ==
  /\ seen[r] \in Seq(Transition)
  /\ IsPrefixOf(seen[r], delivery[target[r]].history)
  /\ token[r] # None => token[r] = Len(seen[r])

PagesInv == ReadersAreKnown /\ \A r \in Readers : PageInv(r)

\* The page that follows a beginning of a history makes it longer.
LEMMA PageExtends ==
  ASSUME NEW h \in Seq(Transition), NEW g \in Seq(Transition),
         IsPrefixOf(g, h)
  PROVE  LET page == PageFrom(h, Len(g)) IN
         /\ page \in Seq(Transition)
         /\ g \o page \in Seq(Transition)
         /\ Len(g \o page) = Len(g) + Len(page)
         /\ IsPrefixOf(g \o page, h)
<1> DEFINE from == Len(g)
           m == from + 1
           n == IF from + Limit < Len(h) THEN from + Limit ELSE Len(h)
           page == PageFrom(h, from)
<1>1. from \in Nat /\ Len(h) \in Nat /\ Limit \in Nat /\ from <= Len(h)
  BY ReadingAssumption, LenProperties DEF IsPrefixOf
<1>2. m \in Int /\ n \in Int /\ n <= Len(h) /\ n >= from
  BY <1>1
<1>3. \A i \in m .. n : h[i] \in Transition
  <2>1. \A i \in 1 .. Len(h) : h[i] \in Transition
    BY ElementOfSeq
  <2> QED
    BY <1>1, <1>2, <2>1
<1>4. page = SubSeq(h, m, n)
  BY DEF PageFrom
<1> HIDE DEF m, n, page
<1>5. /\ page \in Seq(Transition)
      /\ Len(page) = IF m <= n THEN n - m + 1 ELSE 0
      /\ \A i \in 1 .. n - m + 1 : page[i] = h[m + i - 1]
  BY <1>2, <1>3, <1>4, SubSeqProperties
<1>6. Len(page) = n - from
  BY <1>1, <1>2, <1>5 DEF m
<1>7. /\ g \o page \in Seq(Transition)
      /\ Len(g \o page) = Len(g) + Len(page)
      /\ \A i \in 1 .. Len(g) + Len(page) :
           (g \o page)[i] = IF i <= Len(g) THEN g[i] ELSE page[i - Len(g)]
  BY <1>5, ConcatProperties
<1>8. ASSUME NEW i \in 1 .. Len(g \o page)
      PROVE  h[i] = (g \o page)[i]
  <2>1. CASE i <= Len(g)
    BY <1>1, <1>7, <2>1 DEF IsPrefixOf
  <2>2. CASE i > Len(g)
    <3>1. i - from \in 1 .. n - m + 1
      BY <1>1, <1>2, <1>6, <1>7, <2>2 DEF m
    <3>2. page[i - from] = h[m + (i - from) - 1]
      BY <1>5, <3>1
    <3>3. m + (i - from) - 1 = i
      BY <1>1, <1>7, <1>6, <1>2 DEF m
    <3> QED
      BY <1>1, <1>7, <1>2, <1>6, <2>2, <3>2, <3>3
  <2> QED
    BY <1>1, <1>2, <1>6, <1>7, <2>1, <2>2
<1>9. Len(g \o page) <= Len(h)
  BY <1>1, <1>2, <1>6, <1>7
<1> QED
  BY <1>5, <1>7, <1>8, <1>9 DEF IsPrefixOf, page

LEMMA PagesStep ==
  ASSUME SInv, SInv', PagesInv, [OutputNext]_outputVars
  PROVE  PagesInv'
<1>1. ReadersAreKnown /\ ReadersAreKnown'
  BY ReadersStayKnown DEF PagesInv
<1>2. ASSUME NEW r \in Readers
      PROVE  /\ target[r] \in Deliveries
             /\ delivery[target[r]].history \in Seq(Transition)
             /\ delivery'[target[r]].history \in Seq(Transition)
             /\ IsPrefixOf(delivery[target[r]].history,
                           delivery'[target[r]].history)
  <2>1. target[r] \in Deliveries
    BY <1>1 DEF ReadersAreKnown
  <2>2. /\ delivery \in [Deliveries -> DeliveryRecord]
        /\ delivery' \in [Deliveries -> DeliveryRecord]
    BY DEF SInv, IInv, TypeOK
  <2> QED
    BY <2>1, <2>2, ServicesStep, StoreStep DEF StoreGrows, DeliveryRecord
<1>3. ASSUME NEW r \in Readers, target'[r] = target[r], seen'[r] = seen[r],
             token'[r] = token[r]
      PROVE  PageInv(r)'
  <2>1. PageInv(r)
    BY DEF PagesInv
  <2>2. IsPrefixOf(seen[r], delivery'[target[r]].history)
    <3>1. seen[r] \in Seq(Transition)
      BY <2>1 DEF PageInv
    <3> QED
      BY <1>2, <2>1, <3>1, PrefixTransitive DEF PageInv
  <2> QED
    BY <1>3, <2>1, <2>2 DEF PageInv
<1>4. CASE target' = target /\ seen' = seen /\ token' = token
  BY <1>1, <1>3, <1>4 DEF PagesInv
<1>5. ASSUME NEW r \in Readers, ListHistory(r)
      PROVE  PagesInv'
  <2> DEFINE h == delivery[target[r]].history
             page == PageFrom(h, token[r])
  <2>1. /\ token[r] # None
        /\ seen' = [seen EXCEPT ![r] = seen[r] \o page]
        /\ token' = [token EXCEPT ![r] = NextToken(token[r], page, h)]
        /\ target' = target /\ delivery' = delivery
    BY <1>5 DEF ListHistory, asking, vars, store
  <2>2. /\ seen[r] \in Seq(Transition)
        /\ IsPrefixOf(seen[r], h)
        /\ token[r] = Len(seen[r])
    BY <2>1 DEF PagesInv, PageInv
  <2>3. /\ seen'[r] = seen[r] \o page
        /\ token'[r] = NextToken(token[r], page, h)
    BY <1>1, <2>1 DEF ReadersAreKnown
  <2>4. /\ seen[r] \o page \in Seq(Transition)
        /\ Len(seen[r] \o page) = Len(seen[r]) + Len(page)
        /\ IsPrefixOf(seen[r] \o page, h)
    BY <1>2, <2>2, PageExtends
  <2>5. token'[r] # None => token'[r] = Len(seen'[r])
    BY <2>2, <2>3, <2>4 DEF NextToken
  <2>6. PageInv(r)'
    BY <2>1, <2>3, <2>4, <2>5 DEF PageInv
  <2>7. ASSUME NEW s \in Readers, s # r
        PROVE  PageInv(s)'
    BY <1>1, <1>3, <2>1, <2>7 DEF ReadersAreKnown
  <2> QED
    BY <1>1, <2>6, <2>7 DEF PagesInv
<1>6. ASSUME NEW r \in Readers, Reads(r), ~ListHistory(r)
      PROVE  PagesInv'
  BY <1>4, <1>6 DEF Reads, AskStatus, AskTransport, AskSummary, RefuseSummary,
                    AnswerStatus, AnswerTransport, TraceSummary, AnswerSummary,
                    WithholdSummary, Asks, Answers, asking
<1>7. CASE Refreshes
  BY <1>4, <1>7 DEF Refreshes, Derive, MarkStale, Summarize,
                    CommitProjection, Drafts, reading, asking
<1>8. CASE UNCHANGED outputs
  BY <1>4, <1>8 DEF outputs, reading, asking
<1> QED
  BY <1>5, <1>6, <1>7, <1>8 DEF OutputNext, outputVars

\* With one worker, the pages a reader was given are the beginning of the
\* history, in order and without a gap, although it grows between the pages.
THEOREM PagesFollowTheHistory ==
  ASSUME OneWorker
  PROVE  OutputSpec => []PagesFollowHistory
<1>1. OutputInit /\ SInv => PagesInv
  <2> SUFFICES ASSUME OutputInit, SInv, NEW r \in Readers
               PROVE  PageInv(r)
    BY DEF OutputInit, ReadersAreKnown, PagesInv
  <2>1. delivery[target[r]].history \in Seq(Transition)
    BY DEF OutputInit, SInv, IInv, TypeOK, DeliveryRecord
  <2>2. seen[r] = <<>> /\ token[r] = 0
    BY DEF OutputInit
  <2> QED
    BY <2>1, <2>2 DEF PageInv, IsPrefixOf
<1>2. PagesInv => PagesFollowHistory
  BY DEF PagesInv, PageInv, PagesFollowHistory
<1> QED
  BY <1>1, <1>2, PagesStep, ServicesInvariance, PTL DEF OutputSpec
=============================================================================
