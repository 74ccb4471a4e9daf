----------------------- MODULE OutboxPublisherProofs ------------------------
(***************************************************************************)
(* Proofs about the outbound publisher, for any number of workers and      *)
(* failures, any batches, and any events, which may share their keys.      *)
(***************************************************************************)
EXTENDS OutboxPublisher, TLAPS

-----------------------------------------------------------------------------
(***************************************************************************)
(* The inductive invariant.                                                *)
(***************************************************************************)
IsInSink(e) == \E i \in DOMAIN sink : sink[i] = e

\* A call in progress has a valid batch, and as many answers at most.
CallsAreSound ==
  \A w \in Workers :
    /\ pc[w] # "idle" => batch[w] \in Batches /\ IsValid(batch[w])
    /\ pc[w] # "publishing" => answers[w] = <<>>
    /\ Len(answers[w]) <= Len(batch[w])

\* The receipts are those of the events in the sink.
ReceiptsMatchSink ==
  /\ \A i \in DOMAIN sink : receipts[KeyOf[sink[i]]] = sink[i]
  /\ \A k \in Keys :
       receipts[k] # None => KeyOf[receipts[k]] = k /\ IsInSink(receipts[k])

\* Whatever has evidence of its publication has a receipt.
EvidenceHasReceipt ==
  \A i \in DOMAIN evidence :
    evidence[i].status = "published" => receipts[KeyOf[evidence[i].event]] # None

\* The answers of a call so far, each for the event in its place.
IsAnswer(a, e) ==
  /\ KeyOf[a.event] = KeyOf[e]
  /\ IsInSink(a.event)
  /\ ~a.duplicate => a.event = e

AnswersArePublished ==
  \A w \in Workers : \A i \in DOMAIN answers[w] :
    IsAnswer(answers[w][i], batch[w][i])

AnswersAreInOrder ==
  \A w \in Workers : \A i, j \in DOMAIN answers[w] :
    i < j /\ ~answers[w][i].duplicate /\ ~answers[w][j].duplicate
    => IsBefore(batch[w][i], batch[w][j])

PInv ==
  /\ TypeOK
  /\ CallsAreSound
  /\ ReceiptsMatchSink
  /\ EvidenceHasReceipt
  /\ AnswersArePublished
  /\ AnswersAreInOrder
  /\ PublishedIsFinal
  /\ ConfirmedIsPublished
  /\ BatchOrderIsKept

LEMMA PInitial == Init => PInv
  BY EventsAssumption
  DEF Init, PInv, TypeOK, CallsAreSound, ReceiptsMatchSink, EvidenceHasReceipt,
      AnswersArePublished, AnswersAreInOrder, PublishedIsFinal,
      ConfirmedIsPublished, BatchOrderIsKept, Evidence, Answer

-----------------------------------------------------------------------------
(***************************************************************************)
(* The sink only grows, so whatever is in it stays, in its place.          *)
(***************************************************************************)
LEMMA SinkGrows ==
  ASSUME TypeOK, NEW e \in Events, sink' = Append(sink, e)
  PROVE  /\ \A d : IsInSink(d) => IsInSink(d)'
         /\ \A d, f : IsBefore(d, f) => IsBefore(d, f)'
         /\ IsInSink(e)'
         /\ \A d : IsInSink(d) => IsBefore(d, e)'
<1>1. /\ sink \in Seq(Events)
      /\ Len(sink') = Len(sink) + 1
      /\ DOMAIN sink = 1 .. Len(sink)
      /\ DOMAIN sink' = 1 .. Len(sink')
      /\ \A i \in DOMAIN sink : sink'[i] = sink[i] /\ i \in DOMAIN sink'
      /\ sink'[Len(sink')] = e
  BY DEF TypeOK
<1>2. \A d : IsInSink(d) => IsInSink(d)'
  BY <1>1 DEF IsInSink
<1>3. \A d, f : IsBefore(d, f) => IsBefore(d, f)'
  BY <1>1 DEF IsBefore
<1>4. IsInSink(e)'
  BY <1>1 DEF IsInSink
<1>5. ASSUME NEW d, IsInSink(d) PROVE IsBefore(d, e)'
  <2>1. PICK i \in DOMAIN sink : sink[i] = d
    BY <1>5 DEF IsInSink
  <2>2. /\ i \in DOMAIN sink' /\ Len(sink') \in DOMAIN sink'
        /\ i < Len(sink') /\ sink'[i] = d
    BY <1>1, <2>1
  <2> QED
    BY <1>1, <2>2 DEF IsBefore
<1> QED
  BY <1>2, <1>3, <1>4, <1>5

\* What was confirmed stays so while the sink keeps what it has.
LEMMA ConfirmedStays ==
  ASSUME ConfirmedIsPublished, BatchOrderIsKept, confirmed' = confirmed,
         \A d : IsInSink(d) => IsInSink(d)',
         \A d, f : IsBefore(d, f) => IsBefore(d, f)'
  PROVE  ConfirmedIsPublished' /\ BatchOrderIsKept'
<1>1. ConfirmedIsPublished'
  BY DEF ConfirmedIsPublished, IsInSink
<1>2. BatchOrderIsKept'
  BY DEF BatchOrderIsKept
<1> QED
  BY <1>1, <1>2

\* What a pending call is about to publish.
LEMMA CurrentIsReal ==
  ASSUME PInv, NEW w \in Workers, IsPending(w)
  PROVE  /\ pc[w] = "publishing"
         /\ batch[w] \in Batches
         /\ Turn(w) \in DOMAIN batch[w]
         /\ Current(w) \in Events \ Malformed
         /\ KeyOf[Current(w)] \in Keys
         /\ Receipt(w) \in Events \cup {None}
<1>1. pc[w] = "publishing" /\ batch[w] \in Batches /\ IsValid(batch[w])
  BY DEF IsPending, PInv, CallsAreSound
<1>2. Turn(w) \in DOMAIN batch[w] /\ batch[w] \in Seq(Events)
  BY DEF IsPending, Turn, PInv, TypeOK
<1>3. Current(w) \in Events \ Malformed
  BY <1>1, <1>2 DEF Current, IsValid
<1> QED
  BY <1>1, <1>2, <1>3 DEF Keys, Receipt, PInv, TypeOK

\* An answer in its place.
LEMMA AnsweredStep ==
  ASSUME PInv, NEW w \in Workers, IsPending(w),
         NEW e \in Events, NEW duplicate \in BOOLEAN,
         Answered(w, e, duplicate),
         KeyOf[e] = KeyOf[Current(w)],
         ~duplicate => e = Current(w),
         IsInSink(e)',
         \A d : IsInSink(d) => IsInSink(d)',
         \A d, f : IsBefore(d, f) => IsBefore(d, f)',
         ~duplicate => \A d : IsInSink(d) => IsBefore(d, e)'
  PROVE  /\ answers' \in [Workers -> Seq(Answer)]
         /\ CallsAreSound'
         /\ AnswersArePublished'
         /\ AnswersAreInOrder'
<1> DEFINE a == [event |-> e, duplicate |-> duplicate]
<1>1. /\ a \in Answer
      /\ answers' = [answers EXCEPT ![w] = Append(answers[w], a)]
      /\ UNCHANGED <<pc, batch>>
  BY DEF Answered, Answer
<1>2. answers' \in [Workers -> Seq(Answer)]
  BY <1>1 DEF PInv, TypeOK
<1>3. /\ answers'[w] = Append(answers[w], a)
      /\ Len(answers'[w]) = Len(answers[w]) + 1
      /\ DOMAIN answers[w] = 1 .. Len(answers[w])
      /\ DOMAIN answers'[w] = 1 .. Turn(w)
      /\ \A i \in DOMAIN answers[w] : answers'[w][i] = answers[w][i]
      /\ answers'[w][Turn(w)] = a
      /\ \A v \in Workers : v # w => answers'[v] = answers[v]
      /\ Len(answers[w]) \in Nat
  BY <1>1 DEF PInv, TypeOK, Turn
<1>4. \A i \in DOMAIN answers'[w] :
        /\ i # Turn(w) => i \in DOMAIN answers[w]
        /\ i <= Turn(w)
  BY <1>3 DEF Turn
<1>5. CallsAreSound'
  BY <1>1, <1>3, CurrentIsReal
  DEF PInv, TypeOK, CallsAreSound, IsValid, IsPending, Turn
<1>6. AnswersArePublished'
  <2> SUFFICES ASSUME NEW v \in Workers, NEW i \in DOMAIN answers'[v]
               PROVE  IsAnswer(answers[v][i], batch[v][i])'
    BY DEF AnswersArePublished
  <2>1. CASE v # w \/ i # Turn(w)
    <3>1. i \in DOMAIN answers[v] /\ answers'[v][i] = answers[v][i]
      BY <1>3, <1>4, <2>1
    <3> QED
      BY <1>1, <3>1 DEF PInv, AnswersArePublished, IsAnswer
  <2>2. CASE v = w /\ i = Turn(w)
    BY <1>1, <1>3, <2>2 DEF IsAnswer, Current
  <2> QED
    BY <2>1, <2>2
<1>7. AnswersAreInOrder'
  <2> SUFFICES ASSUME NEW v \in Workers,
                      NEW i \in DOMAIN answers'[v], NEW j \in DOMAIN answers'[v],
                      i < j, ~answers'[v][i].duplicate, ~answers'[v][j].duplicate
               PROVE  IsBefore(batch[v][i], batch[v][j])'
    BY DEF AnswersAreInOrder
  <2>1. CASE v # w \/ j # Turn(w)
    <3>1. /\ i \in DOMAIN answers[v] /\ answers'[v][i] = answers[v][i]
          /\ j \in DOMAIN answers[v] /\ answers'[v][j] = answers[v][j]
      <4>1. v = w => i \in DOMAIN answers[w] /\ j \in DOMAIN answers[w]
        BY <1>3, <1>4, <2>1 DEF Turn
      <4> QED
        BY <1>3, <4>1
    <3> QED
      BY <1>1, <3>1 DEF PInv, AnswersAreInOrder
  <2>2. CASE v = w /\ j = Turn(w)
    <3>1. i \in DOMAIN answers[w] /\ answers'[w][i] = answers[w][i]
      BY <1>3, <2>2 DEF Turn, PInv, TypeOK
    <3>2. IsInSink(batch[w][i])
      BY <2>2, <3>1 DEF PInv, AnswersArePublished, IsAnswer
    <3>3. ~duplicate
      BY <1>3, <2>2
    <3> QED
      BY <1>1, <2>2, <3>2, <3>3 DEF Current
  <2> QED
    BY <2>1, <2>2
<1> QED
  BY <1>2, <1>5, <1>6, <1>7

-----------------------------------------------------------------------------
(***************************************************************************)
(* Every action keeps the invariant.                                       *)
(***************************************************************************)

\* A step that leaves the sink alone, and with it the receipts.
SinkStays == UNCHANGED <<sink, receipts>>

LEMMA NothingMoves ==
  ASSUME SinkStays
  PROVE  /\ \A d : IsInSink(d)' <=> IsInSink(d)
         /\ \A d, f : IsBefore(d, f)' <=> IsBefore(d, f)
         /\ ReceiptsMatchSink => ReceiptsMatchSink'
  BY DEF SinkStays, IsInSink, IsBefore, ReceiptsMatchSink

\* A call that begins, ends or is repeated has no answers after the step.
LEMMA EmptiedStep ==
  ASSUME PInv, NEW w \in Workers, SinkStays, UNCHANGED evidence,
         answers' = [answers EXCEPT ![w] = <<>>],
         \A v \in Workers : v # w => pc'[v] = pc[v] /\ batch'[v] = batch[v],
         batch' \in [Workers -> Seq(Events)],
         pc'[w] # "idle" => batch'[w] \in Batches /\ IsValid(batch'[w])
  PROVE  /\ CallsAreSound'
         /\ ReceiptsMatchSink'
         /\ EvidenceHasReceipt'
         /\ AnswersArePublished'
         /\ AnswersAreInOrder'
         /\ PublishedIsFinal'
<1>1. /\ answers'[w] = <<>>
      /\ \A v \in Workers : v # w => answers'[v] = answers[v]
      /\ Len(<<>>) = 0 /\ DOMAIN <<>> = {}
      /\ Len(batch'[w]) \in Nat
  BY DEF PInv, TypeOK
<1>2. CallsAreSound'
  BY <1>1 DEF PInv, CallsAreSound, IsValid
<1>3. AnswersArePublished'
  BY <1>1, NothingMoves DEF PInv, AnswersArePublished, IsAnswer
<1>4. AnswersAreInOrder'
  BY <1>1, NothingMoves DEF PInv, AnswersAreInOrder
<1> QED
  BY <1>2, <1>3, <1>4, NothingMoves
  DEF PInv, EvidenceHasReceipt, PublishedIsFinal, SinkStays

LEMMA StartStep ==
  ASSUME PInv, NEW w \in Workers, NEW b \in Batches, Start(w, b)
  PROVE  PInv'
<1>1. /\ pc' = [pc EXCEPT ![w] = "publishing"]
      /\ batch' = [batch EXCEPT ![w] = b]
      /\ IsValid(b)
      /\ SinkStays
      /\ UNCHANGED <<evidence, outages, confirmed, answers>>
  BY DEF Start, adapter, SinkStays
<1>2. b \in Seq(Events)
  BY EventsAssumption
<1>3. TypeOK'
  BY <1>1, <1>2 DEF PInv, TypeOK, SinkStays
<1>4. answers' = [answers EXCEPT ![w] = <<>>]
  BY <1>1 DEF Start, PInv, TypeOK, CallsAreSound
<1>5. /\ \A v \in Workers : v # w => pc'[v] = pc[v] /\ batch'[v] = batch[v]
      /\ batch'[w] = b /\ batch' \in [Workers -> Seq(Events)]
  BY <1>1, <1>2 DEF PInv, TypeOK
<1>6. ConfirmedIsPublished' /\ BatchOrderIsKept'
  BY <1>1, NothingMoves, ConfirmedStays DEF PInv
<1> QED
  BY <1>1, <1>3, <1>4, <1>5, <1>6, EmptiedStep DEF PInv

LEMMA ReuseStep ==
  ASSUME PInv, NEW w \in Workers, Reuse(w)
  PROVE  PInv'
<1> DEFINE e == Receipt(w)
<1>1. /\ IsPending(w) /\ e # None
      /\ Answered(w, e, TRUE)
      /\ SinkStays
      /\ UNCHANGED <<evidence, outages, pc, batch, confirmed>>
  BY DEF Reuse, Answered, adapter, SinkStays
<1>2. e \in Events /\ KeyOf[e] = KeyOf[Current(w)] /\ IsInSink(e)
  BY <1>1, CurrentIsReal DEF PInv, ReceiptsMatchSink, Receipt
<1>3. /\ answers' \in [Workers -> Seq(Answer)]
      /\ CallsAreSound' /\ AnswersArePublished' /\ AnswersAreInOrder'
  BY <1>1, <1>2, NothingMoves, AnsweredStep
<1>4. ConfirmedIsPublished' /\ BatchOrderIsKept'
  BY <1>1, NothingMoves, ConfirmedStays DEF PInv
<1> QED
  BY <1>1, <1>3, <1>4, NothingMoves
  DEF PInv, TypeOK, EvidenceHasReceipt, PublishedIsFinal, SinkStays

\* Evidence of an event without a receipt, of its publication if it gets one.
LEMMA RecordedStep ==
  ASSUME PInv, NEW e \in Events, NEW status \in Failures \cup {"published"},
         Record(e, status), receipts[KeyOf[e]] = None,
         \A k \in Keys : receipts[k] # None => receipts'[k] # None,
         status = "published" => receipts'[KeyOf[e]] # None
  PROVE  /\ evidence' \in Seq(Evidence)
         /\ EvidenceHasReceipt'
         /\ PublishedIsFinal'
<1> DEFINE v == [event |-> e, status |-> status]
           n == Len(evidence) + 1
<1>1. v \in Evidence /\ evidence \in Seq(Evidence) /\ evidence' = Append(evidence, v)
  BY DEF Record, PInv, TypeOK, Evidence
<1>2. /\ evidence' \in Seq(Evidence)
      /\ DOMAIN evidence' = 1 .. n
      /\ DOMAIN evidence = 1 .. Len(evidence)
      /\ Len(evidence) \in Nat
      /\ \A i \in DOMAIN evidence : evidence'[i] = evidence[i]
      /\ \A i \in DOMAIN evidence : evidence[i] \in Evidence
      /\ evidence'[n] = v
  BY <1>1
<1>3. \A i \in DOMAIN evidence' : i <= n /\ (i # n => i \in DOMAIN evidence)
  BY <1>2
<1>4. \A i \in DOMAIN evidence : evidence[i].event \in Events
  BY <1>2 DEF Evidence
<1>5. EvidenceHasReceipt'
  BY <1>4, <1>2, <1>3 DEF PInv, EvidenceHasReceipt, Keys
<1>6. PublishedIsFinal'
  <2> SUFFICES ASSUME NEW i \in DOMAIN evidence', NEW j \in DOMAIN evidence',
                      i < j, evidence'[i].status = "published"
               PROVE  KeyOf[evidence'[j].event] # KeyOf[evidence'[i].event]
    BY DEF PublishedIsFinal
  <2>1. i \in DOMAIN evidence /\ evidence'[i] = evidence[i]
    BY <1>2, <1>3
  <2>2. CASE j = n
    BY <1>4, <1>2, <2>1, <2>2 DEF PInv, EvidenceHasReceipt
  <2>3. CASE j # n
    BY <1>2, <1>3, <2>1, <2>3 DEF PInv, PublishedIsFinal
  <2> QED
    BY <2>2, <2>3
<1> QED
  BY <1>2, <1>5, <1>6

LEMMA PublishStep ==
  ASSUME PInv, NEW w \in Workers, Publish(w)
  PROVE  PInv'
<1> PICK e \in Events : e = Current(w)
  BY CurrentIsReal DEF Publish
<1>1. /\ IsPending(w) /\ receipts[KeyOf[e]] = None
      /\ receipts' = [receipts EXCEPT ![KeyOf[e]] = e]
      /\ sink' = Append(sink, e)
      /\ Record(e, "published")
      /\ Answered(w, e, FALSE)
      /\ UNCHANGED <<outages, pc, batch, confirmed>>
  BY DEF Publish, Answered, Receipt
<1>2. KeyOf[e] \in Keys /\ e # None
  BY EventsAssumption DEF Keys
<1>3. /\ \A d : IsInSink(d) => IsInSink(d)'
      /\ \A d, f : IsBefore(d, f) => IsBefore(d, f)'
      /\ IsInSink(e)'
      /\ \A d : IsInSink(d) => IsBefore(d, e)'
  BY <1>1, <1>2, SinkGrows DEF PInv
<1>4. /\ answers' \in [Workers -> Seq(Answer)]
      /\ CallsAreSound' /\ AnswersArePublished' /\ AnswersAreInOrder'
  BY <1>1, <1>2, <1>3, AnsweredStep
<1>5. /\ receipts'[KeyOf[e]] = e
      /\ \A k \in Keys : k # KeyOf[e] => receipts'[k] = receipts[k]
  BY <1>1, <1>2 DEF PInv, TypeOK
<1>6. evidence' \in Seq(Evidence) /\ EvidenceHasReceipt' /\ PublishedIsFinal'
  BY <1>1, <1>2, <1>5, RecordedStep
<1>7. ReceiptsMatchSink'
  <2>1. /\ DOMAIN sink' = 1 .. Len(sink) + 1
        /\ \A i \in DOMAIN sink : sink'[i] = sink[i] /\ sink[i] \in Events
        /\ \A i \in DOMAIN sink' : i \in DOMAIN sink \/ sink'[i] = e
    BY <1>1, <1>2 DEF PInv, TypeOK
  <2>2. \A i \in DOMAIN sink' : receipts'[KeyOf[sink'[i]]] = sink'[i]
    <3> SUFFICES ASSUME NEW i \in DOMAIN sink'
                 PROVE  receipts'[KeyOf[sink'[i]]] = sink'[i]
      OBVIOUS
    <3>1. CASE sink'[i] = e
      BY <1>5, <3>1
    <3>2. CASE sink'[i] # e
      <4>1. i \in DOMAIN sink /\ sink'[i] = sink[i] /\ sink[i] # None
        BY <2>1, <3>2, EventsAssumption
      <4>2. receipts[KeyOf[sink[i]]] = sink[i] /\ KeyOf[sink[i]] \in Keys
        BY <2>1, <4>1 DEF PInv, ReceiptsMatchSink, Keys
      <4> QED
        BY <1>1, <1>5, <4>1, <4>2
    <3> QED
      BY <3>1, <3>2
  <2>3. ASSUME NEW k \in Keys, receipts'[k] # None
        PROVE  KeyOf[receipts'[k]] = k /\ IsInSink(receipts[k])'
    BY <1>3, <1>5, <2>3 DEF PInv, ReceiptsMatchSink
  <2> QED
    BY <2>2, <2>3 DEF ReceiptsMatchSink
<1>8. ConfirmedIsPublished' /\ BatchOrderIsKept'
  BY <1>1, <1>3, ConfirmedStays DEF PInv
<1>9. TypeOK'
  BY <1>1, <1>2, <1>4, <1>6 DEF PInv, TypeOK
<1> QED
  BY <1>4, <1>6, <1>7, <1>8, <1>9 DEF PInv

LEMMA FailStep ==
  ASSUME PInv, NEW w \in Workers, NEW status \in Failures, Fail(w, status)
  PROVE  PInv'
<1> PICK e \in Events : e = Current(w)
  BY CurrentIsReal DEF Fail
<1>1. /\ IsPending(w) /\ receipts[KeyOf[e]] = None
      /\ Record(e, status)
      /\ outages < MaxOutages /\ outages' = outages + 1
      /\ pc' = [pc EXCEPT ![w] = IF status = "rejected" THEN "idle" ELSE "failed"]
      /\ batch' = [batch EXCEPT ![w] = IF status = "rejected" THEN <<>> ELSE @]
      /\ answers' = [answers EXCEPT ![w] = <<>>]
      /\ UNCHANGED confirmed
      /\ SinkStays
  BY DEF Fail, Receipt, Ended, SinkStays
<1>2. pc[w] = "publishing" /\ batch[w] \in Batches /\ IsValid(batch[w])
  BY <1>1 DEF IsPending, PInv, CallsAreSound
<1>3. evidence' \in Seq(Evidence) /\ EvidenceHasReceipt' /\ PublishedIsFinal'
  BY <1>1, RecordedStep DEF SinkStays, Failures
<1>4. TypeOK'
  BY <1>1, <1>3, EventsAssumption DEF PInv, TypeOK, SinkStays
<1>5. /\ answers'[w] = <<>> /\ Len(<<>>) = 0 /\ DOMAIN <<>> = {}
      /\ \A v \in Workers :
           v # w => /\ answers'[v] = answers[v]
                    /\ pc'[v] = pc[v] /\ batch'[v] = batch[v]
      /\ pc'[w] # "idle" => batch'[w] = batch[w]
      /\ pc'[w] # "publishing"
      /\ Len(batch'[w]) \in Nat
  BY <1>1, <1>4 DEF PInv, TypeOK
<1>6. CallsAreSound'
  BY <1>2, <1>5 DEF PInv, CallsAreSound, IsValid
<1>7. AnswersArePublished'
  BY <1>1, <1>5, NothingMoves DEF PInv, AnswersArePublished, IsAnswer
<1>8. AnswersAreInOrder'
  BY <1>1, <1>5, NothingMoves DEF PInv, AnswersAreInOrder
<1>9. ConfirmedIsPublished' /\ BatchOrderIsKept'
  BY <1>1, NothingMoves, ConfirmedStays DEF PInv
<1> QED
  BY <1>1, <1>3, <1>4, <1>6, <1>7, <1>8, <1>9, NothingMoves DEF PInv

LEMMA ConfirmStep ==
  ASSUME PInv, NEW w \in Workers, Confirm(w)
  PROVE  PInv'
<1> DEFINE c == [batch |-> batch[w], answers |-> answers[w]]
<1>1. /\ pc[w] = "publishing" /\ Turn(w) > Len(batch[w])
      /\ confirmed' = confirmed \cup {c}
      /\ pc' = [pc EXCEPT ![w] = "idle"]
      /\ batch' = [batch EXCEPT ![w] = <<>>]
      /\ answers' = [answers EXCEPT ![w] = <<>>]
      /\ UNCHANGED <<evidence, outages>>
      /\ SinkStays
  BY DEF Confirm, adapter, SinkStays
<1>2. /\ batch[w] \in Batches /\ batch[w] \in Seq(Events)
      /\ answers[w] \in Seq(Answer)
      /\ Len(answers[w]) <= Len(batch[w])
  BY <1>1 DEF PInv, TypeOK, CallsAreSound
<1>3. Len(answers[w]) = Len(batch[w]) /\ DOMAIN answers[w] = DOMAIN batch[w]
  BY <1>1, <1>2 DEF Turn
<1>4. TypeOK'
  BY <1>1, <1>2 DEF PInv, TypeOK, SinkStays
<1>5. /\ \A v \in Workers : v # w => pc'[v] = pc[v] /\ batch'[v] = batch[v]
      /\ pc'[w] = "idle" /\ batch' \in [Workers -> Seq(Events)]
  BY <1>1, <1>4 DEF PInv, TypeOK
<1>6. ConfirmedIsPublished'
  <2>1. \A i \in DOMAIN c.batch :
          /\ KeyOf[c.answers[i].event] = KeyOf[c.batch[i]]
          /\ IsInSink(c.answers[i].event)
    BY <1>3 DEF PInv, AnswersArePublished, IsAnswer
  <2> QED
    BY <1>1, <1>3, <2>1 DEF PInv, ConfirmedIsPublished, IsInSink, SinkStays
<1>7. BatchOrderIsKept'
  <2>1. \A i, j \in DOMAIN c.answers :
          i < j /\ ~c.answers[i].duplicate /\ ~c.answers[j].duplicate
          => IsBefore(c.batch[i], c.batch[j])
    BY DEF PInv, AnswersAreInOrder
  <2> QED
    BY <1>1, <2>1, NothingMoves DEF PInv, BatchOrderIsKept
<1> QED
  BY <1>1, <1>4, <1>5, <1>6, <1>7, EmptiedStep DEF PInv

LEMMA RepeatStep ==
  ASSUME PInv, NEW w \in Workers, Repeat(w)
  PROVE  PInv'
<1>1. /\ pc[w] = "failed"
      /\ pc' = [pc EXCEPT ![w] = "publishing"]
      /\ SinkStays
      /\ UNCHANGED <<evidence, outages, batch, answers, confirmed>>
  BY DEF Repeat, adapter, SinkStays
<1>2. TypeOK'
  BY <1>1 DEF PInv, TypeOK, SinkStays
<1>3. /\ answers' = [answers EXCEPT ![w] = <<>>]
      /\ \A v \in Workers : v # w => pc'[v] = pc[v] /\ batch'[v] = batch[v]
      /\ batch' \in [Workers -> Seq(Events)]
      /\ batch'[w] \in Batches /\ IsValid(batch'[w])
  BY <1>1 DEF PInv, TypeOK, CallsAreSound, IsValid
<1>4. ConfirmedIsPublished' /\ BatchOrderIsKept'
  BY <1>1, NothingMoves, ConfirmedStays DEF PInv
<1> QED
  BY <1>1, <1>2, <1>3, <1>4, EmptiedStep DEF PInv

LEMMA PStutter ==
  ASSUME PInv, UNCHANGED vars
  PROVE  PInv'
<1>1. /\ SinkStays
      /\ UNCHANGED <<evidence, outages, pc, batch, answers, confirmed>>
  BY DEF vars, adapter, call, SinkStays
<1>2. ConfirmedIsPublished' /\ BatchOrderIsKept'
  BY <1>1, NothingMoves, ConfirmedStays DEF PInv
<1>3. AnswersArePublished' /\ AnswersAreInOrder'
  BY <1>1, NothingMoves
  DEF PInv, AnswersArePublished, AnswersAreInOrder, IsAnswer
<1> QED
  BY <1>1, <1>2, <1>3, NothingMoves
  DEF PInv, TypeOK, CallsAreSound, IsValid, EvidenceHasReceipt,
      PublishedIsFinal, SinkStays

LEMMA PStep == PInv /\ [Next]_vars => PInv'
<1> SUFFICES ASSUME PInv, [Next]_vars PROVE PInv'
  OBVIOUS
<1>1. ASSUME NEW w \in Workers, NEW b \in Batches, Start(w, b) PROVE PInv'
  BY <1>1, StartStep
<1>2. ASSUME NEW w \in Workers, Proceed(w) PROVE PInv'
  BY <1>2, ReuseStep, PublishStep, FailStep, ConfirmStep, RepeatStep DEF Proceed
<1> QED
  BY <1>1, <1>2, PStutter DEF Next

LEMMA PAlways == Spec => []PInv
  BY PInitial, PStep, PTL DEF Spec

-----------------------------------------------------------------------------
(***************************************************************************)
(* Theorems.                                                               *)
(***************************************************************************)

\* The publisher's state keeps its types: in particular only whole batches
\* are ever confirmed.
THEOREM PublisherTypes == Spec => []TypeOK
  BY PAlways, PTL DEF PInv

\* No failure is recorded for an event after its publication.
THEOREM PublishedStaysFinal == Spec => []PublishedIsFinal
  BY PAlways, PTL DEF PInv

\* A confirmed batch is in the sink, whatever failed before it was confirmed.
THEOREM ConfirmedStaysPublished == Spec => []ConfirmedIsPublished
  BY PAlways, PTL DEF PInv

\* What a call published itself is in the sink in the order of its batch.
THEOREM BatchOrderStaysKept == Spec => []BatchOrderIsKept
  BY PAlways, PTL DEF PInv

\* The sink grows by an event of the valid batch of a call, if at all.
LEMMA HarmlessStep ==
  PInv /\ InvalidBatchIsHarmless /\ [Next]_vars => InvalidBatchIsHarmless'
<1> SUFFICES ASSUME PInv, InvalidBatchIsHarmless, [Next]_vars
             PROVE  InvalidBatchIsHarmless'
  OBVIOUS
<1>1. ASSUME NEW w \in Workers, Publish(w) PROVE InvalidBatchIsHarmless'
  <2>1. IsPending(w) /\ sink' = Append(sink, Current(w))
    BY <1>1 DEF Publish
  <2>2. /\ batch[w] \in Batches /\ Turn(w) \in DOMAIN batch[w]
        /\ Current(w) = batch[w][Turn(w)]
        /\ \A j \in DOMAIN batch[w] : batch[w][j] \notin Malformed
    BY <2>1, CurrentIsReal DEF Current, PInv, CallsAreSound, IsValid
  <2>3. \A i \in DOMAIN sink' :
          \/ i \in DOMAIN sink /\ sink'[i] = sink[i]
          \/ sink'[i] = Current(w)
    BY <2>1, CurrentIsReal DEF PInv, TypeOK
  <2> QED
    BY <2>2, <2>3 DEF InvalidBatchIsHarmless
<1>2. ASSUME UNCHANGED sink PROVE InvalidBatchIsHarmless'
  BY <1>2 DEF InvalidBatchIsHarmless
<1>3. ASSUME NEW w \in Workers, Proceed(w), ~Publish(w) PROVE UNCHANGED sink
  BY <1>3 DEF Proceed, Reuse, Fail, Confirm, Repeat, adapter
<1>4. ASSUME NEW w \in Workers, NEW b \in Batches, Start(w, b)
      PROVE  UNCHANGED sink
  BY <1>4 DEF Start, adapter
<1>5. UNCHANGED vars => UNCHANGED sink
  BY DEF vars, adapter
<1> QED
  BY <1>1, <1>2, <1>3, <1>4, <1>5 DEF Next

\* Whatever is published is part of a batch that callers ask for and that has
\* no invalid event, so an invalid batch publishes nothing.
THEOREM InvalidBatchStaysHarmless == Spec => []InvalidBatchIsHarmless
<1>1. Init => InvalidBatchIsHarmless
  BY DEF Init, InvalidBatchIsHarmless
<1> QED
  BY <1>1, PAlways, HarmlessStep, PTL DEF Spec

-----------------------------------------------------------------------------
(***************************************************************************)
(* The publisher implements the log.                                       *)
(***************************************************************************)
LEMMA LoggedMeansReceipt ==
  ASSUME PInv, NEW e \in Events
  PROVE  Log!IsLogged(e) <=> receipts[KeyOf[e]] # None
<1>1. KeyOf[e] \in Keys
  BY DEF Keys
<1>2. ASSUME Log!IsLogged(e) PROVE receipts[KeyOf[e]] # None
  <2>1. PICK i \in DOMAIN sink : KeyOf[sink[i]] = KeyOf[e]
    BY <1>2 DEF Log!IsLogged
  <2>2. sink[i] # None
    BY <2>1, EventsAssumption DEF PInv, TypeOK
  <2> QED
    BY <2>1, <2>2 DEF PInv, ReceiptsMatchSink
<1>3. ASSUME receipts[KeyOf[e]] # None PROVE Log!IsLogged(e)
  BY <1>1, <1>3 DEF Log!IsLogged, PInv, ReceiptsMatchSink, IsInSink
<1> QED
  BY <1>2, <1>3

LEMMA LogStep == PInv /\ [Next]_vars => [Log!Next]_<<sink, {c.batch : c \in confirmed}>>
<1> SUFFICES ASSUME PInv, Next
             PROVE  \/ Log!Next
                    \/ UNCHANGED <<sink, confirmed>>
  BY DEF vars, adapter
<1>1. ASSUME NEW w \in Workers, Publish(w) PROVE Log!Next
  <2> PICK e \in Events : e = Current(w) /\ e \notin Malformed
    BY <1>1, CurrentIsReal DEF Publish
  <2>1. /\ receipts[KeyOf[e]] = None
        /\ sink' = Append(sink, e)
        /\ UNCHANGED confirmed
    BY <1>1 DEF Publish, Receipt, Answered
  <2>2. ~Log!IsLogged(e)
    BY <2>1, LoggedMeansReceipt
  <2>3. Log!Enter(e)
    BY <2>1, <2>2 DEF Log!Enter
  <2> QED
    BY <2>3 DEF Log!Next
<1>2. ASSUME NEW w \in Workers, Confirm(w) PROVE Log!Next
  <2>1. /\ pc[w] = "publishing" /\ Turn(w) > Len(batch[w])
        /\ confirmed' =
             confirmed \cup {[batch |-> batch[w], answers |-> answers[w]]}
        /\ UNCHANGED sink
    BY <1>2 DEF Confirm, adapter
  <2>2. /\ batch[w] \in Batches /\ batch[w] \in Seq(Events)
        /\ answers[w] \in Seq(Answer)
        /\ Len(answers[w]) <= Len(batch[w])
    BY <2>1 DEF PInv, TypeOK, CallsAreSound
  <2>3. DOMAIN answers[w] = DOMAIN batch[w]
    BY <2>1, <2>2 DEF Turn
  <2>4. \A i \in DOMAIN batch[w] : Log!IsLogged(batch[w][i])
    BY <2>3 DEF Log!IsLogged, PInv, AnswersArePublished, IsAnswer, IsInSink
  <2> PICK b \in Batches : b = batch[w]
    BY <2>2
  <2> DEFINE a == [batch |-> b, answers |-> answers[w]]
  <2>5. confirmed' = confirmed \cup {a} /\ a.batch = b
    BY <2>1
  <2>6. {c.batch : c \in confirmed'} = {c.batch : c \in confirmed} \cup {b}
    <3> HIDE DEF a
    <3> QED
      BY <2>5
  <2>7. Log!Confirm(b)
    BY <2>1, <2>4, <2>6 DEF Log!Confirm
  <2> QED
    BY <2>7 DEF Log!Next
<1>3. ASSUME NEW w \in Workers, NEW b \in Batches, Start(w, b)
      PROVE  UNCHANGED <<sink, confirmed>>
  BY <1>3 DEF Start, adapter
<1>4. ASSUME NEW w \in Workers,
             Reuse(w) \/ Repeat(w) \/ \E status \in Failures : Fail(w, status)
      PROVE  UNCHANGED <<sink, confirmed>>
  BY <1>4 DEF Reuse, Repeat, Fail, Answered, Ended, adapter
<1> QED
  BY <1>1, <1>2, <1>3, <1>4 DEF Next, Proceed

\* Batches that interleave, fail half-way and are repeated still append every
\* valid event to the log at most once, and confirm only what is in it.
THEOREM PublisherKeepsLog == Spec => LogSpec
<1>1. Init => Log!Init
  BY DEF Init, Log!Init
<1> QED
  BY <1>1, PAlways, LogStep, PTL DEF Spec, LogSpec, Log!Spec
=============================================================================
