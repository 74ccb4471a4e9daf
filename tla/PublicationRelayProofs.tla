----------------------- MODULE PublicationRelayProofs -----------------------
(***************************************************************************)
(* Proofs about publication acceptance and the outbox relay, for any       *)
(* requests, any page size and any bound on failures, and any number of    *)
(* workers unless a theorem says otherwise.                                *)
(***************************************************************************)
EXTENDS PublicationRelay, TLAPS

-----------------------------------------------------------------------------
(***************************************************************************)
(* The inductive invariant.                                                *)
(***************************************************************************)

\* What the workers have in hand: a request, of the outbox if it is to be
\* acknowledged, usable if it is to be committed.
ItemsAreReal ==
  \A w \in Workers :
    /\ pc[w] \notin {"idle", "picking"} => item[w] \in Requests
    /\ pc[w] = "acking" => FromOutbox(w)
    /\ pc[w] \in {"deciding", "staged"} => item[w] \notin Malformed

\* A fact is about to be acknowledged because it has its answer.
AckingIsAnswered == \A w \in Workers : pc[w] = "acking" => IsAnswered(item[w])

\* Decisions and anchors are entered under the names of their requests, and
\* no anchor is bound without a decision.
TruthIsNamed ==
  /\ \A p \in Publications :
       publication[p] # None => PublicationOf[publication[p]] = p
  /\ \A k \in Keys :
       anchors[k] # None =>
         /\ KeyOf[anchors[k]] = k
         /\ publication[PublicationOf[anchors[k]]] # None

\* In a relay job, every fact of the page is acknowledged, or still to be
\* done, or in hand, or the page will be replayed.
InJob(w) == pc[w] = "picking" \/ (pc[w] # "idle" /\ FromOutbox(w))

IsAccounted(w, i) ==
  \/ source[i] \in acked
  \/ i \in todo[w]
  \/ replay[w]
  \/ pc[w] # "picking" /\ source[i] = item[w]

PagesAreAccounted ==
  \A w \in Workers :
    InJob(w) =>
      /\ cursor[w] <= end[w]
      /\ \A i \in (cursor[w] + 1) .. end[w] : IsAccounted(w, i)

RInv ==
  /\ TypeOK
  /\ ItemsAreReal
  /\ AckedIsAnswered
  /\ AckingIsAnswered
  /\ TruthIsNamed
  /\ PagesAreAccounted
  /\ CursorPassesAcked

LEMMA RInitial == Init => RInv
<1> SUFFICES ASSUME Init PROVE RInv
  OBVIOUS
<1>1. TypeOK
  BY BoundsAssumption DEF Init, TypeOK, Decision
<1> QED
  BY <1>1 DEF Init, RInv, ItemsAreReal, AckedIsAnswered, AckingIsAnswered,
              TruthIsNamed, PagesAreAccounted, CursorPassesAcked, InJob

-----------------------------------------------------------------------------
(***************************************************************************)
(* The store: decisions and anchors are never taken back, so whatever is   *)
(* answered stays answered.                                                *)
(***************************************************************************)
LEMMA AnswersRemain ==
  ASSUME TypeOK, ItemsAreReal, NEW r \in Requests, IsAnswered(r),
         truth' = truth \/ \E w \in Workers : Commit(w)
  PROVE  IsAnswered(r)'
<1>1. CASE truth' = truth
  BY <1>1 DEF truth, IsAnswered
<1>2. ASSUME NEW w \in Workers, Commit(w) PROVE IsAnswered(r)'
  <2>1. item[w] \in Requests /\ item[w] # None
    BY <1>2, RequestsAssumption DEF Commit, ItemsAreReal
  <2>2. PublicationOf[r] \in Publications /\ KeyOf[r] \in Keys
    BY DEF Publications, Keys
  <2> QED
    BY <1>2, <2>1, <2>2 DEF Commit, IsAnswered, TypeOK
<1> QED
  BY <1>1, <1>2

-----------------------------------------------------------------------------
(***************************************************************************)
(* Steps of acceptance.                                                    *)
(***************************************************************************)

\* An answer leaves the page as it was, with the fact still in hand.
LEMMA AnsweredStep ==
  ASSUME RInv, NEW w \in Workers, NEW a \in Decision, Answered(w, a),
         pc[w] \in {"looking", "deciding", "staged"},
         TypeOK', TruthIsNamed',
         \A r \in Requests : IsAnswered(r) => IsAnswered(r)',
         FromOutbox(w) => IsAnswered(item[w])'
  PROVE  RInv'
<1> USE DEF RInv
<1>1. /\ pc' = [pc EXCEPT ![w] = IF FromOutbox(w) THEN "acking" ELSE "idle"]
      /\ UNCHANGED <<upstream, item, job>>
  BY DEF Answered
<1>2. ItemsAreReal'
  BY <1>1 DEF ItemsAreReal, FromOutbox, TypeOK
<1>3. AckedIsAnswered'
  BY <1>1 DEF AckedIsAnswered, upstream, TypeOK, Requests
<1>4. AckingIsAnswered'
  <2> SUFFICES ASSUME NEW v \in Workers, pc'[v] = "acking"
               PROVE  IsAnswered(item[v])'
    BY DEF AckingIsAnswered
  <2>1. CASE v = w
    BY <1>1, <2>1 DEF TypeOK
  <2>2. CASE v # w
    BY <1>1, <2>2 DEF TypeOK, AckingIsAnswered, ItemsAreReal
  <2> QED
    BY <2>1, <2>2
<1>5. PagesAreAccounted'
  BY <1>1 DEF PagesAreAccounted, InJob, IsAccounted, FromOutbox, TypeOK,
              upstream, job
<1>6. CursorPassesAcked'
  BY <1>1 DEF CursorPassesAcked, upstream, job
<1> QED
  BY <1>2, <1>3, <1>4, <1>5, <1>6

\* A failure marks the page for replay.
LEMMA FailedStep ==
  ASSUME RInv, NEW w \in Workers, Failed(w), pc[w] \notin {"idle", "picking"}
  PROVE  RInv'
<1> USE DEF RInv
<1>1. /\ pc' = [pc EXCEPT ![w] = IF FromOutbox(w) THEN "picking" ELSE "idle"]
      /\ replay' = [replay EXCEPT ![w] = FromOutbox(w)]
      /\ UNCHANGED <<truth, upstream, item, todo, end, cursor>>
  BY DEF Failed
<1>2. TypeOK'
  BY <1>1, BoundsAssumption DEF TypeOK, Failed, truth, upstream, FromOutbox
<1>3. ItemsAreReal'
  BY <1>1 DEF ItemsAreReal, FromOutbox, TypeOK
<1>4. AckedIsAnswered'
  BY <1>1 DEF AckedIsAnswered, IsAnswered, upstream, truth
<1>5. AckingIsAnswered'
  BY <1>1 DEF AckingIsAnswered, IsAnswered, truth, TypeOK
<1>6. TruthIsNamed'
  BY <1>1 DEF TruthIsNamed, truth
<1>7. PagesAreAccounted'
  <2> SUFFICES ASSUME NEW v \in Workers, InJob(v)'
               PROVE  /\ cursor'[v] <= end'[v]
                      /\ \A i \in (cursor'[v] + 1) .. end'[v] :
                           IsAccounted(v, i)'
    BY DEF PagesAreAccounted
  <2>1. CASE v = w
    BY <1>1, <2>1 DEF PagesAreAccounted, InJob, IsAccounted, FromOutbox, TypeOK
  <2>2. CASE v # w
    <3>1. InJob(v)
      BY <1>1, <2>2 DEF InJob, FromOutbox, TypeOK
    <3> QED
      BY <1>1, <2>2, <3>1
      DEF PagesAreAccounted, IsAccounted, TypeOK, upstream
  <2> QED
    BY <2>1, <2>2
<1>8. CursorPassesAcked'
  BY <1>1 DEF CursorPassesAcked, upstream
<1> QED
  BY <1>2, <1>3, <1>4, <1>5, <1>6, <1>7, <1>8

\* A worker goes on with its request, or takes up a command.
LEMMA OnwardStep ==
  ASSUME RInv, NEW w \in Workers,
         \/ Fresh(w) \/ Stage(w)
         \/ \E c \in Commands : Submit(w, c)
  PROVE  RInv'
<1> USE DEF RInv
<1>1. /\ UNCHANGED <<truth, upstream, outages, answer, job>>
      /\ \E next \in {"looking", "deciding", "staged"} :
           pc' = [pc EXCEPT ![w] = next]
      /\ \A v \in Workers : v # w => item'[v] = item[v] /\ pc'[v] = pc[v]
      /\ item' \in [Workers -> Requests \cup {None}]
      /\ item'[w] \in Requests
      /\ pc'[w] \in {"looking", "deciding", "staged"}
      /\ pc'[w] \in {"deciding", "staged"} => item'[w] \notin Malformed
      /\ \/ item'[w] = item[w] /\ pc[w] \notin {"idle", "picking"}
         \/ item'[w] \in Commands
  BY DEF Fresh, Stage, Submit, TypeOK, ItemsAreReal, Requests
<1>2. TypeOK'
  BY <1>1 DEF TypeOK, truth, upstream, job
<1>3. ItemsAreReal'
  BY <1>1 DEF ItemsAreReal, FromOutbox
<1>4. AckedIsAnswered'
  BY <1>1 DEF AckedIsAnswered, IsAnswered, upstream, truth
<1>5. AckingIsAnswered'
  BY <1>1 DEF AckingIsAnswered, IsAnswered, truth
<1>6. TruthIsNamed'
  BY <1>1 DEF TruthIsNamed, truth
<1>7. PagesAreAccounted'
  <2> SUFFICES ASSUME NEW v \in Workers, InJob(v)'
               PROVE  /\ cursor'[v] <= end'[v]
                      /\ \A i \in (cursor'[v] + 1) .. end'[v] :
                           IsAccounted(v, i)'
    BY DEF PagesAreAccounted
  <2>1. InJob(v) /\ item'[v] = item[v] /\ (pc'[v] = "picking" <=> pc[v] = "picking")
    BY <1>1, RequestsAssumption DEF InJob, FromOutbox
  <2> QED
    BY <1>1, <2>1 DEF PagesAreAccounted, IsAccounted, upstream, job
<1>8. CursorPassesAcked'
  BY <1>1 DEF CursorPassesAcked, upstream, job
<1> QED
  BY <1>2, <1>3, <1>4, <1>5, <1>6, <1>7, <1>8

LEMMA CommitStep ==
  ASSUME RInv, NEW w \in Workers, Commit(w)
  PROVE  RInv'
<1> USE DEF RInv
<1>1. /\ pc[w] = "staged"
      /\ item[w] \in Requests /\ item[w] # None
      /\ PublicationOf[item[w]] \in Publications /\ KeyOf[item[w]] \in Keys
      /\ DecisionOf[item[w]] \in Decision
  BY RequestsAssumption, DecisionAssumption
  DEF Commit, ItemsAreReal, Publications, Keys
<1>2. Answered(w, DecisionOf[item[w]])
  BY DEF Commit
<1>3. TypeOK'
  BY <1>1, <1>2 DEF Commit, Answered, TypeOK, upstream, job
<1>4. TruthIsNamed'
  <2>1. \A p \in Publications :
          publication'[p] # None => PublicationOf[publication'[p]] = p
    BY <1>1 DEF Commit, TruthIsNamed, TypeOK
  <2>2. ASSUME NEW k \in Keys, anchors'[k] # None
        PROVE  /\ KeyOf[anchors'[k]] = k
               /\ publication'[PublicationOf[anchors'[k]]] # None
    <3>1. CASE k = KeyOf[item[w]]
      BY <1>1, <3>1 DEF Commit, TypeOK
    <3>2. CASE k # KeyOf[item[w]]
      <4>1. anchors'[k] = anchors[k] /\ anchors[k] \in Requests
        BY <2>2, <3>2 DEF Commit, TypeOK
      <4>2. PublicationOf[anchors[k]] \in Publications
        BY <4>1 DEF Publications
      <4> QED
        BY <1>1, <2>2, <4>1, <4>2 DEF Commit, TruthIsNamed, TypeOK
    <3> QED
      BY <3>1, <3>2
  <2> QED
    BY <2>1, <2>2 DEF TruthIsNamed
<1>5. IsAnswered(item[w])'
  BY <1>1, <1>2 DEF Commit, Answered, IsAnswered, TypeOK
<1> QED
  BY <1>1, <1>2, <1>3, <1>4, <1>5, AnsweredStep, AnswersRemain

LEMMA AcceptStep ==
  ASSUME RInv, NEW w \in Workers, Accept(w)
  PROVE  RInv'
<1> USE DEF RInv
<1>1. ASSUME NEW a \in Decision, Answered(w, a), UNCHANGED truth,
             pc[w] \in {"looking", "deciding"}, IsAnswered(item[w])
      PROVE  RInv'
  <2>1. TypeOK' /\ TruthIsNamed'
    BY <1>1 DEF Answered, TypeOK, TruthIsNamed, truth, upstream, job
  <2>2. \A r \in Requests : IsAnswered(r) => IsAnswered(r)'
    BY <1>1, AnswersRemain
  <2>3. IsAnswered(item[w])'
    BY <1>1 DEF Answered, IsAnswered, truth
  <2> QED
    BY <1>1, <2>1, <2>2, <2>3, AnsweredStep
<1>2. pc[w] # "idle" /\ pc[w] # "picking" => item[w] \in Requests
  BY DEF ItemsAreReal
<1>3. ASSUME pc[w] \in {"looking", "deciding"},
             Bound(w) # None \/ Decided(w) # None \/ item[w] \in Malformed
      PROVE  IsAnswered(item[w])
  BY <1>3 DEF Bound, Decided, IsAnswered
<1>4. CASE Duplicate(w)
  <2>1. item[w] # None
    BY <1>2, <1>4, RequestsAssumption DEF Duplicate
  <2>2. /\ item[w] \in Requests
        /\ KeyOf[item[w]] \in Keys /\ PublicationOf[item[w]] \in Publications
    BY <1>2, <1>4 DEF Duplicate, Keys, Publications
  <2>3. Decided(w) \in Requests
    BY <1>4, <2>1, <2>2 DEF Duplicate, Bound, Decided, TruthIsNamed, TypeOK
  <2>4. DecisionOf[Decided(w)] \in Decision
    BY <2>3, DecisionAssumption
  <2> QED
    BY <1>1, <1>3, <1>4, <2>1, <2>4 DEF Duplicate
<1>5. CASE Conflict(w) /\ Answered(w, "rejected") /\ UNCHANGED truth
  BY <1>1, <1>3, <1>5 DEF Conflict, Decision
<1>6. CASE Conflict(w) /\ Failed(w)
  BY <1>6, FailedStep DEF Conflict
<1>7. CASE Unusable(w)
  BY <1>1, <1>3, <1>7 DEF Unusable, Decision
<1>8. CASE Collide(w)
  BY <1>1, <1>3, <1>8 DEF Collide, IsUnique, Decision
<1>9. CASE CommitFails(w)
  BY <1>9, FailedStep DEF CommitFails
<1> QED
  BY <1>4, <1>5, <1>6, <1>7, <1>8, <1>9, OnwardStep, CommitStep
  DEF Accept, Conflict

-----------------------------------------------------------------------------
(***************************************************************************)
(* Steps of the source and of relay jobs.                                  *)
(***************************************************************************)
LEMMA UpstreamStep ==
  ASSUME RInv, NEW f \in Facts, CommitUpstream(f)
  PROVE  RInv'
<1> USE DEF RInv
<1>1. /\ source' = Append(source, f)
      /\ UNCHANGED <<truth, acked, reports, outages, pc, item, answer, job>>
  BY DEF CommitUpstream
<1>2. /\ source' \in Seq(Facts)
      /\ Len(source') = Len(source) + 1
      /\ \A i \in 1 .. Len(source) : source'[i] = source[i]
  BY <1>1 DEF TypeOK
<1>3. TypeOK'
  BY <1>1, <1>2 DEF TypeOK, truth, job
<1>4. ItemsAreReal' /\ AckedIsAnswered' /\ AckingIsAnswered' /\ TruthIsNamed'
  BY <1>1 DEF ItemsAreReal, AckedIsAnswered, AckingIsAnswered, TruthIsNamed,
              IsAnswered, FromOutbox, truth
<1>5. PagesAreAccounted'
  <2> SUFFICES ASSUME NEW w \in Workers, InJob(w)'
               PROVE  /\ cursor'[w] <= end'[w]
                      /\ \A i \in (cursor'[w] + 1) .. end'[w] :
                           IsAccounted(w, i)'
    BY DEF PagesAreAccounted
  <2>1. /\ InJob(w)
        /\ \A i \in (cursor[w] + 1) .. end[w] : source'[i] = source[i]
    BY <1>1, <1>2 DEF InJob, FromOutbox, TypeOK
  <2> QED
    BY <1>1, <2>1 DEF PagesAreAccounted, IsAccounted, job
<1>6. CursorPassesAcked'
  BY <1>1, <1>2 DEF CursorPassesAcked, TypeOK, job
<1> QED
  BY <1>3, <1>4, <1>5, <1>6

LEMMA PollStep ==
  ASSUME RInv, NEW w \in Workers, Poll(w)
  PROVE  RInv'
<1> USE DEF RInv
<1>1. PICK n \in cursor[w] .. Len(source) :
        /\ todo' = [todo EXCEPT ![w] = Open(cursor[w], n)]
        /\ end' = [end EXCEPT ![w] = n]
  BY DEF Poll
<1>2. /\ pc' = [pc EXCEPT ![w] = "picking"]
      /\ replay' = [replay EXCEPT ![w] = FALSE]
      /\ UNCHANGED <<truth, upstream, outages, item, answer, cursor>>
  BY DEF Poll
<1>3. n \in 0 .. Len(source) /\ cursor[w] <= n
  BY DEF TypeOK
<1>4. Open(cursor[w], n) \in SUBSET (1 .. Len(source))
  BY <1>3 DEF Open, TypeOK
<1>5. TypeOK'
  BY <1>1, <1>2, <1>3, <1>4 DEF TypeOK, truth, upstream
<1>6. ItemsAreReal' /\ AckedIsAnswered' /\ AckingIsAnswered' /\ TruthIsNamed'
  BY <1>2 DEF ItemsAreReal, AckedIsAnswered, AckingIsAnswered, TruthIsNamed,
              IsAnswered, FromOutbox, truth, upstream, TypeOK
<1>7. PagesAreAccounted'
  BY <1>1, <1>2, <1>3 DEF PagesAreAccounted, InJob, IsAccounted, FromOutbox,
                          Open, TypeOK, upstream
<1>8. CursorPassesAcked'
  BY <1>2 DEF CursorPassesAcked, upstream
<1> QED
  BY <1>5, <1>6, <1>7, <1>8

LEMMA PickStep ==
  ASSUME RInv, NEW w \in Workers, Pick(w)
  PROVE  RInv'
<1> USE DEF RInv
<1>1. PICK i \in todo[w] :
        /\ item' = [item EXCEPT ![w] = source[i]]
        /\ todo' = [todo EXCEPT ![w] = @ \ {i}]
  BY DEF Pick
<1>2. /\ pc[w] = "picking"
      /\ pc' = [pc EXCEPT ![w] = "looking"]
      /\ UNCHANGED <<truth, upstream, outages, answer, end, replay, cursor>>
  BY DEF Pick
<1>3. source[i] \in Facts /\ source[i] \in Requests
  BY DEF TypeOK, Requests
<1>4. TypeOK'
  BY <1>1, <1>2, <1>3 DEF TypeOK, truth, upstream
<1>5. ItemsAreReal'
  BY <1>1, <1>2, <1>3 DEF ItemsAreReal, FromOutbox, TypeOK
<1>6. AckedIsAnswered' /\ AckingIsAnswered' /\ TruthIsNamed'
  BY <1>1, <1>2 DEF AckedIsAnswered, AckingIsAnswered, TruthIsNamed,
                    IsAnswered, truth, upstream, TypeOK
<1>7. PagesAreAccounted'
  <2> SUFFICES ASSUME NEW v \in Workers, InJob(v)'
               PROVE  /\ cursor'[v] <= end'[v]
                      /\ \A j \in (cursor'[v] + 1) .. end'[v] :
                           IsAccounted(v, j)'
    BY DEF PagesAreAccounted
  <2>1. CASE v = w
    BY <1>1, <1>2, <2>1
    DEF PagesAreAccounted, InJob, IsAccounted, TypeOK, upstream
  <2>2. CASE v # w
    <3>1. InJob(v)
      BY <1>1, <1>2, <2>2 DEF InJob, FromOutbox, TypeOK
    <3> QED
      BY <1>1, <1>2, <2>2, <3>1
      DEF PagesAreAccounted, IsAccounted, TypeOK, upstream
  <2> QED
    BY <2>1, <2>2
<1>8. CursorPassesAcked'
  BY <1>2 DEF CursorPassesAcked, upstream
<1> QED
  BY <1>4, <1>5, <1>6, <1>7, <1>8

\* A finished page was accounted for, so its cursor leaves nothing behind.
LEMMA FinishStep ==
  ASSUME RInv, NEW w \in Workers, Finish(w)
  PROVE  RInv'
<1> USE DEF RInv
<1>1. /\ pc[w] = "picking" /\ todo[w] = {}
      /\ cursor' = [cursor EXCEPT ![w] = IF replay[w] THEN @ ELSE end[w]]
      /\ pc' = [pc EXCEPT ![w] = "idle"]
      /\ UNCHANGED <<truth, upstream, outages, item, answer, todo, end, replay>>
  BY DEF Finish
<1>2. TypeOK'
  BY <1>1 DEF TypeOK, truth, upstream
<1>3. ItemsAreReal' /\ AckedIsAnswered' /\ AckingIsAnswered' /\ TruthIsNamed'
  BY <1>1 DEF ItemsAreReal, AckedIsAnswered, AckingIsAnswered, TruthIsNamed,
              IsAnswered, FromOutbox, truth, upstream, TypeOK
<1>4. PagesAreAccounted'
  BY <1>1 DEF PagesAreAccounted, InJob, IsAccounted, FromOutbox, TypeOK,
              upstream
<1>5. CursorPassesAcked'
  <2>1. ASSUME ~replay[w]
        PROVE  \A i \in 1 .. end[w] : source[i] \in acked
    <3>1. \A i \in (cursor[w] + 1) .. end[w] : source[i] \in acked
      BY <1>1, <2>1 DEF PagesAreAccounted, InJob, IsAccounted
    <3> QED
      BY <3>1 DEF CursorPassesAcked, TypeOK
  <2> QED
    BY <1>1, <2>1 DEF CursorPassesAcked, TypeOK, upstream
<1> QED
  BY <1>2, <1>3, <1>4, <1>5

LEMMA AckStep ==
  ASSUME RInv, NEW w \in Workers, Ack(w)
  PROVE  RInv'
<1> USE DEF RInv
<1>1. /\ pc[w] = "acking"
      /\ acked' = acked \cup {item[w]}
      /\ reports' = reports \cup {<<item[w], answer[w]>>}
      /\ pc' = [pc EXCEPT ![w] = "picking"]
      /\ UNCHANGED <<truth, source, outages, item, answer, job>>
  BY DEF Ack
<1>2. item[w] \in Facts /\ IsAnswered(item[w]) /\ answer[w] \in Decision
  BY <1>1 DEF ItemsAreReal, FromOutbox, AckingIsAnswered, TypeOK
<1>3. TypeOK'
  BY <1>1, <1>2 DEF TypeOK, truth, job
<1>4. ItemsAreReal' /\ AckedIsAnswered' /\ AckingIsAnswered' /\ TruthIsNamed'
  BY <1>1, <1>2 DEF ItemsAreReal, AckedIsAnswered, AckingIsAnswered,
                    TruthIsNamed, IsAnswered, FromOutbox, truth, TypeOK
<1>5. PagesAreAccounted'
  <2> SUFFICES ASSUME NEW v \in Workers, InJob(v)'
               PROVE  /\ cursor'[v] <= end'[v]
                      /\ \A i \in (cursor'[v] + 1) .. end'[v] :
                           IsAccounted(v, i)'
    BY DEF PagesAreAccounted
  <2>1. InJob(v)
    BY <1>1, <1>2 DEF InJob, FromOutbox, TypeOK
  <2> QED
    BY <1>1, <2>1 DEF PagesAreAccounted, IsAccounted, TypeOK, job
<1>6. CursorPassesAcked'
  BY <1>1 DEF CursorPassesAcked, job
<1> QED
  BY <1>3, <1>4, <1>5, <1>6

LEMMA RInductive == RInv /\ [Next]_vars => RInv'
<1> SUFFICES ASSUME RInv, [Next]_vars PROVE RInv'
  OBVIOUS
<1>1. ASSUME NEW w \in Workers, Relay(w) PROVE RInv'
  BY <1>1, PollStep, PickStep, FinishStep, AckStep, FailedStep
  DEF Relay, AckFails
<1>2. ASSUME NEW w \in Workers, NEW c \in Commands, Submit(w, c) PROVE RInv'
  BY <1>2, OnwardStep
<1>3. CASE UNCHANGED vars
  BY <1>3 DEF vars, truth, upstream, job, RInv, TypeOK, ItemsAreReal,
     AckedIsAnswered, AckingIsAnswered, TruthIsNamed, PagesAreAccounted,
     CursorPassesAcked, IsAnswered, InJob, IsAccounted, FromOutbox
<1> QED
  BY <1>1, <1>2, <1>3, UpstreamStep, AcceptStep DEF Next

THEOREM RInvariance == Spec => []RInv
BY RInitial, RInductive, PTL DEF Spec

\* The store, the source and the jobs keep their shape.
THEOREM RelayTypeCorrect == Spec => []TypeOK
<1>1. RInv => TypeOK
  BY DEF RInv
<1> QED
  BY <1>1, RInvariance, PTL

\* Nothing is acknowledged at the source before the bus has committed an
\* answer to it, whatever fails in between and however many jobs overlap.
THEOREM AcknowledgedIsAnswered == Spec => []AckedIsAnswered
<1>1. RInv => AckedIsAnswered
  BY DEF RInv
<1> QED
  BY <1>1, RInvariance, PTL

\* The cursor of a relay job never passes a fact that is not acknowledged.
THEOREM NothingIsPassed == Spec => []CursorPassesAcked
<1>1. RInv => CursorPassesAcked
  BY DEF RInv
<1> QED
  BY <1>1, RInvariance, PTL

-----------------------------------------------------------------------------
(***************************************************************************)
(* The ledger of publications. The commit compares nothing, so what was    *)
(* staged must still fit when it is committed. It does with one worker,    *)
(* and with any number of them when no two requests name one publication.  *)
(***************************************************************************)
OneWorker == \E w : Workers = {w}

PublicationsAreOwn ==
  \A r, s \in Requests : PublicationOf[r] = PublicationOf[s] => r = s

StagedFits ==
  \A w \in Workers : pc[w] = "staged" => Decided(w) \in {None, item[w]}

LInv == RInv /\ AnswersStand /\ StagedFits

LEMMA StagedStillFits ==
  ASSUME OneWorker \/ PublicationsAreOwn, LInv, RInv', [Next]_vars
  PROVE  StagedFits'
<1> USE DEF LInv, RInv
<1>1. CASE PublicationsAreOwn
  <2> SUFFICES ASSUME NEW w \in Workers, pc'[w] = "staged",
                      Decided(w)' # None
               PROVE  Decided(w)' = item'[w]
    BY DEF StagedFits
  <2> DEFINE p == PublicationOf[item'[w]]
  <2>1. item'[w] \in Requests /\ p \in Publications
    BY DEF ItemsAreReal, Publications
  <2>2. publication'[p] \in Requests /\ PublicationOf[publication'[p]] = p
    BY <2>1 DEF Decided, TruthIsNamed, TypeOK
  <2> QED
    BY <1>1, <2>1, <2>2 DEF PublicationsAreOwn, Decided
<1>2. CASE OneWorker
  <2> SUFFICES ASSUME NEW w \in Workers, Workers = {w}, pc'[w] = "staged"
               PROVE  Decided(w)' \in {None, item'[w]}
    BY <1>2 DEF StagedFits, OneWorker
  <2>1. CASE Stage(w)
    BY <2>1 DEF Stage, IsUnique, Decided, truth
  <2>2. CASE UNCHANGED <<truth, pc, item>>
    BY <2>2 DEF StagedFits, Decided, truth
  <2>3. Stage(w) \/ UNCHANGED <<truth, pc, item>>
    BY DEF Next, Relay, Accept, CommitUpstream, Poll, Pick, Finish, Ack,
           AckFails, Submit, Duplicate, Conflict, Unusable, Fresh, Collide,
           Commit, CommitFails, Answered, Failed, TypeOK, vars
  <2> QED
    BY <2>1, <2>2, <2>3
<1> QED
  BY <1>1, <1>2

LEMMA AnswersStillStand ==
  ASSUME LInv, [Next]_vars
  PROVE  AnswersStand'
<1> USE DEF LInv, RInv
<1>1. CASE UNCHANGED truth
  BY <1>1 DEF AnswersStand, truth
<1>2. ASSUME NEW w \in Workers, Commit(w) PROVE AnswersStand'
  <2> SUFFICES ASSUME NEW k \in Keys, anchors'[k] # None
               PROVE  publication'[PublicationOf[anchors'[k]]] = anchors'[k]
    BY DEF AnswersStand
  <2>1. /\ item[w] \in Requests
        /\ PublicationOf[item[w]] \in Publications
        /\ publication'[PublicationOf[item[w]]] = item[w]
    BY <1>2 DEF Commit, ItemsAreReal, Publications, TypeOK
  <2>2. CASE k = KeyOf[item[w]]
    BY <1>2, <2>1, <2>2 DEF Commit, TypeOK
  <2>3. CASE k # KeyOf[item[w]]
    <3>1. anchors'[k] = anchors[k] /\ anchors[k] # None
      BY <1>2, <2>3 DEF Commit, TypeOK
    <3>2. publication[PublicationOf[anchors[k]]] = anchors[k]
      BY <3>1 DEF AnswersStand
    <3>3. CASE PublicationOf[anchors[k]] = PublicationOf[item[w]]
      BY <1>2, <2>1, <3>1, <3>2, <3>3 DEF Commit, StagedFits, Decided
    <3>4. CASE PublicationOf[anchors[k]] # PublicationOf[item[w]]
      BY <1>2, <3>1, <3>2, <3>4 DEF Commit, TypeOK
    <3> QED
      BY <3>3, <3>4
  <2> QED
    BY <2>2, <2>3
<1>3. UNCHANGED truth \/ \E w \in Workers : Commit(w)
  BY DEF Next, Relay, Accept, CommitUpstream, Poll, Pick, Finish, Ack,
         AckFails, Submit, Duplicate, Conflict, Unusable, Fresh, Stage,
         Collide, CommitFails, Failed, vars
<1> QED
  BY <1>1, <1>2, <1>3

THEOREM LInvariance ==
  ASSUME OneWorker \/ PublicationsAreOwn
  PROVE  Spec => []LInv
<1>1. Init => AnswersStand /\ StagedFits
  BY DEF Init, AnswersStand, StagedFits
<1>2. LInv /\ [Next]_vars => LInv'
  <2> SUFFICES ASSUME LInv, [Next]_vars PROVE LInv'
    OBVIOUS
  <2>1. RInv'
    BY RInductive DEF LInv
  <2> QED
    BY <2>1, StagedStillFits, AnswersStillStand DEF LInv
<1> QED
  BY <1>1, <1>2, RInitial, PTL DEF Spec, LInv

\* An anchor always answers with the decision on its own request.
THEOREM AnswersAlwaysStand ==
  ASSUME OneWorker \/ PublicationsAreOwn
  PROVE  Spec => []AnswersStand
<1>1. LInv => AnswersStand
  BY DEF LInv
<1> QED
  BY <1>1, LInvariance, PTL

-----------------------------------------------------------------------------
(***************************************************************************)
(* What jobs report as accepted.                                           *)
(***************************************************************************)
IsAccepted(r) ==
  /\ publication[PublicationOf[r]] # None
  /\ DecisionOf[publication[PublicationOf[r]]] = "accepted"

\* A job is about to report an acceptance because there is one.
AckingIsTrue ==
  \A w \in Workers :
    pc[w] = "acking" /\ answer[w] = "accepted" => IsAccepted(item[w])

AInv == LInv /\ AckingIsTrue /\ AcceptedIsCommitted

\* A commit repeats a decision that is there already, so none is lost.
LEMMA AcceptedRemains ==
  ASSUME LInv, [Next]_vars, NEW r \in Requests, IsAccepted(r)
  PROVE  IsAccepted(r)'
<1> USE DEF LInv, RInv
<1>1. CASE UNCHANGED truth
  BY <1>1 DEF IsAccepted, truth
<1>2. ASSUME NEW w \in Workers, Commit(w) PROVE IsAccepted(r)'
  <2>1. /\ PublicationOf[r] \in Publications
        /\ publication' =
             [publication EXCEPT ![PublicationOf[item[w]]] = item[w]]
        /\ Decided(w) \in {None, item[w]}
    BY <1>2 DEF Commit, StagedFits, Publications
  <2>2. publication'[PublicationOf[r]] = publication[PublicationOf[r]]
    BY <2>1 DEF IsAccepted, Decided, TypeOK
  <2> QED
    BY <2>2 DEF IsAccepted
<1>3. UNCHANGED truth \/ \E w \in Workers : Commit(w)
  BY DEF Next, Relay, Accept, CommitUpstream, Poll, Pick, Finish, Ack,
         AckFails, Submit, Duplicate, Conflict, Unusable, Fresh, Stage,
         Collide, CommitFails, Failed, vars
<1> QED
  BY <1>1, <1>2, <1>3

LEMMA AckingStaysTrue ==
  ASSUME LInv, AckingIsTrue, [Next]_vars
  PROVE  AckingIsTrue'
<1> USE DEF LInv, RInv
<1> SUFFICES ASSUME NEW w \in Workers, pc'[w] = "acking",
                    answer'[w] = "accepted"
             PROVE  IsAccepted(item[w])' /\ item'[w] = item[w]
  BY DEF AckingIsTrue, IsAccepted
<1>1. CASE Duplicate(w)
  <2>1. /\ item[w] \in Requests /\ item[w] # None
        /\ KeyOf[item[w]] \in Keys /\ anchors[KeyOf[item[w]]] = item[w]
    BY <1>1, RequestsAssumption
    DEF Duplicate, ItemsAreReal, Keys, Bound
  <2>2. publication[PublicationOf[item[w]]] = item[w]
    BY <2>1 DEF AnswersStand
  <2>3. DecisionOf[item[w]] = "accepted"
    BY <1>1, <2>2 DEF Duplicate, Answered, Decided, TypeOK
  <2> QED
    BY <1>1, <2>1, <2>2, <2>3 DEF Duplicate, Answered, IsAccepted, truth
<1>2. CASE Commit(w)
  <2>1. /\ item[w] \in Requests /\ item[w] # None
        /\ PublicationOf[item[w]] \in Publications
    BY <1>2, RequestsAssumption DEF Commit, ItemsAreReal, Publications
  <2>2. publication'[PublicationOf[item[w]]] = item[w]
    BY <1>2, <2>1 DEF Commit, TypeOK
  <2>3. DecisionOf[item[w]] = "accepted" /\ item' = item
    BY <1>2 DEF Commit, Answered, TypeOK
  <2> QED
    BY <2>1, <2>2, <2>3 DEF IsAccepted
<1>3. CASE UNCHANGED <<pc[w], answer[w], item[w]>>
  <2>1. item[w] \in Requests /\ IsAccepted(item[w])
    BY <1>3 DEF AckingIsTrue, ItemsAreReal
  <2>2. IsAccepted(item[w])'
    BY <1>3, <2>1, AcceptedRemains DEF IsAccepted
  <2> QED
    BY <1>3, <2>2
<1>4. Duplicate(w) \/ Commit(w) \/ UNCHANGED <<pc[w], answer[w], item[w]>>
  <2>1. ASSUME NEW v \in Workers, Relay(v)
        PROVE  UNCHANGED <<pc[w], answer[w], item[w]>>
    BY <2>1 DEF Relay, Poll, Pick, Finish, Ack, AckFails, Failed, TypeOK
  <2>2. ASSUME NEW v \in Workers, Accept(v), v # w
        PROVE  UNCHANGED <<pc[w], answer[w], item[w]>>
    BY <2>2 DEF Accept, Duplicate, Conflict, Unusable, Fresh, Stage, Collide,
                Commit, CommitFails, Answered, Failed, TypeOK
  <2>3. CASE Accept(w)
    BY <2>3 DEF Accept, Conflict, Unusable, Fresh, Stage, Collide,
                CommitFails, Answered, Failed, TypeOK
  <2>4. ASSUME NEW v \in Workers, NEW c \in Commands, Submit(v, c)
        PROVE  UNCHANGED <<pc[w], answer[w], item[w]>>
    BY <2>4 DEF Submit, TypeOK
  <2>5. ASSUME NEW f \in Facts, CommitUpstream(f)
        PROVE  UNCHANGED <<pc[w], answer[w], item[w]>>
    BY <2>5 DEF CommitUpstream
  <2>6. UNCHANGED vars => UNCHANGED <<pc[w], answer[w], item[w]>>
    BY DEF vars
  <2> QED
    BY <2>1, <2>2, <2>3, <2>4, <2>5, <2>6 DEF Next
<1> QED
  BY <1>1, <1>2, <1>3, <1>4 DEF Duplicate, Commit, Answered

LEMMA AcceptedStaysCommitted ==
  ASSUME AInv, [Next]_vars
  PROVE  AcceptedIsCommitted'
<1> USE DEF AInv, LInv, RInv
<1> SUFFICES ASSUME NEW f \in Facts, <<f, "accepted">> \in reports'
             PROVE  IsAccepted(f)'
  BY DEF AcceptedIsCommitted, IsAccepted
<1>1. f \in Requests
  BY DEF Requests
<1>2. CASE <<f, "accepted">> \in reports
  BY <1>1, <1>2, AcceptedRemains DEF AcceptedIsCommitted, IsAccepted
<1>3. ASSUME NEW w \in Workers, Ack(w), <<f, "accepted">> \notin reports
      PROVE  IsAccepted(f)'
  <2>1. pc[w] = "acking" /\ item[w] = f /\ answer[w] = "accepted"
    BY <1>3 DEF Ack
  <2> QED
    BY <1>1, <2>1, AcceptedRemains DEF AckingIsTrue
<1>4. UNCHANGED reports \/ \E w \in Workers : Ack(w)
  BY DEF Next, Relay, Accept, CommitUpstream, Poll, Pick, Finish, AckFails,
         Submit, Duplicate, Conflict, Unusable, Fresh, Stage, Collide, Commit,
         CommitFails, Answered, Failed, vars, upstream
<1> QED
  BY <1>2, <1>3, <1>4

\* What a job reports as accepted has an accepted publication, and keeps it,
\* whatever the jobs and commands that follow decide.
THEOREM AcceptedStaysTrue ==
  ASSUME OneWorker \/ PublicationsAreOwn
  PROVE  Spec => []AcceptedIsCommitted
<1>1. Init => AckingIsTrue /\ AcceptedIsCommitted
  BY DEF Init, AckingIsTrue, AcceptedIsCommitted
<1>2. LInv /\ AckingIsTrue /\ AcceptedIsCommitted /\ [Next]_vars
        => AckingIsTrue' /\ AcceptedIsCommitted'
  BY AckingStaysTrue, AcceptedStaysCommitted DEF AInv
<1> QED
  BY <1>1, <1>2, LInvariance, PTL DEF Spec

-----------------------------------------------------------------------------
(***************************************************************************)
(* Decided once. The commit compares nothing, so two workers that decide   *)
(* the same fact both commit it; one worker does not, because nothing      *)
(* happens to the store between its staging and its commit.                *)
(***************************************************************************)
DInv ==
  /\ \A p \in Publications :
       version[p] = IF publication[p] = None THEN 0 ELSE 1
  /\ \A w \in Workers : pc[w] = "staged" => Decided(w) = None

LEMMA DStep ==
  ASSUME OneWorker, RInv, DInv, [Next]_vars
  PROVE  DInv'
<1> PICK w : Workers = {w}
  BY DEF OneWorker
<1>1. CASE Commit(w)
  <2>1. /\ item[w] \in Requests /\ item[w] # None
        /\ PublicationOf[item[w]] \in Publications
        /\ Decided(w) = None
    BY <1>1, RequestsAssumption
    DEF Commit, RInv, ItemsAreReal, Publications, DInv
  <2>2. pc'[w] # "staged"
    BY <1>1 DEF Commit, Answered, RInv, TypeOK
  <2>3. \A p \in Publications :
          version'[p] = IF publication'[p] = None THEN 0 ELSE 1
    BY <1>1, <2>1 DEF Commit, DInv, Decided, RInv, TypeOK
  <2> QED
    BY <2>2, <2>3 DEF DInv
<1>2. CASE Stage(w)
  BY <1>2 DEF Stage, IsUnique, DInv, Decided, truth
<1>3. CASE UNCHANGED truth /\ (pc'[w] = "staged" => UNCHANGED <<pc[w], item[w]>>)
  BY <1>3 DEF DInv, Decided, truth
<1>4. \/ Commit(w) \/ Stage(w)
      \/ UNCHANGED truth /\ (pc'[w] = "staged" => UNCHANGED <<pc[w], item[w]>>)
  BY DEF Next, Relay, Accept, CommitUpstream, Poll, Pick, Finish, Ack,
         AckFails, Submit, Duplicate, Conflict, Unusable, Fresh, Collide,
         CommitFails, Answered, Failed, RInv, TypeOK, vars
<1> QED
  BY <1>1, <1>2, <1>3, <1>4

\* With one worker a publication is committed once, however often a page is
\* replayed and whatever commands ask for the same record.
THEOREM OneWorkerDecidesOnce ==
  ASSUME OneWorker
  PROVE  Spec => []DecidedOnce
<1>1. Init => DInv
  BY DEF Init, DInv
<1>2. RInv /\ DInv /\ [Next]_vars => DInv'
  BY DStep
<1>3. DInv => DecidedOnce
  BY DEF DInv, DecidedOnce
<1> QED
  BY <1>1, <1>2, <1>3, RInvariance, PTL DEF Spec

-----------------------------------------------------------------------------
(***************************************************************************)
(* The refinement.                                                         *)
(***************************************************************************)

\* Acceptance and relay implement the ledger: a commit decides a publication
\* that was open or repeats its decision, an acknowledgement settles a fact
\* that has its answer, and nothing else shows.
THEOREM RelayKeepsLedger ==
  ASSUME OneWorker \/ PublicationsAreOwn
  PROVE  Spec => LedgerSpec
<1>0. Ledger!Requests = Requests /\ Ledger!Publications = Publications
  BY DEF Ledger!Publications, Ledger!Requests, Publications, Requests
<1>1. Init => Ledger!Init
  BY <1>0 DEF Init, Ledger!Init
<1>2. ASSUME LInv, [Next]_vars
      PROVE  [Ledger!Next]_<<publication, acked>>
  <2>1. ASSUME NEW w \in Workers, Commit(w)
        PROVE  Ledger!Decide(item[w]) \/ UNCHANGED <<publication, acked>>
    <3>1. /\ item[w] \in Requests /\ item[w] \notin Malformed
          /\ PublicationOf[item[w]] \in Publications
      BY <1>2, <2>1 DEF Commit, LInv, RInv, ItemsAreReal, Publications
    <3>2. /\ publication' =
               [publication EXCEPT ![PublicationOf[item[w]]] = item[w]]
          /\ UNCHANGED acked
      BY <2>1 DEF Commit, Answered, upstream
    <3>3. publication[PublicationOf[item[w]]] \in {None, item[w]}
      BY <1>2, <2>1 DEF Commit, LInv, StagedFits, Decided
    <3> QED
      BY <1>0, <1>2, <3>1, <3>2, <3>3 DEF Ledger!Decide, LInv, RInv, TypeOK
  <2>2. ASSUME NEW w \in Workers, Ack(w)
        PROVE  Ledger!Settle(item[w])
    <3>1. /\ item[w] \in Facts /\ IsAnswered(item[w])
          /\ acked' = acked \cup {item[w]} /\ UNCHANGED publication
      BY <1>2, <2>2 DEF Ack, LInv, RInv, ItemsAreReal, FromOutbox,
                  AckingIsAnswered, truth
    <3>2. CASE publication[PublicationOf[item[w]]] # None
      <4> DEFINE r == publication[PublicationOf[item[w]]]
      <4>1. r \in Requests /\ PublicationOf[r] = PublicationOf[item[w]]
        <5>1. PublicationOf[item[w]] \in Publications
          BY <3>1 DEF Publications, Requests
        <5> QED
          BY <1>2, <3>2, <5>1 DEF LInv, RInv, TypeOK, TruthIsNamed
      <4> QED
        BY <1>0, <3>1, <4>1 DEF Ledger!Settle, Ledger!Rivals
    <3>3. CASE anchors[KeyOf[item[w]]] # None
      <4> DEFINE r == anchors[KeyOf[item[w]]]
      <4>1. KeyOf[item[w]] \in Keys
        BY <3>1 DEF Keys, Requests
      <4>2. r \in Requests /\ KeyOf[r] = KeyOf[item[w]]
        BY <1>2, <3>3, <4>1 DEF LInv, RInv, TypeOK, TruthIsNamed
      <4>3. publication[PublicationOf[r]] = r
        BY <1>2, <3>3, <4>1 DEF LInv, AnswersStand
      <4> QED
        BY <1>0, <3>1, <4>2, <4>3 DEF Ledger!Settle, Ledger!Rivals
    <3> QED
      BY <3>1, <3>2, <3>3 DEF IsAnswered, Ledger!Settle
  <2>3. ASSUME NEW w \in Workers, Ack(w)
        PROVE  item[w] \in Facts
    BY <1>2, <2>3 DEF Ack, LInv, RInv, ItemsAreReal, FromOutbox
  <2>4. ASSUME NEW w \in Workers, Commit(w)
        PROVE  item[w] \in Requests
    BY <1>2, <2>4 DEF Commit, LInv, RInv, ItemsAreReal
  <2>5. \/ UNCHANGED <<publication, acked>>
        \/ \E w \in Workers : Commit(w) \/ Ack(w)
    BY <1>2 DEF Next, Relay, Accept, CommitUpstream, Poll, Pick, Finish,
       AckFails, Submit, Duplicate, Conflict, Unusable, Fresh, Stage, Collide,
       CommitFails, Answered, Failed, vars, truth, upstream
  <2> QED
    BY <1>0, <2>1, <2>2, <2>3, <2>4, <2>5 DEF Ledger!Next
<1> QED
  BY <1>1, <1>2, LInvariance, PTL DEF Spec, LedgerSpec, Ledger!Spec
=============================================================================
