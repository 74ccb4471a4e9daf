------------------------ MODULE DeliverySerialProofs ------------------------
(***************************************************************************)
(* Proofs about one worker, the single-threaded deployment: what the store *)
(* was asked when the writes were staged still holds when they are         *)
(* committed, although nothing is compared again.                          *)
(***************************************************************************)
EXTENDS DeliveryServicesProofs, DeliveryLedger, FoldProofs

OneWorker == \E w : Workers = {w}

\* A copy that will be saved extends the delivery it replaces, which is not
\* closed, and staged feedback repeats nothing that is stored.
CopiesAreFresh ==
  \A w \in Workers :
    InHand(w) /\ SavesDelivery(req[w]) =>
      /\ Extends(rec[w], Loaded(w))
      /\ Loaded(w).status \notin Terminal

StagedIsNew ==
  \A w \in Workers : pc[w] = "staged" => FeedbackIsNew(req[w])

SInv == IInv /\ CopiesAreFresh /\ StagedIsNew

\* The only worker made the step, so its hand is all there is to look at.
LEMMA OnlyHand ==
  ASSUME OneWorker, NEW w \in Workers, IInv',
         InHand(w)' /\ SavesDelivery(req'[w]) =>
           /\ Extends(rec'[w], delivery'[req'[w].delivery])
           /\ delivery'[req'[w].delivery].status \notin Terminal,
         pc'[w] = "staged" => FeedbackIsNew(req[w])'
  PROVE  SInv'
<1>1. Workers = {w}
  BY DEF OneWorker
<1>2. CopiesAreFresh'
  BY <1>1 DEF CopiesAreFresh, Loaded
<1>3. StagedIsNew'
  BY <1>1 DEF StagedIsNew
<1> QED
  BY <1>2, <1>3 DEF SInv

\* A handler's copy is fresh when it is made.
LEMMA FreshWork ==
  ASSUME OneWorker, SInv, IInv', NEW w \in Workers,
         NEW c, NEW next \in {"loaded", "ready"}, Work(w, c, next),
         SavesDelivery(req[w]) => GoodCopy(c, Loaded(w))
  PROVE  SInv'
<1>1. /\ pc'[w] = next /\ rec'[w] = c /\ req' = req /\ delivery' = delivery
  BY DEF Work, store, SInv, IInv, TypeOK
<1> QED
  BY <1>1, OnlyHand DEF GoodCopy, Loaded

\* A worker that puts everything down has nothing in hand.
LEMMA NothingInHand ==
  ASSUME OneWorker, SInv, IInv', NEW w \in Workers,
         pc' = [pc EXCEPT ![w] = "idle"] \/ pc' = [pc EXCEPT ![w] = "received"]
  PROVE  SInv'
<1>1. pc'[w] \in {"idle", "received"}
  BY DEF SInv, IInv, TypeOK
<1> QED
  BY <1>1, OnlyHand DEF InHand

\* The backend's answer extends the copy that was sent out.
LEMMA FreshDispatch ==
  ASSUME OneWorker, SInv, IInv', NEW w \in Workers,
         Dispatched(w) \/ DispatchFailed(w)
  PROVE  SInv'
<1> DEFINE c == rec[w]
           d == Loaded(w)
           e == rec'[w]
<1>1. /\ pc[w] = "loaded" /\ pc'[w] = "ready" /\ req' = req
      /\ delivery' = delivery /\ e \in {Deliver(c), FailAttempt(c)}
  BY DEF Dispatched, DispatchFailed, store, SInv, IInv, TypeOK
<1>2. /\ c \in DeliveryRecord /\ IsLawful(c) /\ IsSettled(c)
      /\ c.status = "Dispatching"
  BY <1>1 DEF SInv, IInv, TypeOK, CopiesAreLawful, InHand, DispatchesAreOpen
<1>3. d \in DeliveryRecord
  BY <1>1, LoadedDelivery DEF SInv
<1>4. SavesDelivery(req[w]) => Extends(c, d) /\ d.status \notin Terminal
  BY <1>1 DEF SInv, CopiesAreFresh, InHand
<1> HIDE DEF c
<1>5. e \in DeliveryRecord /\ Extends(e, c)
  BY <1>1, <1>2, EndCopy DEF GoodCopy
<1> HIDE DEF d, e
<1>6. SavesDelivery(req[w]) => Extends(e, d) /\ d.status \notin Terminal
  <2> SUFFICES ASSUME SavesDelivery(req[w]) PROVE Extends(e, d)
    BY <1>4
  <2>1. /\ d.history \in Seq(Transition) /\ c.history \in Seq(Transition)
        /\ e.history \in Seq(Transition)
    BY <1>2, <1>3, <1>5 DEF DeliveryRecord
  <2>2. IsPrefixOf(d.history, c.history) /\ IsPrefixOf(c.history, e.history)
    BY <1>4, <1>5 DEF Extends
  <2>3. IsPrefixOf(d.history, e.history)
    BY <2>1, <2>2, PrefixTransitive
  <2> QED
    BY <1>4, <1>5, <2>3 DEF Extends
<1> QED
  BY <1>1, <1>6, OnlyHand DEF Loaded, d, e

\* Staging asks the store and changes nothing.
LEMMA FreshStage ==
  ASSUME OneWorker, SInv, IInv', NEW w \in Workers, Stage(w)
  PROVE  SInv'
<1>1. /\ pc[w] = "ready" /\ pc'[w] = "staged" /\ FeedbackIsNew(req[w])
      /\ req' = req /\ rec' = rec /\ delivery' = delivery
      /\ feedback' = feedback /\ anchors' = anchors
  BY DEF Stage, CanStage, store, SInv, IInv, TypeOK
<1>2. SavesDelivery(req[w]) =>
        Extends(rec[w], Loaded(w)) /\ Loaded(w).status \notin Terminal
  BY <1>1 DEF SInv, CopiesAreFresh, InHand
<1>3. FeedbackIsNew(req[w])'
  BY <1>1 DEF FeedbackIsNew
<1> QED
  BY <1>1, <1>2, <1>3, OnlyHand DEF Loaded

\* The copies the handlers make.
LEMMA FreshHandler ==
  ASSUME OneWorker, SInv, IInv', NEW w \in Workers, WorksOn(w)
  PROVE  SInv'
<1> DEFINE d == Loaded(w)
           r == req[w]
           c == CopyOf(r, d)
<1>1. pc[w] = "received" /\ Accepts(r, d)
  BY HandlerWorks
<1>2. r \in Request /\ d \in DeliveryRecord /\ IsLawful(d) /\ IsSettled(d)
  BY <1>1, LoadedDelivery DEF SInv
<1>3. CASE SavesDelivery(r)
  <2>1. \E next \in {"loaded", "ready"} : Work(w, c, next)
    BY <1>3, HandlerWorks
  <2>2. GoodCopy(c, d)
    <3> HIDE DEF r, d
    <3> QED
      BY <1>1, <1>2, <1>3, CopyIsMade DEF IsCopyFor
  <2> QED
    BY <2>1, <2>2, FreshWork
<1>4. CASE ~SavesDelivery(r)
  <2>1. Work(w, d, "ready")
    BY <1>4, HandlerWorks
  <2> QED
    BY <1>4, <2>1, FreshWork
<1> QED
  BY <1>3, <1>4

\* One worker keeps its copies fresh.
LEMMA NextSInv ==
  ASSUME OneWorker
  PROVE  SInv /\ [Next]_vars => SInv'
<1> SUFFICES ASSUME SInv, [Next]_vars PROVE SInv'
  OBVIOUS
<1>1. IInv'
  BY NextIInv DEF SInv
<1>2. ASSUME NEW w \in Workers, Receive(w)
      PROVE  SInv'
  <2>1. pc' = [pc EXCEPT ![w] = "received"]
    BY <1>2 DEF Receive, TakeProgress, TakeDeadLetter, TakeRetry,
                TakeRequestRetry, TakeFeedback, Take
  <2> QED
    BY <1>1, <2>1, NothingInHand
<1>3. ASSUME NEW w \in Workers, Handle(w)
      PROVE  SInv'
  <2>1. CASE Refuse(w)
    BY <1>1, <2>1, NothingInHand DEF Refuse, Finished
  <2> QED
    BY <1>1, <1>3, <2>1, FreshHandler, FreshDispatch, FreshStage
       DEF Handle, WorksOn
<1>4. ASSUME NEW w \in Workers, Commit(w) \/ CommitFails(w) \/ DropsAnswer(w)
      PROVE  SInv'
  <2>1. pc' = [pc EXCEPT ![w] = "idle"]
    BY <1>4 DEF Commit, CommitProgress, CommitFeedback, CommitRetry,
                CommitExhaust, CommitRequestRetry, CommitDeadLetter,
                Committing, CommitFails, DropsAnswer, Finished
  <2> QED
    BY <1>1, <2>1, NothingInHand
<1>5. CASE UNCHANGED vars
  BY <1>1, <1>5 DEF vars, store, SInv, CopiesAreFresh, InHand, Loaded,
                    StagedIsNew, FeedbackIsNew
<1> QED
  BY <1>2, <1>3, <1>4, <1>5 DEF Next

LEMMA SerialInvariance ==
  ASSUME OneWorker
  PROVE  Spec => []SInv
<1>1. Init => SInv
  BY InitIInv DEF Init, SInv, CopiesAreFresh, InHand, StagedIsNew
<1> QED
  BY <1>1, NextSInv, PTL DEF Spec

-----------------------------------------------------------------------------
(***************************************************************************)
(* What a step of one worker does to the stored deliveries.                *)
(***************************************************************************)

\* Only a commit changes what is stored.
LEMMA HandlesLeaveStore ==
  ASSUME NEW w \in Workers,
         Receive(w) \/ Handle(w) \/ CommitFails(w) \/ DropsAnswer(w)
  PROVE  store' = store
BY DEF Receive, TakeProgress, TakeDeadLetter, TakeRetry, TakeRequestRetry,
       TakeFeedback, Take, Handle, Progress, Retry, Exhaust, Ack, Reject,
       SignalDelivered, SignalFailed, TimeOut, RequestRetry, DeadLetter, Work,
       Dispatched, DispatchFailed, Stage, Refuse, CommitFails, DropsAnswer, store

\* Either nothing happens to the deliveries, or one that is not closed is
\* replaced by the next version, with a longer history.
DeliverySaved(d) ==
  /\ delivery[d].status \notin Terminal
  /\ delivery'[d].version = delivery[d].version + 1
  /\ IsPrefixOf(delivery[d].history, delivery'[d].history)
  /\ \A e \in Deliveries \ {d} : delivery'[e] = delivery[e]

LEMMA DeliveryStep ==
  ASSUME SInv, [Next]_vars
  PROVE  delivery' = delivery \/ \E d \in Deliveries : DeliverySaved(d)
<1>1. ASSUME NEW w \in Workers, pc[w] = "staged", SavesDelivery(req[w]),
             SaveDelivery(w)
      PROVE  DeliverySaved(req[w].delivery) /\ req[w].delivery \in Deliveries
  <2> DEFINE d == req[w].delivery
  <2>1. /\ d \in Deliveries
        /\ Extends(rec[w], delivery[d])
        /\ delivery[d].status \notin Terminal
    BY <1>1, CommittedCopy DEF SInv, CopiesAreFresh, InHand, Loaded
  <2>2. /\ delivery'[d].history = rec[w].history
        /\ delivery'[d].version = rec[w].version + 1
        /\ \A e \in Deliveries \ {d} : delivery'[e] = delivery[e]
    BY <1>1, SavedDelivery DEF SInv
  <2> QED
    BY <2>1, <2>2 DEF DeliverySaved, Extends
<1>2. ASSUME NEW w \in Workers,
             CommitProgress(w) \/ CommitFeedback(w) \/ CommitRetry(w)
               \/ CommitDeadLetter(w)
      PROVE  \E d \in Deliveries : DeliverySaved(d)
  <2>1. pc[w] = "staged" /\ SavesDelivery(req[w]) /\ SaveDelivery(w)
    BY <1>2 DEF CommitProgress, CommitFeedback, CommitRetry, CommitDeadLetter,
                Committing, SavesDelivery, FeedbackUse
  <2> QED
    BY <1>1, <2>1
<1>3. ASSUME NEW w \in Workers, CommitExhaust(w) \/ CommitRequestRetry(w)
      PROVE  delivery' = delivery
  BY <1>3 DEF CommitExhaust, CommitRequestRetry
<1>4. ASSUME NEW w \in Workers,
             Receive(w) \/ Handle(w) \/ CommitFails(w) \/ DropsAnswer(w)
      PROVE  delivery' = delivery
  BY <1>4, HandlesLeaveStore DEF store
<1>5. CASE UNCHANGED vars
  BY <1>5 DEF vars, store
<1> QED
  BY <1>2, <1>3, <1>4, <1>5 DEF Next, Commit

\* With one worker, a stored delivery is only ever replaced by the version
\* that follows the one it was made from.
THEOREM SerialWritesAreVersioned ==
  ASSUME OneWorker
  PROVE  Spec => WritesAreVersioned
<1>1. SInv /\ [Next]_vars =>
        [\A d \in Deliveries :
           delivery'[d] # delivery[d] =>
             delivery'[d].version = delivery[d].version + 1]_vars
  BY DeliveryStep DEF DeliverySaved
<1> QED
  BY <1>1, SerialInvariance, PTL DEF Spec, WritesAreVersioned

\* With one worker, a completed or dead-lettered delivery is never touched
\* again.
THEOREM SerialTerminalStaysClosed ==
  ASSUME OneWorker
  PROVE  Spec => TerminalStaysClosed
<1>1. SInv /\ [Next]_vars =>
        [\A d \in Deliveries :
           delivery[d].status \in Terminal => delivery'[d] = delivery[d]]_vars
  BY DeliveryStep DEF DeliverySaved
<1> QED
  BY <1>1, SerialInvariance, PTL DEF Spec, TerminalStaysClosed

\* Anchors and feedback rows are only added to.
LEMMA AnswersStep ==
  ASSUME SInv, [Next]_vars
  PROVE  anchors \subseteq anchors' /\ feedback \subseteq feedback'
<1>1. ASSUME NEW w \in Workers, CommitFeedback(w)
      PROVE  anchors \subseteq anchors' /\ feedback \subseteq feedback'
  <2> DEFINE r == req[w]
             a == [id |-> AnchorIdOf(r), request |-> r]
  <2>1. /\ pc[w] = "staged" /\ r.use \in FeedbackUse
        /\ feedback' = Put(feedback, RowOf(r))
        /\ anchors' = Put(anchors, a)
    BY <1>1 DEF CommitFeedback, Committing
  <2>2. FeedbackIsNew(r)
    BY <2>1 DEF SInv, StagedIsNew
  <2>3. RowOf(r).id = IdOf(r) /\ a.id = AnchorIdOf(r)
    BY DEF RowOf
  <2> QED
    BY <2>1, <2>2, <2>3 DEF FeedbackIsNew, Put
<1>2. ASSUME NEW w \in Workers,
             CommitProgress(w) \/ CommitRetry(w) \/ CommitExhaust(w)
               \/ CommitRequestRetry(w) \/ CommitDeadLetter(w)
      PROVE  anchors' = anchors /\ feedback' = feedback
  BY <1>2 DEF CommitProgress, CommitRetry, CommitExhaust,
              CommitRequestRetry, CommitDeadLetter
<1>3. ASSUME NEW w \in Workers,
             Receive(w) \/ Handle(w) \/ CommitFails(w) \/ DropsAnswer(w)
      PROVE  anchors' = anchors /\ feedback' = feedback
  BY <1>3, HandlesLeaveStore DEF store
<1>4. CASE UNCHANGED vars
  BY <1>4 DEF vars, store
<1> QED
  BY <1>1, <1>2, <1>3, <1>4 DEF Next, Commit

\* With one worker, a key once bound stays bound to its request and a
\* recorded feedback is never replaced.
THEOREM SerialAnswersAreForever ==
  ASSUME OneWorker
  PROVE  Spec => AnswersAreForever
<1>1. SInv /\ [Next]_vars =>
        [anchors \subseteq anchors' /\ feedback \subseteq feedback']_vars
  BY AnswersStep
<1> QED
  BY <1>1, SerialInvariance, PTL DEF Spec, AnswersAreForever

\* With one worker, what an anchor answers is what was answered first: its
\* row is there and has the outcome its request asked for.
THEOREM SerialAnchorsAnswerTruly ==
  ASSUME OneWorker
  PROVE  Spec => []AnchorsAnswerTruly
<1>1. Init => AnchorsAnswerTruly
  BY DEF Init, AnchorsAnswerTruly
<1>2. ASSUME SInv, AnchorsAnswerTruly, [Next]_vars
      PROVE  AnchorsAnswerTruly'
  <2>1. anchors \subseteq anchors' /\ feedback \subseteq feedback'
    BY <1>2, AnswersStep
  <2>2. ASSUME NEW a \in anchors', a \notin anchors
        PROVE  RowOf(a.request) \in feedback'
    <3>1. PICK w \in Workers : CommitFeedback(w)
      <4>1. anchors' # anchors
        BY <2>2
      <4>2. ASSUME NEW w \in Workers,
                   CommitProgress(w) \/ CommitRetry(w) \/ CommitExhaust(w)
                     \/ CommitRequestRetry(w) \/ CommitDeadLetter(w)
            PROVE  anchors' = anchors
        BY <4>2 DEF CommitProgress, CommitRetry, CommitExhaust,
                    CommitRequestRetry, CommitDeadLetter
      <4>3. ASSUME NEW w \in Workers,
                   Receive(w) \/ Handle(w) \/ CommitFails(w) \/ DropsAnswer(w)
            PROVE  store' = store
        BY <4>3, HandlesLeaveStore
      <4> QED
        BY <1>2, <4>1, <4>2, <4>3 DEF Next, Commit, vars, store
    <3>2. a = [id |-> AnchorIdOf(req[w]), request |-> req[w]]
      BY <2>2, <3>1 DEF CommitFeedback, Put
    <3>3. RowOf(req[w]) \in feedback'
      BY <3>1 DEF CommitFeedback, Put
    <3> QED
      BY <3>2, <3>3
  <2> QED
    BY <1>2, <2>1, <2>2 DEF AnchorsAnswerTruly
<1> QED
  BY <1>1, <1>2, SerialInvariance, PTL DEF Spec

-----------------------------------------------------------------------------
(***************************************************************************)
(* The retry plans of one worker.                                          *)
(***************************************************************************)

\* What a retry cycle saw of its plan is what is stored, and a retry request
\* that is staged finds no active plan.
PlansInHand ==
  \A w \in Workers :
    /\ pc[w] # "idle" /\ req[w].use = "retry" =>
         PlanOf(req[w]) = req[w].seen /\ req[w].seen.status = "scheduled"
    /\ pc[w] = "staged" /\ req[w].use = "requestRetry" =>
         active[req[w].delivery] = None

PInv == SInv /\ OneActivePlan /\ PlansInHand

\* A plan that no other one stands beside is saved with its pointer.
PlanSaved(d, p) ==
  /\ \A e \in Deliveries : \A q \in PlanIds :
       e # d \/ q # p => plan'[e][q] = plan[e][q]
  /\ \A e \in Deliveries \ {d} : active'[e] = active[e]
  /\ active[d] \in {None, p}
  /\ active'[d] = IF plan'[d][p].status = "scheduled" THEN p ELSE None

LEMMA PlansStayApart ==
  ASSUME OneActivePlan, NEW d \in Deliveries, NEW p \in PlanIds,
         PlanSaved(d, p)
  PROVE  OneActivePlan'
BY NoneAssumption DEF OneActivePlan, PlanSaved

LEMMA NextPInv ==
  ASSUME OneWorker
  PROVE  PInv /\ [Next]_vars => PInv'
<1> SUFFICES ASSUME PInv, [Next]_vars PROVE PInv'
  OBVIOUS
<1>1. SInv /\ SInv'
  BY NextSInv DEF PInv
<1>2. PICK w0 : Workers = {w0}
  BY DEF OneWorker
<1>3. ASSUME NEW w \in Workers, pc'[w] = "idle"
      PROVE  PlansInHand'
  BY <1>2, <1>3 DEF PlansInHand
<1>4. ASSUME NEW w \in Workers, Receive(w)
      PROVE  OneActivePlan' /\ PlansInHand'
  <2>1. plan' = plan /\ active' = active
    BY <1>4, HandlesLeaveStore DEF store
  <2>2. ASSUME NEW r, Take(w, r), r.use # "requestRetry",
               r.use = "retry" =>
                 PlanOf(r) = r.seen /\ r.seen.status = "scheduled"
        PROVE  PlansInHand'
    <3>1. pc'[w] = "received" /\ req'[w] = r
      BY <1>1, <2>2 DEF Take, SInv, IInv, TypeOK
    <3> QED
      BY <1>2, <2>1, <2>2, <3>1 DEF PlansInHand, PlanOf
  <2>3. ASSUME NEW r, Take(w, r), r.use = "requestRetry"
        PROVE  PlansInHand'
    <3>1. pc'[w] = "received" /\ req'[w] = r
      BY <1>1, <2>3 DEF Take, SInv, IInv, TypeOK
    <3> QED
      BY <1>2, <2>3, <3>1 DEF PlansInHand
  <2>4. ASSUME NEW d \in Deliveries, TakeProgress(w, d) \/ TakeDeadLetter(w, d)
        PROVE  PlansInHand'
    BY <2>2, <2>4 DEF TakeProgress, TakeDeadLetter
  <2>5. ASSUME NEW d \in Deliveries, NEW p \in PlanIds, TakeRetry(w, d, p)
        PROVE  PlansInHand'
    BY <2>2, <2>5 DEF TakeRetry, PlanOf
  <2>6. ASSUME NEW d \in Deliveries, NEW p \in PlanIds, NEW n \in Budgets,
               TakeRequestRetry(w, d, p, n)
        PROVE  PlansInHand'
    BY <2>3, <2>6 DEF TakeRequestRetry
  <2>7. ASSUME NEW r \in FeedbackRequest, TakeFeedback(w, r)
        PROVE  PlansInHand'
    BY <2>2, <2>7 DEF TakeFeedback, FeedbackRequest, FeedbackUse
  <2> QED
    BY <1>4, <2>1, <2>4, <2>5, <2>6, <2>7 DEF Receive, PInv, OneActivePlan
<1>5. ASSUME NEW w \in Workers, Handle(w)
      PROVE  OneActivePlan' /\ PlansInHand'
  <2>1. plan' = plan /\ active' = active
    BY <1>5, HandlesLeaveStore DEF store
  <2> SUFFICES PlansInHand'
    BY <2>1 DEF PInv, OneActivePlan
  <2>2. CASE Refuse(w)
    BY <1>1, <1>3, <2>2 DEF Refuse, Finished, SInv, IInv, TypeOK
  <2>3. CASE Stage(w)
    <3>1. /\ pc[w] = "ready" /\ req' = req
          /\ req[w].use = "requestRetry" => active[req[w].delivery] = None
      BY <2>3 DEF Stage, CanStage, PlanIsNew
    <3> QED
      BY <1>2, <2>1, <3>1 DEF PlansInHand, PlanOf, PInv
  <2>4. CASE ~Refuse(w) /\ ~Stage(w)
    <3>1. req' = req /\ pc[w] # "idle" /\ pc'[w] # "staged"
      BY <1>1, <1>5, <2>4
         DEF Handle, Progress, Retry, Exhaust, Ack, Reject, SignalDelivered,
             SignalFailed, TimeOut, RequestRetry, DeadLetter, Serves, Work,
             Dispatched, DispatchFailed, SInv, IInv, TypeOK
    <3> QED
      BY <1>2, <2>1, <3>1 DEF PlansInHand, PlanOf, PInv
  <2> QED
    BY <2>2, <2>3, <2>4
<1>6. ASSUME NEW w \in Workers, CommitFails(w) \/ DropsAnswer(w)
      PROVE  OneActivePlan' /\ PlansInHand'
  <2>1. plan' = plan /\ active' = active
    BY <1>6, HandlesLeaveStore DEF store
  <2>2. pc'[w] = "idle"
    BY <1>1, <1>6 DEF CommitFails, DropsAnswer, Finished, SInv, IInv, TypeOK
  <2> QED
    BY <1>3, <2>1, <2>2 DEF PInv, OneActivePlan
<1>7. ASSUME NEW w \in Workers, Commit(w)
      PROVE  OneActivePlan' /\ PlansInHand'
  <2> DEFINE r == req[w]
             p == r.seen
  <2>1. pc[w] = "staged" /\ pc'[w] = "idle"
    BY <1>1, <1>7 DEF Commit, CommitProgress, CommitFeedback, CommitRetry,
                      CommitExhaust, CommitRequestRetry, CommitDeadLetter,
                      Committing, Finished, SInv, IInv, TypeOK
  <2> SUFFICES OneActivePlan'
    BY <1>3, <2>1
  <2>2. /\ r \in Request
        /\ r.delivery \in Deliveries
        /\ r.use \in {"retry", "requestRetry"} => r.plan \in PlanIds
        /\ r.use = "retry" => p \in RetryPlan
    BY <1>1, <2>1, RequestFields DEF SInv, IInv, RequestsInHand
  <2>3. r.use = "retry" =>
          /\ plan[r.delivery][r.plan] = p /\ p.status = "scheduled"
          /\ active[r.delivery] = r.plan
    BY <2>1, <2>2 DEF PInv, PlansInHand, OneActivePlan, PlanOf
  <2>4. CASE CommitRetry(w)
    <3>1. /\ r.use = "retry"
          /\ plan' = [plan EXCEPT ![r.delivery][r.plan] =
                        [p EXCEPT !.remaining = @ - 1, !.version = @ + 1]]
          /\ active' = [active EXCEPT ![r.delivery] = r.plan]
      BY <2>4 DEF CommitRetry, Committing, SavePlan
    <3>2. PlanSaved(r.delivery, r.plan)
      BY <1>1, <2>1, <2>2, <2>3, <3>1
         DEF PlanSaved, PInv, PlansInHand, SInv, IInv, TypeOK, RetryPlan
    <3> QED
      BY <2>2, <3>1, <3>2, PlansStayApart DEF PInv
  <2>5. CASE CommitExhaust(w)
    <3>1. /\ r.use = "retry"
          /\ plan' = [plan EXCEPT ![r.delivery][r.plan] =
                        [p EXCEPT !.status = "exhausted", !.version = @ + 1]]
          /\ active' = [active EXCEPT ![r.delivery] =
                          IF @ = r.plan THEN None ELSE @]
      BY <2>5 DEF CommitExhaust, Committing, SavePlan
    <3>2. PlanSaved(r.delivery, r.plan)
      BY <1>1, <2>1, <2>2, <2>3, <3>1
         DEF PlanSaved, PInv, PlansInHand, SInv, IInv, TypeOK, RetryPlan
    <3> QED
      BY <2>2, <3>1, <3>2, PlansStayApart DEF PInv
  <2>6. CASE CommitRequestRetry(w)
    <3>1. /\ r.use = "requestRetry"
          /\ plan' = [plan EXCEPT ![r.delivery][r.plan] =
                        [budget |-> r.budget, remaining |-> r.budget,
                         status |-> "scheduled", version |-> 1]]
          /\ active' = [active EXCEPT ![r.delivery] = r.plan]
      BY <2>6 DEF CommitRequestRetry, Committing, SavePlan
    <3>2. PlanSaved(r.delivery, r.plan)
      BY <1>1, <2>1, <2>2, <2>3, <3>1
         DEF PlanSaved, PInv, PlansInHand, SInv, IInv, TypeOK, RetryPlan
    <3> QED
      BY <2>2, <3>1, <3>2, PlansStayApart DEF PInv
  <2>7. CASE CommitProgress(w) \/ CommitFeedback(w) \/ CommitDeadLetter(w)
    BY <2>7 DEF CommitProgress, CommitFeedback, CommitDeadLetter, PInv,
                OneActivePlan
  <2> QED
    BY <1>7, <2>4, <2>5, <2>6, <2>7 DEF Commit
<1>8. CASE UNCHANGED vars
  BY <1>1, <1>8 DEF vars, store, PInv, OneActivePlan, PlansInHand, PlanOf
<1> QED
  BY <1>1, <1>4, <1>5, <1>6, <1>7, <1>8 DEF Next, PInv

\* With one worker, a delivery has at most one scheduled retry plan, and the
\* active pointer names it: a retry cycle never works on two of them.
THEOREM SerialOneActivePlan ==
  ASSUME OneWorker
  PROVE  Spec => []OneActivePlan
<1>1. Init /\ SInv => PInv
  BY NoneAssumption DEF Init, PInv, OneActivePlan, PlansInHand, UnbornPlan
<1>2. PInv => OneActivePlan
  BY DEF PInv
<1> QED
  BY <1>1, <1>2, NextPInv, SerialInvariance, PTL DEF Spec

-----------------------------------------------------------------------------
\* With one worker, the services implement the append-only journal: each
\* step of theirs is a step of the journal or leaves it alone.
THEOREM SerialJournal ==
  ASSUME OneWorker
  PROVE  Spec => JournalSpec
<1> DEFINE journal == [d \in Deliveries |-> delivery[d].history]
<1>1. Init => Journal!Init
  <2> SUFFICES ASSUME Init PROVE Journal!Init
    OBVIOUS
  <2>1. /\ ScheduledDelivery.history = <<>>
        /\ StartAttempt(ScheduledDelivery).history
             = << <<"Scheduled", "Dispatching">> >>
    BY DEF ScheduledDelivery, StartAttempt, Move
  <2>2. \A d \in Deliveries :
          delivery[d] \in {ScheduledDelivery, StartAttempt(ScheduledDelivery)}
    BY DEF Init
  <2>3. \A d \in Deliveries : delivery[d].history \in Journal!HandedOver
    BY <2>1, <2>2 DEF Journal!HandedOver
  <2> QED
    BY <2>3 DEF Journal!Init
<1>2. ASSUME SInv, SInv', [Next]_vars
      PROVE  [Journal!Next]_journal
  <2>1. CASE delivery' = delivery
    BY <2>1
  <2>2. ASSUME NEW d \in Deliveries, DeliverySaved(d)
        PROVE  Journal!Record(d)
    <3>1. IsChain(delivery'[d].history)
      BY <1>2 DEF SInv, IInv, HistoryExplainsStatus, IsLawful
    <3>2. IsPrefixOf(delivery[d].history, delivery'[d].history)
      BY <2>2 DEF DeliverySaved
    <3>3. journal' = [journal EXCEPT ![d] = delivery'[d].history]
      BY <2>2 DEF DeliverySaved
    <3>4. journal[d] = delivery[d].history /\ journal'[d] = delivery'[d].history
      OBVIOUS
    <3>5. Journal!IsChain(delivery'[d].history)
      <4>1. Journal!Transition = Transition
        BY DEF Journal!Transition, Transition
      <4> QED
        BY <3>1, <4>1 DEF Journal!IsChain, IsChain
    <3>6. Journal!IsPrefixOf(delivery[d].history, delivery'[d].history)
      BY <3>2 DEF Journal!IsPrefixOf, IsPrefixOf
    <3> QED
      BY <3>3, <3>4, <3>5, <3>6 DEF Journal!Record
  <2> QED
    BY <1>2, <2>1, <2>2, DeliveryStep DEF Journal!Next
<1> QED
  BY <1>1, <1>2, SerialInvariance, PTL DEF Spec, JournalSpec, Journal!Spec

-----------------------------------------------------------------------------
(***************************************************************************)
(* The attempts of one worker, and what they cost.                         *)
(***************************************************************************)

\* What the copy c made for a request r has more than the delivery d that it
\* replaces.
IsGrown(r, c, d) ==
  /\ Grows(c, d, IF Starts(r) THEN 1 ELSE 0)
  /\ c.status # "Scheduled"
  /\ d.status = "Scheduled" => Starts(r)
  /\ r.use = "progress" => d.status = "Scheduled"

\* Whatever is dispatched will be saved.
CopyGrows(w) ==
  /\ pc[w] = "loaded" => SavesDelivery(req[w])
  /\ InHand(w) /\ SavesDelivery(req[w]) => IsGrown(req[w], rec[w], Loaded(w))

\* A retry that is being asked for follows a failure, so a first attempt, and
\* finds its plan unused.
RetryIsAskedLate(w) ==
  pc[w] \in {"ready", "staged"} /\ req[w].use = "requestRetry" =>
    /\ Loaded(w).status # "Scheduled"
    /\ pc[w] = "staged" => PlanOf(req[w]).version = 0

\* Nothing is stored as scheduled once it was attempted, and no plan is
\* made before that.
UnstartedAreNew ==
  \A d \in Deliveries :
    delivery[d].status = "Scheduled" =>
      /\ LastAttempt(delivery[d]) = 0
      /\ \A p \in PlanIds : plan[d][p] = UnbornPlan

UnbornPlansAreEmpty ==
  \A d \in Deliveries : \A p \in PlanIds :
    plan[d][p].version = 0 => plan[d][p] = UnbornPlan

AInv ==
  /\ PInv
  /\ \A w \in Workers : CopyGrows(w) /\ RetryIsAskedLate(w)
  /\ UnstartedAreNew
  /\ UnbornPlansAreEmpty

\* A dispatch that the backend accepted and no commit has recorded yet.
AcceptedInHand(w, d) ==
  /\ pc[w] \in {"ready", "staged"}
  /\ Starts(req[w])
  /\ SavesDelivery(req[w])
  /\ req[w].delivery = d
  /\ rec[w].status = "Delivered"

DispatchesAreAccounted ==
  \A d \in Deliveries :
    accepted[d] <= Cardinality(DeliveredAttempts(d)) + outages
                     + (IF \E w \in Workers : AcceptedInHand(w, d) THEN 1 ELSE 0)

\* A step that leaves the store alone has only the worker's hand to answer for.
LEMMA GrownHand ==
  ASSUME OneWorker, AInv, PInv', NEW w \in Workers, store' = store,
         CopyGrows(w)', RetryIsAskedLate(w)'
  PROVE  AInv'
<1>1. Workers = {w}
  BY DEF OneWorker
<1>2. UnstartedAreNew' /\ UnbornPlansAreEmpty'
  BY DEF AInv, store, UnstartedAreNew, UnbornPlansAreEmpty
<1> QED
  BY <1>1, <1>2 DEF AInv

\* A handler's copy has what it should when it is made.
LEMMA GrownWork ==
  ASSUME OneWorker, AInv, PInv', NEW w \in Workers, WorksOn(w)
  PROVE  AInv'
<1> DEFINE r == req[w]
           d == Loaded(w)
           c == CopyOf(r, d)
<1>1. /\ pc[w] = "received" /\ Accepts(r, d)
      /\ store' = store /\ req' = req
      /\ SavesDelivery(r) => rec'[w] = c
      /\ pc'[w] \in {"loaded", "ready"}
      /\ pc'[w] = "loaded" => SavesDelivery(r)
  BY HandlerWorks DEF Work, store, AInv, PInv, SInv, IInv, TypeOK
<1>2. /\ r \in Request /\ d \in DeliveryRecord /\ IsLawful(d) /\ IsSettled(d)
      /\ r.delivery \in Deliveries
  BY <1>1, LoadedDelivery DEF AInv, PInv, SInv
<1>3. d' = d
  BY <1>1 DEF Loaded, store
<1>4. d.status = "Scheduled" => LastAttempt(d) = 0
  BY <1>2 DEF AInv, UnstartedAreNew, Loaded
<1>5. SavesDelivery(r) => IsGrown(r, c, d)
  <2> HIDE DEF r, d
  <2>1. r.use = "progress" => d.status = "Scheduled"
    BY <1>1 DEF Accepts, CanStart
  <2> QED
    BY <1>1, <1>2, <1>4, <2>1, CopyIsMade DEF IsCopyFor, IsGrown
<1>6. CopyGrows(w)'
  BY <1>1, <1>3, <1>5 DEF CopyGrows
<1>7. RetryIsAskedLate(w)'
  <2>1. r.use = "requestRetry" => d.status # "Scheduled"
    BY <1>1 DEF Accepts, CanReschedule
  <2> QED
    BY <1>1, <1>3, <2>1 DEF RetryIsAskedLate
<1> QED
  BY <1>1, <1>6, <1>7, GrownHand

\* The backend's answer ends the attempt that was started, and no other.
LEMMA GrownDispatch ==
  ASSUME OneWorker, AInv, PInv', NEW w \in Workers,
         Dispatched(w) \/ DispatchFailed(w)
  PROVE  AInv'
<1> DEFINE c == rec[w]
           d == Loaded(w)
           e == rec'[w]
           r == req[w]
<1>1. /\ pc[w] = "loaded" /\ pc'[w] = "ready" /\ req' = req
      /\ store' = store /\ e \in {Deliver(c), FailAttempt(c)}
  BY DEF Dispatched, DispatchFailed, AInv, PInv, SInv, IInv, TypeOK
<1>2. /\ c \in DeliveryRecord /\ IsLawful(c) /\ IsSettled(c)
      /\ c.status = "Dispatching"
      /\ r.use \in {"progress", "retry"}
  BY <1>1 DEF AInv, PInv, SInv, IInv, TypeOK, CopiesAreLawful, InHand,
              DispatchesAreOpen
<1>3. d \in DeliveryRecord /\ d' = d
  BY <1>1, LoadedDelivery DEF AInv, PInv, SInv, Loaded, store
<1>4. SavesDelivery(r) => IsGrown(r, c, d)
  BY <1>1 DEF AInv, CopyGrows, InHand
<1> HIDE DEF c
<1>5. e \in DeliveryRecord /\ Grows(e, c, 0) /\ e.status # "Scheduled"
  BY <1>1, <1>2, EndCopy DEF GoodCopy
<1> HIDE DEF d, e, r
<1>6. SavesDelivery(r) => IsGrown(r, e, d)
  <2> SUFFICES ASSUME SavesDelivery(r) PROVE IsGrown(r, e, d)
    OBVIOUS
  <2>1. Grows(c, d, 1) /\ Starts(r)
    BY <1>2, <1>4 DEF IsGrown, Starts
  <2>2. Grows(e, d, 1 + 0)
    BY <1>2, <1>3, <1>5, <2>1, GrowsTwice
  <2> QED
    BY <1>4, <1>5, <2>1, <2>2 DEF IsGrown
<1>7. CopyGrows(w)'
  BY <1>1, <1>3, <1>6 DEF CopyGrows, d, e, r
<1>8. RetryIsAskedLate(w)'
  BY <1>1, <1>2 DEF RetryIsAskedLate, r
<1> QED
  BY <1>1, <1>7, <1>8, GrownHand

\* Taking, staging and putting down make no copy.
LEMMA GrownRest ==
  ASSUME OneWorker, AInv, PInv', NEW w \in Workers,
         Receive(w) \/ Stage(w) \/ Refuse(w) \/ CommitFails(w) \/ DropsAnswer(w)
  PROVE  AInv'
<1>1. store' = store
  BY HandlesLeaveStore DEF Handle
<1>2. CASE Stage(w)
  <2>1. /\ pc[w] = "ready" /\ pc'[w] = "staged" /\ req' = req /\ rec' = rec
        /\ req[w].use = "requestRetry" => PlanOf(req[w]).version = 0
    BY <1>2 DEF Stage, CanStage, PlanIsNew, AInv, PInv, SInv, IInv, TypeOK
  <2>2. CopyGrows(w)'
    BY <1>1, <2>1 DEF AInv, CopyGrows, InHand, Loaded, store
  <2>3. RetryIsAskedLate(w)'
    BY <1>1, <2>1 DEF AInv, RetryIsAskedLate, Loaded, PlanOf, store
  <2> QED
    BY <1>1, <2>2, <2>3, GrownHand
<1>3. CASE ~Stage(w)
  <2>1. pc'[w] \in {"idle", "received"}
    BY <1>3 DEF Receive, TakeProgress, TakeDeadLetter, TakeRetry,
       TakeRequestRetry, TakeFeedback, Take, Refuse, CommitFails, DropsAnswer,
       Finished,
       AInv, PInv, SInv, IInv, TypeOK
  <2> QED
    BY <1>1, <2>1, GrownHand DEF CopyGrows, RetryIsAskedLate, InHand
<1> QED
  BY <1>2, <1>3

\* The plan of a request is replaced by one that paid for n attempts more; its
\* delivery was attempted before.
PlanPays(r, n) ==
  \E q \in RetryPlan :
    /\ plan' = [plan EXCEPT ![r.delivery][r.plan] = q]
    /\ q.version > 0
    /\ q.budget - q.remaining = PlanOf(r).budget - PlanOf(r).remaining + n

\* Only the requests about a plan change one, and only the one that starts an
\* attempt takes it from the budget.
LEMMA PlansPay ==
  ASSUME AInv, NEW w \in Workers, Commit(w)
  PROVE  LET r == req[w] IN
         IF r.use \in {"retry", "requestRetry"}
           THEN /\ r.delivery \in Deliveries /\ r.plan \in PlanIds
                /\ delivery[r.delivery].status # "Scheduled"
                /\ PlanPays(r, IF SavesDelivery(r) THEN 1 ELSE 0)
           ELSE plan' = plan
<1> DEFINE r == req[w]
           p == r.seen
<1>1. pc[w] = "staged"
  BY CommitSaves
<1>2. /\ r \in Request /\ r.delivery \in Deliveries
      /\ r.use \in {"retry", "requestRetry"} => r.plan \in PlanIds
      /\ r.use = "retry" => p \in RetryPlan
      /\ r.use = "requestRetry" => r.budget \in Budgets
  BY <1>1, CommittedCopy, RequestFields DEF AInv, PInv, SInv
<1>3. r.use = "retry" =>
        /\ PlanOf(r) = p /\ p.status = "scheduled"
        /\ delivery[r.delivery].status # "Scheduled"
  <2>1. r.use = "retry" => PlanOf(r) = p /\ p.status = "scheduled"
    BY <1>1 DEF AInv, PInv, PlansInHand
  <2>2. UnbornPlan.status = "unborn"
    BY DEF UnbornPlan
  <2> QED
    BY <1>2, <2>1, <2>2 DEF AInv, UnstartedAreNew, PlanOf
<1>4. CASE CommitRetry(w)
  <2> DEFINE q == [p EXCEPT !.remaining = @ - 1, !.version = @ + 1]
  <2>1. /\ r.use = "retry" /\ SavesDelivery(r) /\ p.remaining > 0
        /\ plan' = [plan EXCEPT ![r.delivery][r.plan] = q]
    BY <1>4 DEF CommitRetry, Committing, SavePlan, SavesDelivery, IsSpent,
                HasRemaining
  <2>2. p \in RetryPlan
    BY <1>2, <2>1
  <2>3. q \in RetryPlan
    BY <2>1, <2>2, PlanTypes
  <2>4. /\ q.version = p.version + 1 /\ q.budget = p.budget
        /\ q.remaining = p.remaining - 1
        /\ p.version \in Nat /\ p.budget \in Nat /\ p.remaining \in Nat
    BY <2>2 DEF RetryPlan
  <2>5. q.budget - q.remaining = PlanOf(r).budget - PlanOf(r).remaining + 1
    BY <1>3, <2>1, <2>4
  <2>6. q.version > 0
    BY <2>4
  <2> HIDE DEF q, p, r
  <2>7. PlanPays(r, 1)
    BY <2>1, <2>3, <2>5, <2>6 DEF PlanPays
  <2> QED
    BY <1>2, <1>3, <2>1, <2>7 DEF r
<1>5. CASE CommitExhaust(w)
  <2> DEFINE q == [p EXCEPT !.status = "exhausted", !.version = @ + 1]
  <2>1. /\ r.use = "retry" /\ ~SavesDelivery(r)
        /\ plan' = [plan EXCEPT ![r.delivery][r.plan] = q]
    BY <1>5 DEF CommitExhaust, Committing, SavePlan, SavesDelivery
  <2>2. p \in RetryPlan
    BY <1>2, <2>1
  <2>3. q \in RetryPlan
    BY <2>2, PlanTypes
  <2>4. /\ q.version = p.version + 1 /\ q.budget = p.budget
        /\ q.remaining = p.remaining
        /\ p.version \in Nat /\ p.budget \in Nat /\ p.remaining \in Nat
    BY <2>2 DEF RetryPlan
  <2>5. q.budget - q.remaining = PlanOf(r).budget - PlanOf(r).remaining + 0
    BY <1>3, <2>1, <2>4
  <2>6. q.version > 0
    BY <2>4
  <2> HIDE DEF q, p, r
  <2>7. PlanPays(r, 0)
    BY <2>1, <2>3, <2>5, <2>6 DEF PlanPays
  <2> QED
    BY <1>2, <1>3, <2>1, <2>7 DEF r
<1>6. CASE CommitRequestRetry(w)
  <2> DEFINE q == [budget |-> r.budget, remaining |-> r.budget,
                   status |-> "scheduled", version |-> 1]
  <2>1. /\ r.use = "requestRetry" /\ ~SavesDelivery(r)
        /\ plan' = [plan EXCEPT ![r.delivery][r.plan] = q]
    BY <1>6 DEF CommitRequestRetry, Committing, SavePlan, SavesDelivery
  <2>2. r.budget \in Nat
    BY <1>2, <2>1, BudgetsAssumption
  <2>3. q \in RetryPlan
    BY <2>2 DEF RetryPlan
  <2>4. /\ delivery[r.delivery].status # "Scheduled"
        /\ PlanOf(r).version = 0
    BY <1>1, <2>1 DEF AInv, RetryIsAskedLate, Loaded
  <2>5. PlanOf(r) = UnbornPlan
    BY <1>2, <2>1, <2>4 DEF AInv, UnbornPlansAreEmpty, PlanOf
  <2>6. q.budget - q.remaining = PlanOf(r).budget - PlanOf(r).remaining + 0
    BY <2>2, <2>5 DEF UnbornPlan
  <2>7. q.version > 0
    OBVIOUS
  <2> HIDE DEF q, r
  <2>8. PlanPays(r, 0)
    BY <2>1, <2>3, <2>6, <2>7 DEF PlanPays
  <2> QED
    BY <1>2, <2>1, <2>4, <2>8 DEF r
<1>7. CASE CommitProgress(w) \/ CommitFeedback(w) \/ CommitDeadLetter(w)
  <2>1. r.use \notin {"retry", "requestRetry"} /\ plan' = plan
    BY <1>7 DEF CommitProgress, CommitFeedback, CommitDeadLetter, Committing,
                FeedbackUse
  <2> QED
    BY <2>1
<1> QED
  BY <1>4, <1>5, <1>6, <1>7 DEF Commit

\* What is committed has been attempted.
LEMMA GrownCommit ==
  ASSUME OneWorker, AInv, PInv', NEW w \in Workers, Commit(w)
  PROVE  AInv'
<1> DEFINE r == req[w]
<1>1. /\ pc[w] = "staged" /\ pc'[w] = "idle"
      /\ r.delivery \in Deliveries
      /\ plan \in [Deliveries -> [PlanIds -> RetryPlan]]
  BY CommitSaves, CommittedCopy
     DEF Finished, AInv, PInv, SInv, IInv, TypeOK
<1>2. \A v \in Workers : CopyGrows(v)' /\ RetryIsAskedLate(v)'
  BY <1>1 DEF OneWorker, CopyGrows, RetryIsAskedLate, InHand
<1>3. /\ \A d \in Deliveries \ {r.delivery} :
           delivery'[d] = delivery[d] /\ plan'[d] = plan[d]
      /\ delivery'[r.delivery].status = "Scheduled" =>
           delivery' = delivery /\ plan' = plan
  <2>1. \/ plan' = plan
        \/ /\ delivery[r.delivery].status # "Scheduled"
           /\ \A d \in Deliveries \ {r.delivery} : plan'[d] = plan[d]
    BY <1>1, PlansPay DEF PlanPays
  <2>2. CASE SavesDelivery(r)
    <3>1. SaveDelivery(w) /\ IInv
      BY <2>2, CommitSaves DEF AInv, PInv, SInv
    <3>2. /\ \A d \in Deliveries \ {r.delivery} : delivery'[d] = delivery[d]
          /\ delivery'[r.delivery].status = rec[w].status
      BY <1>1, <3>1, SavedDelivery
    <3>3. rec[w].status # "Scheduled"
      BY <1>1, <2>2 DEF AInv, CopyGrows, IsGrown, InHand
    <3> QED
      BY <2>1, <3>2, <3>3
  <2>3. CASE ~SavesDelivery(r)
    <3>1. delivery' = delivery
      BY <2>3, CommitSaves
    <3> QED
      BY <2>1, <3>1
  <2> QED
    BY <2>2, <2>3
<1>4. UnstartedAreNew'
  BY <1>3 DEF AInv, UnstartedAreNew
<1>5. UnbornPlansAreEmpty'
  <2>1. CASE plan' = plan
    BY <2>1 DEF AInv, UnbornPlansAreEmpty
  <2>2. CASE plan' # plan
    <3>1. r.plan \in PlanIds /\ \E n : PlanPays(r, n)
      BY <2>2, PlansPay
    <3>2. PICK q \in RetryPlan :
            plan' = [plan EXCEPT ![r.delivery][r.plan] = q] /\ q.version > 0
      BY <3>1 DEF PlanPays
    <3>3. ASSUME NEW d \in Deliveries, NEW p \in PlanIds
          PROVE  plan'[d][p] = plan[d][p] \/ plan'[d][p] = q
      BY <1>1, <3>1, <3>2
    <3> QED
      BY <3>2, <3>3 DEF AInv, UnbornPlansAreEmpty, RetryPlan
  <2> QED
    BY <2>1, <2>2
<1> QED
  BY <1>2, <1>4, <1>5 DEF AInv

LEMMA NextAInv ==
  ASSUME OneWorker
  PROVE  AInv /\ [Next]_vars => AInv'
<1> SUFFICES ASSUME AInv, [Next]_vars PROVE AInv'
  OBVIOUS
<1>1. PInv'
  BY NextPInv DEF AInv
<1>2. CASE UNCHANGED vars
  BY <1>1, <1>2 DEF vars, store, AInv, CopyGrows, RetryIsAskedLate, InHand,
     Loaded, PlanOf, UnstartedAreNew, UnbornPlansAreEmpty
<1> QED
  BY <1>1, <1>2, GrownRest, GrownWork, GrownDispatch, GrownCommit
     DEF Next, Handle, WorksOn

LEMMA AInvariance ==
  ASSUME OneWorker
  PROVE  Spec => []AInv
<1>1. Init /\ SInv => AInv
  <2> SUFFICES ASSUME Init, SInv PROVE AInv
    OBVIOUS
  <2>1. PInv
    BY NoneAssumption DEF Init, PInv, OneActivePlan, PlansInHand, UnbornPlan
  <2>2. StartAttempt(ScheduledDelivery).status # "Scheduled"
    BY DEF StartAttempt, Move, ScheduledDelivery
  <2>3. LastAttempt(ScheduledDelivery) = 0
    BY DEF ScheduledDelivery, LastAttempt
  <2>4. UnstartedAreNew /\ UnbornPlansAreEmpty
    BY <2>2, <2>3 DEF Init, UnstartedAreNew, UnbornPlansAreEmpty
  <2> QED
    BY <2>1, <2>4 DEF Init, AInv, CopyGrows, RetryIsAskedLate, InHand
<1> QED
  BY <1>1, NextAInv, SerialInvariance, PTL DEF Spec

\* A delivery without plans has paid for nothing.
LEMMA NothingSpent ==
  ASSUME IsFiniteSet(PlanIds), NEW d, \A p \in PlanIds : plan[d][p] = UnbornPlan
  PROVE  Spent(d) = 0
<1> DEFINE paid == [p \in PlanIds |-> plan[d][p].budget - plan[d][p].remaining]
<1>1. \A p \in PlanIds : paid[p] = 0
  BY DEF UnbornPlan
<1>2. paid \in [PlanIds -> Int] /\ Spent(d) = SumFunction(paid)
  BY <1>1 DEF Spent
<1> HIDE DEF paid
<1> QED
  BY <1>1, <1>2, SumIsInteger

\* What a commit does to the delivery and to the plans it is about.
LEMMA CommitPays ==
  ASSUME IsFiniteSet(PlanIds), AInv, PInv', NEW w \in Workers, Commit(w)
  PROVE  LET r == req[w]
             d == r.delivery
         IN  /\ d \in Deliveries
             /\ \A e \in Deliveries \ {d} : delivery'[e] = delivery[e]
             /\ \A e \in Deliveries :
                  /\ Spent(e) \in Int
                  /\ Spent(e)' = Spent(e) +
                       (IF e = d /\ r.use = "retry" /\ SavesDelivery(r)
                          THEN 1 ELSE 0)
<1> DEFINE r == req[w]
           d == r.delivery
           paid(e) == [p \in PlanIds |->
                         plan[e][p].budget - plan[e][p].remaining]
           after(e) == [p \in PlanIds |->
                          plan'[e][p].budget - plan'[e][p].remaining]
           n == IF r.use = "retry" /\ SavesDelivery(r) THEN 1 ELSE 0
<1>1. /\ pc[w] = "staged" /\ d \in Deliveries
      /\ plan \in [Deliveries -> [PlanIds -> RetryPlan]]
      /\ plan' \in [Deliveries -> [PlanIds -> RetryPlan]]
  BY CommitSaves, CommittedCopy DEF AInv, PInv, SInv, IInv, TypeOK
<1>2. ASSUME NEW e \in Deliveries
      PROVE  /\ paid(e) \in [PlanIds -> Int] /\ after(e) \in [PlanIds -> Int]
             /\ Spent(e) = SumFunction(paid(e))
             /\ Spent(e)' = SumFunction(after(e))
             /\ Spent(e) \in Int
  <2>1. \A p \in PlanIds : /\ plan[e][p] \in RetryPlan
                           /\ plan'[e][p] \in RetryPlan
    BY <1>1
  <2>2. paid(e) \in [PlanIds -> Int] /\ after(e) \in [PlanIds -> Int]
    BY <2>1 DEF RetryPlan
  <2>3. Spent(e) = SumFunction(paid(e)) /\ Spent(e)' = SumFunction(after(e))
    BY DEF Spent
  <2> HIDE DEF paid, after
  <2>4. SumFunction(paid(e)) \in Int
    BY <2>2, SumIsInteger
  <2> QED
    BY <2>2, <2>3, <2>4
<1>3. ASSUME NEW e \in Deliveries \ {d}
      PROVE  delivery'[e] = delivery[e] /\ Spent(e)' = Spent(e)
  <2>1. delivery'[e] = delivery[e]
    BY CommitSaves DEF SaveDelivery, AInv, PInv, SInv, IInv, TypeOK
  <2>2. plan'[e] = plan[e]
    BY <1>1, PlansPay DEF PlanPays
  <2>3. paid(e) = after(e)
    BY <2>2
  <2> QED
    BY <1>2, <2>1, <2>3
<1>4. ASSUME NEW e \in Deliveries, e = d
      PROVE  Spent(e)' = Spent(e) + n
  <2>1. CASE r.use \in {"retry", "requestRetry"}
    <3>1. r.plan \in PlanIds /\ PlanPays(r, IF SavesDelivery(r) THEN 1 ELSE 0)
      BY <2>1, PlansPay
    <3>2. SavesDelivery(r) => r.use = "retry"
      BY <2>1 DEF SavesDelivery
    <3>3. PICK q \in RetryPlan :
            /\ plan' = [plan EXCEPT ![d][r.plan] = q]
            /\ q.budget - q.remaining
                 = PlanOf(r).budget - PlanOf(r).remaining
                     + (IF SavesDelivery(r) THEN 1 ELSE 0)
      BY <3>1 DEF PlanPays
    <3>4. /\ plan'[e][r.plan] = q
          /\ \A p \in PlanIds \ {r.plan} : plan'[e][p] = plan[e][p]
      BY <1>1, <1>4, <3>1, <3>3
    <3>5. \A p \in PlanIds \ {r.plan} : after(e)[p] = paid(e)[p]
      BY <3>4
    <3>6. after(e)[r.plan] = paid(e)[r.plan] + n
      BY <1>4, <3>1, <3>2, <3>3, <3>4 DEF PlanOf
    <3>7. paid(e) \in [PlanIds -> Int] /\ after(e) \in [PlanIds -> Int]
      BY <1>1, <1>2
    <3> HIDE DEF paid, after
    <3>8. SumFunction(after(e)) =
            SumFunction(paid(e)) + (after(e)[r.plan] - paid(e)[r.plan])
      BY <3>1, <3>5, <3>7, SumChanges
    <3>9. after(e)[r.plan] \in Int /\ paid(e)[r.plan] \in Int
          /\ SumFunction(paid(e)) \in Int
      BY <1>1, <1>2, <3>1, <3>7
    <3>10. n \in Int
      OBVIOUS
    <3> HIDE DEF n, d
    <3>11. SumFunction(after(e)) = SumFunction(paid(e)) + n
      BY <3>6, <3>8, <3>9, <3>10
    <3>12. Spent(e) = SumFunction(paid(e)) /\ Spent(e)' = SumFunction(after(e))
      BY <1>2
    <3> QED
      BY <3>11, <3>12
  <2>2. CASE r.use \notin {"retry", "requestRetry"}
    <3>1. plan' = plan /\ n = 0
      BY <2>2, PlansPay
    <3>2. paid(e) = after(e)
      BY <3>1
    <3> HIDE DEF n, d, paid, after
    <3> QED
      BY <1>2, <3>1, <3>2
  <2> QED
    BY <2>1, <2>2
<1>5. ASSUME NEW e \in Deliveries
      PROVE  Spent(e) \in Int /\ Spent(e)' = Spent(e) + (IF e = d THEN n ELSE 0)
  <2>1. Spent(e) \in Int
    BY <1>2
  <2> HIDE DEF n, d
  <2> QED
    BY <1>3, <1>4, <2>1
<1>6. \A e \in Deliveries \ {d} : delivery'[e] = delivery[e]
  BY <1>3
<1> QED
  BY <1>1, <1>5, <1>6

LEMMA PaidCommit ==
  ASSUME OneWorker, IsFiniteSet(PlanIds), AInv, AttemptsArePaidFor, PInv',
         NEW w \in Workers, Commit(w)
  PROVE  AttemptsArePaidFor'
<1> DEFINE r == req[w]
           d == r.delivery
           Holds(e) == LastAttempt(delivery'[e]) =
                         IF delivery'[e].status = "Scheduled"
                           THEN 0 ELSE 1 + Spent(e)'
<1>1. /\ d \in Deliveries
      /\ \A e \in Deliveries \ {d} : delivery'[e] = delivery[e]
      /\ \A e \in Deliveries :
           /\ Spent(e) \in Int
           /\ Spent(e)' = Spent(e) +
                (IF e = d /\ r.use = "retry" /\ SavesDelivery(r)
                   THEN 1 ELSE 0)
  BY CommitPays
<1>2. ASSUME NEW e \in Deliveries, e # d
      PROVE  Holds(e)
  <2>1. delivery'[e] = delivery[e] /\ Spent(e)' = Spent(e)
    BY <1>1, <1>2
  <2> QED
    BY <2>1 DEF AttemptsArePaidFor
<1>3. CASE ~SavesDelivery(r)
  <2>1. delivery' = delivery
    BY <1>3, CommitSaves
  <2> QED
    BY <1>1, <1>3, <2>1 DEF AttemptsArePaidFor
<1>4. CASE SavesDelivery(r)
  <2>1. pc[w] = "staged" /\ SaveDelivery(w) /\ IInv
    BY <1>4, CommitSaves DEF AInv, PInv, SInv
  <2>2. /\ delivery'[d].status = rec[w].status
        /\ LastAttempt(delivery'[d]) = LastAttempt(rec[w])
    BY <2>1, SavedDelivery
  <2>3. IsGrown(r, rec[w], delivery[d])
    BY <1>4, <2>1 DEF AInv, CopyGrows, InHand, Loaded
  <2>4. /\ delivery'[d].status # "Scheduled"
        /\ LastAttempt(delivery'[d]) =
             LastAttempt(delivery[d]) + (IF Starts(r) THEN 1 ELSE 0)
        /\ delivery[d].status = "Scheduled" => Starts(r)
        /\ r.use = "progress" => delivery[d].status = "Scheduled"
    BY <2>2, <2>3 DEF IsGrown, Grows
  <2>5. LastAttempt(delivery[d]) =
          IF delivery[d].status = "Scheduled" THEN 0 ELSE 1 + Spent(d)
    BY <1>1 DEF AttemptsArePaidFor
  <2>6. r.use = "retry" => delivery[d].status # "Scheduled"
    BY PlansPay
  <2>7. delivery[d].status = "Scheduled" => Spent(d) = 0
    BY <1>1, NothingSpent DEF AInv, UnstartedAreNew
  <2>8. ASSUME NEW e \in Deliveries, e = d
        PROVE  Holds(e)
    <3>1. Spent(e) \in Int /\ Spent(e)' = Spent(e) +
            (IF r.use = "retry" THEN 1 ELSE 0)
      BY <1>1, <1>4, <2>8
    <3> HIDE DEF d, r
    <3> QED
      BY <2>4, <2>5, <2>6, <2>7, <2>8, <3>1 DEF Starts
  <2> QED
    BY <1>2, <2>8 DEF AttemptsArePaidFor
<1> QED
  BY <1>3, <1>4

\* With one worker every attempt after the first was paid for from the budget
\* of a retry plan, and every payment bought an attempt (the retry cycle of
\* services/delivery.rs saves the plan and the delivery in one unit of work),
\* for any number of deliveries, plans and attempts.
THEOREM SerialAttemptsArePaidFor ==
  ASSUME OneWorker, IsFiniteSet(PlanIds)
  PROVE  Spec => []AttemptsArePaidFor
<1>1. Init => AttemptsArePaidFor
  <2> SUFFICES ASSUME Init, NEW d \in Deliveries
               PROVE  LastAttempt(delivery[d]) =
                        IF delivery[d].status = "Scheduled" THEN 0
                                                           ELSE 1 + Spent(d)
    BY DEF AttemptsArePaidFor
  <2>1. Spent(d) = 0
    BY NothingSpent DEF Init
  <2>2. delivery[d] \in {ScheduledDelivery, StartAttempt(ScheduledDelivery)}
    BY DEF Init
  <2>3. /\ LastAttempt(ScheduledDelivery) = 0
        /\ LastAttempt(StartAttempt(ScheduledDelivery)) = 1
        /\ ScheduledDelivery.status = "Scheduled"
        /\ StartAttempt(ScheduledDelivery).status # "Scheduled"
    BY DEF ScheduledDelivery, StartAttempt, Move, LastAttempt
  <2> QED
    BY <2>1, <2>2, <2>3
<1>2. AInv /\ AInv' /\ AttemptsArePaidFor /\ [Next]_vars => AttemptsArePaidFor'
  <2> SUFFICES ASSUME AInv, AInv', AttemptsArePaidFor, [Next]_vars
               PROVE  AttemptsArePaidFor'
    OBVIOUS
  <2>1. CASE store' = store
    BY <2>1 DEF store, AttemptsArePaidFor, Spent
  <2>2. CASE store' # store
    <3>1. PICK w \in Workers : Commit(w)
      BY <2>2, HandlesLeaveStore DEF Next, vars, store
    <3>2. PInv'
      BY DEF AInv
    <3> QED
      BY <3>1, <3>2, PaidCommit
  <2> QED
    BY <2>1, <2>2
<1> QED
  BY <1>1, <1>2, AInvariance, PTL DEF Spec

-----------------------------------------------------------------------------
(***************************************************************************)
(* The dispatches of one worker.                                           *)
(***************************************************************************)
DeliveredIn(x) == {n \in DOMAIN x.attempts : x.attempts[n] = "delivered"}

\* A copy keeps the attempts that were delivered, and one more that was
\* started and delivered counts.
LEMMA DeliveredGrow ==
  ASSUME NEW c \in DeliveryRecord, NEW d \in DeliveryRecord, NEW n \in Nat,
         Grows(c, d, n)
  PROVE  /\ Cardinality(DeliveredIn(c)) \in Nat
         /\ Cardinality(DeliveredIn(d)) \in Nat
         /\ Cardinality(DeliveredIn(d)) <= Cardinality(DeliveredIn(c))
         /\ n > 0 /\ c.attempts[LastAttempt(c)] = "delivered" =>
              Cardinality(DeliveredIn(d)) + 1 <= Cardinality(DeliveredIn(c))
<1> DEFINE C == DeliveredIn(c)
           D == DeliveredIn(d)
           last == LastAttempt(c)
<1>1. /\ DOMAIN c.attempts = 1 .. last /\ last \in Nat
      /\ DOMAIN d.attempts = 1 .. LastAttempt(d) /\ LastAttempt(d) \in Nat
      /\ last = LastAttempt(d) + n
  BY DEF DeliveryRecord, LastAttempt, Grows
<1>2. IsFiniteSet(C) /\ IsFiniteSet(D)
  <2>1. C \in SUBSET (1 .. last) /\ D \in SUBSET (1 .. LastAttempt(d))
    BY <1>1 DEF DeliveredIn
  <2>2. IsFiniteSet(1 .. last) /\ IsFiniteSet(1 .. LastAttempt(d))
    BY <1>1, FS_Interval
  <2> QED
    BY <2>1, <2>2, FS_Subset
<1>3. D \subseteq C
  BY <1>1 DEF DeliveredIn, Grows
<1>4. n > 0 /\ c.attempts[last] = "delivered" =>
        D \cup {last} \subseteq C /\ last \notin D
  BY <1>1, <1>3 DEF DeliveredIn
<1> HIDE DEF C, D, last
<1>5. Cardinality(C) \in Nat /\ Cardinality(D) \in Nat
  BY <1>2, FS_CardinalityType
<1>6. Cardinality(D) <= Cardinality(C)
  BY <1>2, <1>3, FS_Subset
<1>7. ASSUME n > 0, c.attempts[last] = "delivered"
      PROVE  Cardinality(D) + 1 <= Cardinality(C)
  <2>1. Cardinality(D \cup {last}) = Cardinality(D) + 1
    BY <1>2, <1>4, <1>7, FS_AddElement
  <2>2. Cardinality(D \cup {last}) <= Cardinality(C)
    BY <1>2, <1>4, <1>7, FS_Subset
  <2> QED
    BY <2>1, <2>2
<1> QED
  BY <1>5, <1>6, <1>7 DEF C, D, last

\* A dispatch in hand is staged: its delivery and its plan are as they were
\* loaded.
LEMMA AcceptedCanStage ==
  ASSUME AInv, NEW w \in Workers, NEW d, AcceptedInHand(w, d)
  PROVE  CanStage(w)
<1> DEFINE r == req[w]
<1>1. VersionHolds(w)
  BY DEF AcceptedInHand, AInv, PInv, SInv, CopiesAreFresh, InHand, Extends,
         VersionHolds
<1>2. ASSUME r.use = "retry"
      PROVE  PlanHolds(r)
  <2>1. r \in Request /\ r.delivery \in Deliveries /\ r.plan \in PlanIds
    BY <1>2, LoadedDelivery, RequestFields
       DEF AcceptedInHand, AInv, PInv, SInv
  <2>2. PlanOf(r) = r.seen /\ r.seen.status = "scheduled"
    BY <1>2 DEF AcceptedInHand, AInv, PInv, PlansInHand
  <2> QED
    BY <1>2, <2>1, <2>2 DEF PlanHolds, PlanOf, AInv, PInv, OneActivePlan
<1> QED
  BY <1>1, <1>2 DEF AcceptedInHand, Starts, CanStage, FeedbackIsNew, FeedbackUse,
                    PlanIsNew, PlanHolds, DeadLetterIsNew

\* Nothing the handlers, the failing commits and the answers thrown away do lets
\* the backend accept a delivery more often than the bound allows.
LEMMA AccountedHand ==
  ASSUME OneWorker, AInv, AInv', DispatchesAreAccounted, NEW w \in Workers,
         Receive(w) \/ Handle(w) \/ CommitFails(w) \/ DropsAnswer(w)
  PROVE  DispatchesAreAccounted'
<1> SUFFICES ASSUME NEW d \in Deliveries
             PROVE  (accepted[d] <= Cardinality(DeliveredAttempts(d)) + outages
                       + (IF \E v \in Workers : AcceptedInHand(v, d)
                            THEN 1 ELSE 0))'
  BY DEF DispatchesAreAccounted
<1>1. /\ Workers = {w} /\ store' = store
      /\ accepted \in [Deliveries -> Nat] /\ outages \in Nat
      /\ pc \in [Workers -> {"idle", "received", "loaded", "ready", "staged"}]
      /\ req \in [Workers -> Request \cup {NoRequest}]
      /\ rec \in [Workers -> DeliveryRecord]
      /\ DeliveredAttempts(d)' = DeliveredAttempts(d)
  <2>1. store' = store
    BY HandlesLeaveStore
  <2> QED
    BY <2>1, BoundsAssumption
       DEF OneWorker, store, DeliveredAttempts, AInv, PInv, SInv, IInv, TypeOK
<1>2. Cardinality(DeliveredAttempts(d)) \in Nat
  <2>1. delivery[d] \in DeliveryRecord
    BY DEF AInv, PInv, SInv, IInv, TypeOK
  <2>2. Grows(delivery[d], delivery[d], 0)
    BY <2>1 DEF Grows, LastAttempt, DeliveryRecord
  <2> QED
    BY <2>1, <2>2, DeliveredGrow DEF DeliveredIn, DeliveredAttempts
<1>3. accepted[d] <= Cardinality(DeliveredAttempts(d)) + outages
                       + (IF AcceptedInHand(w, d) THEN 1 ELSE 0)
  BY <1>1 DEF DispatchesAreAccounted
<1>4. \/ /\ accepted'[d] = accepted[d] /\ outages' = outages
         /\ AcceptedInHand(w, d) => AcceptedInHand(w, d)'
      \/ /\ accepted'[d] \in {accepted[d], accepted[d] + 1}
         /\ outages' = outages + 1 /\ ~AcceptedInHand(w, d)
      \/ /\ accepted'[d] = accepted[d] /\ outages' = outages + 1
      \/ /\ accepted'[d] = accepted[d] + 1 /\ outages' = outages
         /\ ~AcceptedInHand(w, d) /\ AcceptedInHand(w, d)'
  <2>1. CASE Receive(w) \/ WorksOn(w)
    <3>1. accepted' = accepted /\ outages' = outages /\ pc[w] \in {"idle", "received"}
      BY <2>1, HandlerWorks DEF Receive, TakeProgress, TakeDeadLetter, TakeRetry,
         TakeRequestRetry, TakeFeedback, Take, Work
    <3> QED
      BY <3>1 DEF AcceptedInHand
  <2>2. CASE Dispatched(w)
    <3>1. /\ pc[w] = "loaded" /\ pc'[w] = "ready" /\ req' = req
          /\ rec'[w] = Deliver(rec[w]) /\ outages' = outages
          /\ accepted' = [accepted EXCEPT ![req[w].delivery] = @ + 1]
      BY <1>1, <2>2 DEF Dispatched
    <3>2. Starts(req[w]) /\ SavesDelivery(req[w]) /\ rec[w] \in DeliveryRecord
      BY <1>1, <3>1 DEF AInv, CopyGrows, PInv, SInv, IInv, DispatchesAreOpen,
                        Starts
    <3>3. Deliver(rec[w]).status = "Delivered"
      BY <3>2 DEF Deliver, Move, Finish, DeliveryRecord
    <3>4. CASE req[w].delivery = d
      BY <1>1, <3>1, <3>2, <3>3, <3>4 DEF AcceptedInHand, SavesDelivery, IsSpent
    <3>5. CASE req[w].delivery # d
      BY <1>1, <3>1, <3>5 DEF AcceptedInHand
    <3> QED
      BY <3>4, <3>5
  <2>3. CASE DispatchFailed(w)
    BY <2>3 DEF DispatchFailed, AcceptedInHand
  <2>4. CASE Stage(w)
    BY <1>1, <2>4 DEF Stage, AcceptedInHand
  <2>5. CASE Refuse(w)
    <3>1. ~AcceptedInHand(w, d)
      <4> SUFFICES ASSUME AcceptedInHand(w, d) PROVE FALSE
        OBVIOUS
      <4>1. CanStage(w)
        BY AcceptedCanStage
      <4> QED
        BY <2>5, <4>1 DEF Refuse, AcceptedInHand, Starts
    <3> QED
      BY <2>5, <3>1 DEF Refuse
  <2>6. CASE CommitFails(w)
    BY <2>6 DEF CommitFails
  <2>7. CASE DropsAnswer(w)
    BY <1>1, <2>7 DEF DropsAnswer, AcceptedInHand
  <2> QED
    BY <2>1, <2>2, <2>3, <2>4, <2>5, <2>6, <2>7 DEF Handle, WorksOn
<1>5. accepted[d] \in Nat
  BY <1>1
<1>6. /\ accepted'[d] <= Cardinality(DeliveredAttempts(d)) + outages'
                       + (IF AcceptedInHand(w, d)' THEN 1 ELSE 0)
  BY <1>1, <1>2, <1>3, <1>4, <1>5
<1> QED
  BY <1>1, <1>6

\* A commit records the dispatch that was in hand.
LEMMA AccountedCommit ==
  ASSUME OneWorker, AInv, AInv', DispatchesAreAccounted, NEW w \in Workers,
         Commit(w)
  PROVE  DispatchesAreAccounted'
<1> SUFFICES ASSUME NEW d \in Deliveries
             PROVE  (accepted[d] <= Cardinality(DeliveredAttempts(d)) + outages
                       + (IF \E v \in Workers : AcceptedInHand(v, d)
                            THEN 1 ELSE 0))'
  BY DEF DispatchesAreAccounted
<1> DEFINE r == req[w]
           x == delivery[d]
           y == delivery'[d]
<1>1. /\ Workers = {w} /\ pc[w] = "staged" /\ r.delivery \in Deliveries
      /\ accepted' = accepted /\ outages' = outages
      /\ accepted[d] \in Nat /\ outages \in Nat
      /\ rec[w] \in DeliveryRecord /\ x \in DeliveryRecord /\ y \in DeliveryRecord
      /\ delivery \in [Deliveries -> DeliveryRecord]
  BY CommitSaves, CommittedCopy, BoundsAssumption
     DEF OneWorker, Commit, CommitProgress, CommitFeedback, CommitRetry,
         CommitExhaust, CommitRequestRetry, CommitDeadLetter, Committing,
         AInv, PInv, SInv, IInv, TypeOK
<1>2. accepted[d] <= Cardinality(DeliveredIn(x)) + outages
                       + (IF AcceptedInHand(w, d) THEN 1 ELSE 0)
  BY <1>1 DEF DispatchesAreAccounted, DeliveredAttempts, DeliveredIn
<1>3. CASE SavesDelivery(r) /\ r.delivery = d
  <2> DEFINE n == IF Starts(r) THEN 1 ELSE 0
  <2>1. y = [rec[w] EXCEPT !.version = @ + 1]
    BY <1>1, <1>3, CommitSaves DEF SaveDelivery
  <2>2. Grows(rec[w], x, n)
    BY <1>1, <1>3 DEF AInv, CopyGrows, IsGrown, InHand, Loaded
  <2>3. y.attempts = rec[w].attempts /\ y.history = rec[w].history
    BY <1>1, <2>1 DEF DeliveryRecord
  <2>4. Grows(y, x, n)
    BY <2>2, <2>3 DEF Grows, LastAttempt, IsCounted
  <2>5. AcceptedInHand(w, d) => n > 0 /\ y.attempts[LastAttempt(y)] = "delivered"
    <3>1. IsSettled(rec[w])
      BY <1>1, CommittedCopy DEF AInv, PInv, SInv
    <3> QED
      BY <2>3, <3>1 DEF AcceptedInHand, IsSettled, LastAttempt
  <2> HIDE DEF x, y, n
  <2>6. n \in Nat
    BY DEF n
  <2>7. /\ Cardinality(DeliveredIn(y)) \in Nat
        /\ Cardinality(DeliveredIn(x)) \in Nat
        /\ Cardinality(DeliveredIn(x)) <= Cardinality(DeliveredIn(y))
        /\ AcceptedInHand(w, d) =>
             Cardinality(DeliveredIn(x)) + 1 <= Cardinality(DeliveredIn(y))
    BY <1>1, <2>4, <2>5, <2>6, DeliveredGrow
  <2>8. accepted[d] <= Cardinality(DeliveredIn(y)) + outages
    BY <1>1, <1>2, <2>7
  <2> QED
    BY <1>1, <2>7, <2>8 DEF DeliveredAttempts, DeliveredIn, y
<1>4. CASE ~(SavesDelivery(r) /\ r.delivery = d)
  <2>1. y = x
    BY <1>1, <1>4, CommitSaves DEF SaveDelivery
  <2>2. ~AcceptedInHand(w, d)
    BY <1>4 DEF AcceptedInHand
  <2>3. Cardinality(DeliveredIn(x)) \in Nat
    <3>1. Grows(x, x, 0)
      BY <1>1 DEF Grows, LastAttempt, DeliveryRecord
    <3> HIDE DEF x
    <3> QED
      BY <1>1, <3>1, DeliveredGrow
  <2> QED
    BY <1>1, <1>2, <2>1, <2>2, <2>3 DEF DeliveredAttempts, DeliveredIn
<1> QED
  BY <1>3, <1>4

\* With one worker the backend accepts a delivery once for every attempt that
\* is recorded delivered, but for the commits that failed and the dispatch in
\* progress (the progression and retry cycles of services/delivery.rs dispatch
\* before they commit), for any number of deliveries, retries and outages.
THEOREM SerialNoNeedlessDispatch ==
  ASSUME OneWorker
  PROVE  Spec => []NoNeedlessDispatch
<1>1. Init => DispatchesAreAccounted
  <2> SUFFICES ASSUME Init, NEW d \in Deliveries
               PROVE  0 <= Cardinality(DeliveredAttempts(d)) + 0
                            + (IF \E w \in Workers : AcceptedInHand(w, d)
                                 THEN 1 ELSE 0)
    BY DEF Init, DispatchesAreAccounted
  <2>1. DeliveredAttempts(d) = {}
    <3>1. delivery[d] \in {ScheduledDelivery, StartAttempt(ScheduledDelivery)}
      BY DEF Init
    <3>2. /\ ScheduledDelivery.attempts = <<>>
          /\ StartAttempt(ScheduledDelivery).attempts = <<"open">>
      BY DEF ScheduledDelivery, StartAttempt, Move
    <3> QED
      BY <3>1, <3>2 DEF DeliveredAttempts
  <2> QED
    BY <2>1, FS_EmptySet
<1>2. AInv /\ AInv' /\ DispatchesAreAccounted /\ [Next]_vars
        => DispatchesAreAccounted'
  <2>1. CASE UNCHANGED vars
    BY <2>1 DEF vars, store, DispatchesAreAccounted, DeliveredAttempts,
                AcceptedInHand
  <2> QED
    BY <2>1, AccountedHand, AccountedCommit DEF Next
<1>3. AInv /\ DispatchesAreAccounted => NoNeedlessDispatch
  <2> SUFFICES ASSUME AInv, DispatchesAreAccounted, NEW d \in Deliveries
               PROVE  accepted[d] <= Cardinality(DeliveredAttempts(d)) + outages
                                       + Cardinality(DispatchesInHand(d))
    BY DEF NoNeedlessDispatch
  <2> DEFINE hands == DispatchesInHand(d)
  <2>1. PICK w : Workers = {w}
    BY DEF OneWorker
  <2>2. hands \subseteq {w} /\ (AcceptedInHand(w, d) => hands = {w})
    BY <2>1 DEF DispatchesInHand, AcceptedInHand, Starts
  <2>3. hands = {} \/ hands = {w}
    BY <2>2
  <2>4. /\ Cardinality(hands) \in Nat
        /\ AcceptedInHand(w, d) => Cardinality(hands) = 1
    <3>1. Cardinality({}) = 0 /\ Cardinality({w}) = 1
      BY FS_EmptySet, FS_Singleton
    <3>2. Cardinality(hands) = IF hands = {} THEN 0 ELSE 1
      BY <2>3, <3>1
    <3> HIDE DEF hands
    <3> QED
      BY <2>2, <3>2
  <2>5. accepted[d] <= Cardinality(DeliveredAttempts(d)) + outages
                         + (IF AcceptedInHand(w, d) THEN 1 ELSE 0)
    BY <2>1 DEF DispatchesAreAccounted
  <2>6. /\ accepted[d] \in Nat /\ outages \in Nat
        /\ Cardinality(DeliveredAttempts(d)) \in Nat
    <3>1. /\ delivery[d] \in DeliveryRecord
          /\ accepted[d] \in Nat /\ outages \in Nat
      BY BoundsAssumption DEF AInv, PInv, SInv, IInv, TypeOK
    <3>2. Grows(delivery[d], delivery[d], 0)
      BY <3>1 DEF Grows, LastAttempt, DeliveryRecord
    <3> QED
      BY <3>1, <3>2, DeliveredGrow DEF DeliveredIn, DeliveredAttempts
  <2> HIDE DEF hands
  <2>7. accepted[d] <= Cardinality(DeliveredAttempts(d)) + outages
                         + Cardinality(hands)
    BY <2>4, <2>5, <2>6
  <2> QED
    BY <2>7 DEF hands
<1> QED
  BY <1>1, <1>2, <1>3, AInvariance, PTL DEF Spec
=============================================================================
