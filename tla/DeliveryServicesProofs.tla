----------------------- MODULE DeliveryServicesProofs -----------------------
(***************************************************************************)
(* Proofs about the delivery services, for any sets of deliveries, keys,   *)
(* references and plans, any bounds, and any number of workers unless a    *)
(* theorem says otherwise.                                                 *)
(***************************************************************************)
EXTENDS DeliveryServices, FiniteSetTheorems, TLAPS

-----------------------------------------------------------------------------
(***************************************************************************)
(* What the operations of the delivery aggregate preserve, for every       *)
(* delivery: each returns a record that is lawful and settled, keeps the   *)
(* version, and only appends to the history.                               *)
(***************************************************************************)

\* A copy that extends another one: same version, longer history.
Extends(c, d) ==
  /\ c.version = d.version
  /\ IsPrefixOf(d.history, c.history)

\* A prefix of a prefix is a prefix.
LEMMA PrefixTransitive ==
  ASSUME NEW S, NEW f \in Seq(S), NEW g \in Seq(S), NEW h \in Seq(S),
         IsPrefixOf(f, g), IsPrefixOf(g, h)
  PROVE  IsPrefixOf(f, h)
  BY DEF IsPrefixOf

\* A status change the lifecycle allows keeps the history lawful and only
\* appends to it (append_history).
LEMMA MoveIsLawful ==
  ASSUME NEW d \in DeliveryRecord, NEW to \in Status,
         IsLawful(d), CanMove(d, to)
  PROVE  /\ Move(d, to) \in DeliveryRecord
         /\ IsLawful(Move(d, to))
         /\ Extends(Move(d, to), d)
         /\ Move(d, to).status = to
         /\ Move(d, to).attempts = d.attempts
<1> DEFINE e == <<d.status, to>>
           h == d.history
<1>1. /\ d.status \in Status /\ d.attempts \in Seq(Outcome)
      /\ h \in Seq(Transition) /\ d.version \in Nat
  BY DEF DeliveryRecord
<1>2. e \in Transition
  BY DEF CanMove
<1>3. /\ Move(d, to).status = to
      /\ Move(d, to).history = Append(h, e)
      /\ Move(d, to).attempts = d.attempts
      /\ Move(d, to).version = d.version
  BY DEF Move, DeliveryRecord
<1>4. Append(h, e) \in Seq(Transition)
  BY <1>1, <1>2
<1>5. Move(d, to) \in DeliveryRecord
  BY <1>1, <1>4 DEF Move, DeliveryRecord
<1>6. IsChain(Append(h, e))
  <2>1. /\ Len(Append(h, e)) = Len(h) + 1
        /\ \A i \in 1 .. Len(h) : Append(h, e)[i] = h[i]
        /\ Append(h, e)[Len(h) + 1] = e
    BY <1>1, <1>2
  <2>2. IsChain(h) /\ EndOf(h) = d.status
    BY DEF IsLawful
  <2>3. \A i \in 1 .. Len(h) + 1 : Append(h, e)[i] \in Transition
    BY <1>1, <1>2, <2>1, <1>4
  <2>4. \A i \in 1 .. Len(h) : Append(h, e)[i + 1][1] = Append(h, e)[i][2]
    <3> SUFFICES ASSUME NEW i \in 1 .. Len(h)
                 PROVE  Append(h, e)[i + 1][1] = Append(h, e)[i][2]
      OBVIOUS
    <3>1. CASE i = Len(h)
      <4>1. h # <<>>
        BY <1>1, <3>1
      <4>2. h[Len(h)][2] = d.status
        BY <2>2, <4>1 DEF EndOf
      <4> QED
        BY <2>1, <3>1, <4>2
    <3>2. CASE i # Len(h)
      <4>1. i \in 1 .. Len(h) - 1 /\ i + 1 \in 1 .. Len(h)
        BY <1>1, <3>2
      <4> QED
        BY <2>1, <2>2, <4>1 DEF IsChain
    <3> QED
      BY <3>1, <3>2
  <2>5. Append(h, e)[1][1] = "Scheduled"
    <3>1. CASE h = <<>>
      BY <1>1, <2>1, <2>2, <3>1 DEF EndOf
    <3>2. CASE h # <<>>
      <4>1. Len(h) > 0 /\ 1 \in 1 .. Len(h)
        BY <1>1, <3>2
      <4> QED
        BY <2>1, <2>2, <4>1 DEF IsChain
    <3> QED
      BY <3>1, <3>2
  <2> QED
    <3> DEFINE g == Append(h, e)
               n == Len(h)
    <3>1. n \in Nat
      BY <1>1
    <3>2. /\ Len(g) = n + 1
          /\ \A i \in 1 .. n + 1 : g[i] \in Transition
          /\ \A i \in 1 .. n : g[i + 1][1] = g[i][2]
          /\ g[1][1] = "Scheduled"
      BY <2>1, <2>3, <2>4, <2>5
    <3> HIDE DEF g, n
    <3>3. (n + 1) - 1 = n
      BY <3>1
    <3>4. IsChain(g)
      BY <3>2, <3>3 DEF IsChain
    <3> QED
      BY <3>4 DEF g
<1>7. EndOf(Append(h, e)) = to
  BY <1>1, <1>2 DEF EndOf
<1>8. IsPrefixOf(h, Append(h, e))
  BY <1>1, <1>2 DEF IsPrefixOf
<1> QED
  BY <1>3, <1>5, <1>6, <1>7, <1>8 DEF IsLawful, Extends

\* Finishing the last attempt changes nothing else (DeliveryAttempt::finish).
LEMMA FinishIsLocal ==
  ASSUME NEW d \in DeliveryRecord, NEW o \in Outcome, LastAttempt(d) > 0
  PROVE  /\ Finish(d, o) \in DeliveryRecord
         /\ Finish(d, o).status = d.status
         /\ Finish(d, o).history = d.history
         /\ Finish(d, o).version = d.version
         /\ LastAttempt(Finish(d, o)) = LastAttempt(d)
         /\ Finish(d, o).attempts[LastAttempt(d)] = o
         /\ \A n \in 1 .. LastAttempt(d) - 1 :
              Finish(d, o).attempts[n] = d.attempts[n]
<1> DEFINE a == [d.attempts EXCEPT ![Len(d.attempts)] = o]
<1>1. /\ d.status \in Status /\ d.attempts \in Seq(Outcome)
      /\ d.history \in Seq(Transition) /\ d.version \in Nat
  BY DEF DeliveryRecord
<1>2. /\ a \in Seq(Outcome) /\ Len(a) = Len(d.attempts)
      /\ a[Len(d.attempts)] = o
      /\ \A n \in 1 .. Len(d.attempts) - 1 : a[n] = d.attempts[n]
  BY <1>1 DEF LastAttempt
<1>3. /\ Finish(d, o).status = d.status
      /\ Finish(d, o).history = d.history
      /\ Finish(d, o).version = d.version
      /\ Finish(d, o).attempts = a
  BY DEF Finish, DeliveryRecord, LastAttempt
<1>4. Finish(d, o) \in DeliveryRecord
  BY <1>1, <1>2 DEF Finish, DeliveryRecord, LastAttempt
<1> QED
  BY <1>2, <1>3, <1>4 DEF LastAttempt

\* A scheduled delivery whose attempts are settled has no open attempt, so
\* starting one leaves exactly that one open.
LEMMA StartIsSettled ==
  ASSUME NEW d \in DeliveryRecord, IsLawful(d), IsSettled(d), CanStart(d)
  PROVE  /\ StartAttempt(d) \in DeliveryRecord
         /\ IsLawful(StartAttempt(d))
         /\ IsSettled(StartAttempt(d))
         /\ Extends(StartAttempt(d), d)
         /\ StartAttempt(d).status = "Dispatching"
<1> DEFINE m == Move(d, "Dispatching")
           a == Append(d.attempts, "open")
<1>1. CanMove(d, "Dispatching")
  BY DEF CanStart, CanMove, Transition
<1>2. /\ m \in DeliveryRecord /\ IsLawful(m) /\ Extends(m, d)
      /\ m.status = "Dispatching" /\ m.attempts = d.attempts
  BY <1>1, MoveIsLawful DEF Status
<1>3. /\ StartAttempt(d).status = m.status
      /\ StartAttempt(d).history = m.history
      /\ StartAttempt(d).version = m.version
      /\ StartAttempt(d).attempts = a
  <2> HIDE DEF m
  <2> QED
    BY <1>2 DEF StartAttempt, DeliveryRecord, m
<1>4. /\ d.attempts \in Seq(Outcome) /\ a \in Seq(Outcome)
      /\ Len(a) = Len(d.attempts) + 1
      /\ a[Len(a)] = "open"
      /\ \A n \in 1 .. Len(d.attempts) : a[n] = d.attempts[n]
  BY DEF DeliveryRecord, Outcome
<1>5. StartAttempt(d) \in DeliveryRecord
  <2>1. [m EXCEPT !.attempts = Append(m.attempts, "open")] \in DeliveryRecord
    <3> HIDE DEF m
    <3> QED
      BY <1>2, <1>4 DEF DeliveryRecord
  <2> QED
    BY <2>1 DEF StartAttempt
<1>6. \A n \in 1 .. Len(d.attempts) : d.attempts[n] # "open"
  BY <1>4 DEF IsSettled, CanStart, LastAttempt
<1>7. IsSettled(StartAttempt(d))
  BY <1>2, <1>3, <1>4, <1>6 DEF IsSettled, LastAttempt
<1> QED
  BY <1>2, <1>3, <1>5, <1>7 DEF IsLawful, Extends

\* Ending the open attempt of a dispatching delivery, with the status change
\* that goes with its outcome, settles it.
LEMMA EndOfAttempt ==
  ASSUME NEW d \in DeliveryRecord, IsLawful(d), IsSettled(d),
         d.status = "Dispatching",
         NEW o \in {"delivered", "failed"},
         NEW to \in {"Delivered", "Failed"},
         to = "Delivered" => o = "delivered"
  PROVE  /\ Move(Finish(d, o), to) \in DeliveryRecord
         /\ IsLawful(Move(Finish(d, o), to))
         /\ IsSettled(Move(Finish(d, o), to))
         /\ Extends(Move(Finish(d, o), to), d)
         /\ Move(Finish(d, o), to).status = to
<1> DEFINE f == Finish(d, o)
<1>1. LastAttempt(d) > 0 /\ LastAttempt(d) \in Nat
  BY DEF IsSettled, LastAttempt, DeliveryRecord
<1>2. /\ f \in DeliveryRecord
      /\ f.status = d.status /\ f.history = d.history
      /\ f.version = d.version /\ LastAttempt(f) = LastAttempt(d)
      /\ f.attempts[LastAttempt(d)] = o
      /\ \A n \in 1 .. LastAttempt(d) - 1 : f.attempts[n] = d.attempts[n]
  <2>1. o \in Outcome
    BY DEF Outcome
  <2> QED
    BY <1>1, <2>1, FinishIsLocal
<1>3. IsLawful(f)
  BY <1>2 DEF IsLawful
<1>4. CanMove(f, to)
  BY <1>2 DEF CanMove, Transition
<1>5. /\ Move(f, to) \in DeliveryRecord /\ IsLawful(Move(f, to))
      /\ Extends(Move(f, to), f) /\ Move(f, to).status = to
      /\ Move(f, to).attempts = f.attempts
  <2> HIDE DEF f
  <2> QED
    BY <1>2, <1>3, <1>4, MoveIsLawful DEF Status
<1>6. IsSettled(Move(f, to))
  BY <1>1, <1>2, <1>5 DEF IsSettled, LastAttempt
<1>7. Extends(Move(f, to), d)
  BY <1>2, <1>5 DEF Extends
<1> QED
  BY <1>5, <1>6, <1>7

\* A status change that ends no attempt keeps a finished delivery settled.
LEMMA MoveIsSettled ==
  ASSUME NEW d \in DeliveryRecord, NEW to \in Status,
         IsLawful(d), IsSettled(d), CanMove(d, to),
         d.status # "Dispatching",
         to \notin {"Dispatching", "Delivered"},
         to = "Completed" => d.status = "Delivered"
  PROVE  IsSettled(Move(d, to))
  BY MoveIsLawful DEF IsSettled, LastAttempt

\* The dispatches that a history tells of.
Dispatches(h) == {i \in DOMAIN h : h[i][2] = "Dispatching"}

\* The history tells of one dispatch for every attempt.
IsCounted(d) == LastAttempt(d) = Cardinality(Dispatches(d.history))

\* An entry more is at most one dispatch more.
LEMMA DispatchesGrow ==
  ASSUME NEW h \in Seq(Transition), NEW e \in Transition
  PROVE  /\ Cardinality(Dispatches(h)) \in Nat
         /\ Cardinality(Dispatches(Append(h, e))) =
              IF e[2] = "Dispatching" THEN Cardinality(Dispatches(h)) + 1
                                      ELSE Cardinality(Dispatches(h))
<1> DEFINE n == Len(h)
<1>1. /\ n \in Nat /\ DOMAIN h = 1 .. n
      /\ DOMAIN Append(h, e) = 1 .. n + 1
      /\ Append(h, e)[n + 1] = e
      /\ \A i \in 1 .. n : Append(h, e)[i] = h[i]
  OBVIOUS
<1>2. IsFiniteSet(Dispatches(h)) /\ Cardinality(Dispatches(h)) \in Nat
  <2>1. IsFiniteSet(1 .. n)
    BY <1>1, FS_Interval
  <2> QED
    BY <1>1, <2>1, FS_Subset, FS_CardinalityType DEF Dispatches
<1>3. Dispatches(Append(h, e)) =
        IF e[2] = "Dispatching" THEN Dispatches(h) \cup {n + 1}
                                ELSE Dispatches(h)
  BY <1>1 DEF Dispatches
<1>4. n + 1 \notin Dispatches(h)
  BY <1>1 DEF Dispatches
<1> QED
  BY <1>2, <1>3, <1>4, FS_AddElement

\* A copy with so many attempts more: those that had ended stay as they were,
\* and so does the count of dispatches.
Grows(c, d, n) ==
  /\ LastAttempt(c) = LastAttempt(d) + n
  /\ \A i \in 1 .. LastAttempt(d) :
       d.attempts[i] # "open" => c.attempts[i] = d.attempts[i]
  /\ IsCounted(d) => IsCounted(c)

LEMMA MoveGrows ==
  ASSUME NEW d \in DeliveryRecord, NEW to \in Status, CanMove(d, to),
         to # "Dispatching"
  PROVE  Grows(Move(d, to), d, 0)
<1>1. /\ Move(d, to).attempts = d.attempts
      /\ Move(d, to).history = Append(d.history, <<d.status, to>>)
      /\ d.history \in Seq(Transition) /\ LastAttempt(d) \in Nat
  BY DEF Move, DeliveryRecord, LastAttempt
<1>2. <<d.status, to>> \in Transition
  BY DEF CanMove
<1>3. IsCounted(d) => IsCounted(Move(d, to))
  BY <1>1, <1>2, DispatchesGrow DEF IsCounted, LastAttempt
<1> QED
  BY <1>1, <1>3 DEF Grows, LastAttempt

LEMMA StartGrows ==
  ASSUME NEW d \in DeliveryRecord, CanStart(d)
  PROVE  Grows(StartAttempt(d), d, 1)
<1>1. /\ StartAttempt(d).attempts = Append(d.attempts, "open")
      /\ StartAttempt(d).history
           = Append(d.history, <<d.status, "Dispatching">>)
      /\ d.history \in Seq(Transition) /\ d.attempts \in Seq(Outcome)
  BY DEF StartAttempt, Move, DeliveryRecord
<1>2. <<d.status, "Dispatching">> \in Transition
  BY DEF CanStart, Transition
<1>3. /\ LastAttempt(StartAttempt(d)) = LastAttempt(d) + 1
      /\ \A i \in 1 .. LastAttempt(d) :
           StartAttempt(d).attempts[i] = d.attempts[i]
  BY <1>1 DEF LastAttempt, Outcome
<1>4. IsCounted(d) => IsCounted(StartAttempt(d))
  BY <1>1, <1>2, <1>3, DispatchesGrow DEF IsCounted
<1> QED
  BY <1>3, <1>4 DEF Grows

LEMMA EndGrows ==
  ASSUME NEW d \in DeliveryRecord, IsSettled(d), d.status = "Dispatching",
         NEW o \in {"delivered", "failed"}, NEW to \in {"Delivered", "Failed"}
  PROVE  Grows(Move(Finish(d, o), to), d, 0)
<1> DEFINE f == Finish(d, o)
<1>1. LastAttempt(d) > 0 /\ d.attempts[LastAttempt(d)] = "open"
      /\ LastAttempt(d) \in Nat
  BY DEF IsSettled, DeliveryRecord, LastAttempt
<1>2. /\ f \in DeliveryRecord /\ f.status = d.status /\ f.history = d.history
      /\ LastAttempt(f) = LastAttempt(d)
      /\ \A n \in 1 .. LastAttempt(d) - 1 : f.attempts[n] = d.attempts[n]
  <2>1. o \in Outcome
    BY DEF Outcome
  <2> QED
    BY <1>1, <2>1, FinishIsLocal
<1>3. CanMove(f, to)
  BY <1>2 DEF CanMove, Transition
<1>4. Grows(Move(f, to), f, 0) /\ Move(f, to).attempts = f.attempts
  <2> HIDE DEF f
  <2> QED
    BY <1>2, <1>3, MoveGrows DEF Status, Move, DeliveryRecord
<1> HIDE DEF f
<1>5. IsCounted(d) => IsCounted(f)
  BY <1>2 DEF IsCounted
<1> QED
  BY <1>1, <1>2, <1>4, <1>5 DEF Grows, f

\* What a copy of a copy has more adds up.
LEMMA GrowsTwice ==
  ASSUME NEW c \in DeliveryRecord, NEW d \in DeliveryRecord,
         NEW e \in DeliveryRecord, NEW n \in Nat, NEW m \in Nat,
         Grows(c, d, n), Grows(e, c, m)
  PROVE  Grows(e, d, n + m)
  BY DEF Grows, LastAttempt, DeliveryRecord

-----------------------------------------------------------------------------
(***************************************************************************)
(* The inductive invariant. What is stored is only as good as the copies   *)
(* that replace it, so it speaks of the copies in the workers' hands.      *)
(***************************************************************************)
InHand(w) == pc[w] \in {"loaded", "ready", "staged"}

RequestsInHand == \A w \in Workers : pc[w] # "idle" => req[w] \in Request

CopiesAreLawful ==
  \A w \in Workers : InHand(w) => IsLawful(rec[w]) /\ IsSettled(rec[w])

DispatchesAreOpen ==
  \A w \in Workers :
    pc[w] = "loaded" =>
      /\ rec[w].status = "Dispatching"
      /\ req[w].use \in {"progress", "retry"}

\* A copy that is about to complete or dead-letter its delivery belongs to
\* the request that may do so.
HasCause(r, c) ==
  /\ c.status = "Completed" => r.use = "ack" /\ r.attempt = LastAttempt(c)
  /\ c.status = "DeadLettered" => r.use = "deadLetter"

CopiesHaveCause ==
  \A w \in Workers :
    pc[w] \in {"ready", "staged"} /\ SavesDelivery(req[w]) =>
      HasCause(req[w], rec[w])

IInv ==
  /\ TypeOK
  /\ RequestsInHand
  /\ HistoryExplainsStatus
  /\ AttemptsAreSettled
  /\ CompletedIsAcked
  /\ DeadLetteredHasEntry
  /\ CopiesAreLawful
  /\ DispatchesAreOpen
  /\ CopiesHaveCause

-----------------------------------------------------------------------------
(***************************************************************************)
(* The handlers' work on a copy.                                           *)
(***************************************************************************)

\* The fields that a request of each kind has.
LEMMA RequestFields ==
  ASSUME NEW r \in Request
  PROVE  /\ r.use \in Use
         /\ r.delivery \in Deliveries
         /\ r.use \in FeedbackUse => r \in FeedbackRequest
         /\ r.use = "requestRetry" => r.plan \in PlanIds /\ r.budget \in Budgets
         /\ r.use = "retry" => r.plan \in PlanIds /\ r.seen \in RetryPlan
  BY DEF Request, FeedbackRequest, FeedbackUse, Use

\* A copy worth committing, made from a delivery that may still change.
GoodCopy(c, d) ==
  /\ c \in DeliveryRecord
  /\ IsLawful(c)
  /\ IsSettled(c)
  /\ Extends(c, d)
  /\ d.status \notin Terminal

\* Every handler turns a lawful, settled delivery that it accepts into a
\* copy worth committing, whose status only its own request can cause.
LEMMA StartCopy ==
  ASSUME NEW d \in DeliveryRecord, IsLawful(d), IsSettled(d), CanStart(d)
  PROVE  /\ GoodCopy(StartAttempt(d), d)
         /\ Grows(StartAttempt(d), d, 1)
         /\ StartAttempt(d).status = "Dispatching"
  BY StartIsSettled, StartGrows DEF GoodCopy, CanStart, Terminal

LEMMA RetryCopy ==
  ASSUME NEW d \in DeliveryRecord, IsLawful(d), IsSettled(d),
         CanStart(Rescheduled(d))
  PROVE  /\ GoodCopy(StartAttempt(Rescheduled(d)), d)
         /\ Grows(StartAttempt(Rescheduled(d)), d, 1)
         /\ StartAttempt(Rescheduled(d)).status = "Dispatching"
<1>1. CASE CanReschedule(d)
  <2> DEFINE s == Move(d, "Scheduled")
             c == StartAttempt(s)
  <2>1. d.status = "Failed" /\ CanMove(d, "Scheduled")
    BY <1>1 DEF CanReschedule, CanMove, Transition
  <2>2. /\ s \in DeliveryRecord /\ IsLawful(s) /\ Extends(s, d)
        /\ s.status = "Scheduled"
    BY <2>1, MoveIsLawful DEF Status
  <2>3. IsSettled(s)
    BY <2>1, MoveIsSettled DEF Status
  <2>4. CanStart(s)
    BY <2>2 DEF CanStart
  <2>5. /\ c \in DeliveryRecord /\ IsLawful(c) /\ IsSettled(c)
        /\ Extends(c, s) /\ c.status = "Dispatching"
    <3> HIDE DEF s
    <3> QED
      BY <2>2, <2>3, <2>4, StartIsSettled
  <2>6. Extends(c, d)
    <3>1. /\ d.history \in Seq(Transition) /\ s.history \in Seq(Transition)
          /\ c.history \in Seq(Transition)
      BY <2>2, <2>5 DEF DeliveryRecord
    <3>2. IsPrefixOf(d.history, s.history) /\ IsPrefixOf(s.history, c.history)
      BY <2>2, <2>5 DEF Extends
    <3>3. IsPrefixOf(d.history, c.history)
      BY <3>1, <3>2, PrefixTransitive
    <3> QED
      BY <2>2, <2>5, <3>3 DEF Extends
  <2>7. Grows(c, d, 1)
    <3>1. Grows(s, d, 0)
      BY <2>1, MoveGrows DEF Status
    <3> HIDE DEF s
    <3>2. Grows(c, s, 1)
      BY <2>2, <2>4, StartGrows
    <3> HIDE DEF c
    <3>3. Grows(c, d, 0 + 1)
      BY <2>2, <2>5, <3>1, <3>2, GrowsTwice
    <3> QED
      BY <3>3
  <2>8. Rescheduled(d) = s
    BY <1>1 DEF Rescheduled
  <2> QED
    BY <2>1, <2>5, <2>6, <2>7, <2>8 DEF GoodCopy, Terminal
<1>2. CASE ~CanReschedule(d)
  BY <1>2, StartCopy DEF Rescheduled
<1> QED
  BY <1>1, <1>2

\* Feedback, operators' decisions: a status change that ends no attempt.
LEMMA MoveCopy ==
  ASSUME NEW d \in DeliveryRecord, IsLawful(d), IsSettled(d),
         NEW to \in {"Completed", "Failed", "DeadLettered"},
         CanMove(d, to), d.status # "Dispatching"
  PROVE  /\ GoodCopy(Move(d, to), d)
         /\ Grows(Move(d, to), d, 0)
         /\ Move(d, to).status = to
         /\ LastAttempt(Move(d, to)) = LastAttempt(d)
<1>1. to \in Status
  BY DEF Status
<1>2. to = "Completed" => d.status = "Delivered"
  BY DEF CanMove, Transition
<1>3. d.status \notin Terminal
  BY DEF CanMove, Transition, Terminal
<1>4. IsSettled(Move(d, to))
  BY <1>1, <1>2, MoveIsSettled
<1> QED
  BY <1>1, <1>3, <1>4, MoveIsLawful, MoveGrows DEF GoodCopy, LastAttempt

\* Signals, timeouts and dispatches: the end of the open attempt.
LEMMA EndCopy ==
  ASSUME NEW d \in DeliveryRecord, IsLawful(d), IsSettled(d),
         d.status = "Dispatching"
  PROVE  /\ GoodCopy(Deliver(d), d) /\ Deliver(d).status = "Delivered"
         /\ GoodCopy(FailAttempt(d), d) /\ FailAttempt(d).status = "Failed"
         /\ Grows(Deliver(d), d, 0) /\ Grows(FailAttempt(d), d, 0)
  BY EndOfAttempt, EndGrows DEF GoodCopy, Deliver, FailAttempt, Terminal

\* The requests that start an attempt.
Starts(r) == r.use \in {"progress", "retry"}

\* The copy that is made for a request of the delivery it is about.
CopyOf(r, d) ==
  CASE r.use = "progress"        -> StartAttempt(d)
    [] r.use = "retry"           -> StartAttempt(Rescheduled(d))
    [] r.use = "ack"             -> Move(d, "Completed")
    [] r.use = "fail"            -> Move(d, "Failed")
    [] r.use = "signalDelivered" -> Deliver(d)
    [] r.use = "signalFailed"    -> FailAttempt(d)
    [] r.use = "timeout"         -> TimedOut(d)
    [] r.use = "deadLetter"      -> Move(d, "DeadLettered")

\* What is true of the copy c that is made for a request r of the delivery d.
IsCopyFor(r, c, d) ==
  /\ GoodCopy(c, d)
  /\ Grows(c, d, IF Starts(r) THEN 1 ELSE 0)
  /\ HasCause(r, c)
  /\ c.status # "Scheduled"
  /\ Starts(r) => c.status = "Dispatching"
  /\ ~Starts(r) /\ d.status = "Scheduled" => LastAttempt(d) > 0

LEMMA CopyIsMade ==
  ASSUME NEW r \in Request, SavesDelivery(r),
         NEW d \in DeliveryRecord, IsLawful(d), IsSettled(d), Accepts(r, d)
  PROVE  IsCopyFor(r, CopyOf(r, d), d)
<1> USE DEF IsCopyFor, CopyOf, HasCause, Starts
<1>1. CASE r.use = "progress"
  <2>1. CanStart(d)
    BY <1>1 DEF Accepts
  <2> QED
    BY <1>1, <2>1, StartCopy
<1>2. CASE r.use = "retry"
  <2>1. CanStart(Rescheduled(d))
    BY <1>2 DEF Accepts, SavesDelivery
  <2> QED
    BY <1>2, <2>1, RetryCopy
<1>3. CASE r.use = "ack"
  <2>1. MayAck(d, r.attempt)
    BY <1>3 DEF Accepts
  <2>2. /\ CanMove(d, "Completed") /\ d.status = "Delivered"
        /\ r.attempt = LastAttempt(d)
    BY <2>1 DEF MayAck, CanComplete, IsCurrent, CanMove, Transition
  <2> QED
    BY <1>3, <2>2, MoveCopy
<1>4. CASE r.use = "fail"
  <2>1. MayReject(d, r.attempt)
    BY <1>4 DEF Accepts
  <2>2. /\ CanMove(d, "Failed") /\ d.status # "Dispatching"
        /\ LastAttempt(d) > 0
    BY <2>1 DEF MayReject, IsFinished, IsCurrent, CanFail, IsSettled
  <2> QED
    BY <1>4, <2>2, MoveCopy
<1>5. CASE r.use \in {"signalDelivered", "signalFailed"}
  <2>1. CanFinish(d, r.attempt)
    BY <1>5 DEF Accepts
  <2>2. d.status = "Dispatching"
    BY <2>1 DEF CanFinish, IsCurrent, IsSettled
  <2> QED
    BY <1>5, <2>2, EndCopy
<1>6. CASE r.use = "timeout"
  <2>1. MayTimeOut(d, r.attempt)
    BY <1>6 DEF Accepts
  <2>2. CASE d.status = "Dispatching"
    BY <1>6, <2>2, EndCopy DEF TimedOut
  <2>3. CASE d.status # "Dispatching"
    <3>1. d.status = "Delivered" /\ CanMove(d, "Failed")
      BY <2>1, <2>3 DEF MayTimeOut, CanMove, Transition
    <3> QED
      BY <1>6, <2>3, <3>1, MoveCopy DEF TimedOut
  <2> QED
    BY <2>2, <2>3
<1>7. CASE r.use = "deadLetter"
  <2>1. CanDeadLetter(d)
    BY <1>7 DEF Accepts, MayDeadLetter
  <2>2. CanMove(d, "DeadLettered") /\ d.status = "Failed"
    BY <2>1 DEF CanDeadLetter, CanMove, Transition
  <2> QED
    BY <1>7, <2>2, MoveCopy
<1>8. r.use \in Use /\ r.use # "requestRetry"
  BY RequestFields DEF SavesDelivery
<1> QED
  BY <1>1, <1>2, <1>3, <1>4, <1>5, <1>6, <1>7, <1>8 DEF Use

-----------------------------------------------------------------------------
(***************************************************************************)
(* The steps, by what they change.                                         *)
(***************************************************************************)

\* The initial state: nothing is in anybody's hands, every delivery is
\* scheduled or in its first dispatch.
LEMMA InitIInv == Init => IInv
<1> SUFFICES ASSUME Init PROVE IInv
  OBVIOUS
<1> DEFINE s == ScheduledDelivery
           t == StartAttempt(ScheduledDelivery)
<1>1. s \in DeliveryRecord /\ IsLawful(s) /\ IsSettled(s) /\ CanStart(s)
      /\ s.status = "Scheduled"
  <2>1. s \in DeliveryRecord
    BY DEF ScheduledDelivery, DeliveryRecord, Status
  <2>2. IsLawful(s)
    BY DEF ScheduledDelivery, IsLawful, IsChain, EndOf
  <2>3. IsSettled(s) /\ CanStart(s) /\ s.status = "Scheduled"
    BY DEF ScheduledDelivery, IsSettled, LastAttempt, CanStart
  <2> QED
    BY <2>1, <2>2, <2>3
<1>2. t \in DeliveryRecord /\ IsLawful(t) /\ IsSettled(t)
      /\ t.status = "Dispatching"
  BY <1>1, StartIsSettled
<1>3. \A d \in Deliveries : delivery[d] \in {s, t}
  BY DEF Init
<1> HIDE DEF s, t
<1>4. \A d \in Deliveries :
        /\ delivery[d] \in DeliveryRecord
        /\ IsLawful(delivery[d]) /\ IsSettled(delivery[d])
        /\ delivery[d].status \notin Terminal
  BY <1>1, <1>2, <1>3 DEF Terminal
<1>5. TypeOK
  <2>1. delivery \in [Deliveries -> DeliveryRecord]
    BY <1>1, <1>2 DEF Init, s, t
  <2>2. plan \in [Deliveries -> [PlanIds -> RetryPlan]]
    BY DEF Init, UnbornPlan, RetryPlan
  <2>3. rec \in [Workers -> DeliveryRecord]
    BY <1>1 DEF Init, s
  <2>4. outages \in 0 .. MaxOutages /\ accepted \in [Deliveries -> Nat]
    BY BoundsAssumption DEF Init
  <2> QED
    BY <2>1, <2>2, <2>3, <2>4 DEF Init, TypeOK
<1>6. RequestsInHand /\ CopiesAreLawful /\ DispatchesAreOpen /\ CopiesHaveCause
  BY DEF Init, RequestsInHand, CopiesAreLawful, DispatchesAreOpen,
         CopiesHaveCause, InHand
<1>7. /\ HistoryExplainsStatus /\ AttemptsAreSettled
      /\ CompletedIsAcked /\ DeadLetteredHasEntry
  BY <1>4 DEF HistoryExplainsStatus, AttemptsAreSettled, CompletedIsAcked,
              DeadLetteredHasEntry, Terminal
<1> QED
  BY <1>5, <1>6, <1>7 DEF IInv

\* Only the worker's own hand changes: it takes a request, works on its copy,
\* hears from the backend, stages, or puts everything down.
LEMMA HandStep ==
  ASSUME IInv, NEW w \in Workers,
         NEW st \in {"idle", "received", "loaded", "ready", "staged"},
         NEW r \in Request \cup {NoRequest}, NEW c \in DeliveryRecord,
         pc' = [pc EXCEPT ![w] = st],
         req' = [req EXCEPT ![w] = r],
         rec' = [rec EXCEPT ![w] = c],
         UNCHANGED store,
         accepted' \in [Deliveries -> Nat], outages' \in 0 .. MaxOutages,
         st # "idle" => r \in Request,
         st \in {"loaded", "ready", "staged"} => IsLawful(c) /\ IsSettled(c),
         st = "loaded" => /\ c.status = "Dispatching"
                          /\ r.use \in {"progress", "retry"},
         st \in {"ready", "staged"} /\ SavesDelivery(r) => HasCause(r, c)
  PROVE  IInv'
<1>1. TypeOK'
  BY DEF IInv, TypeOK, store
<1>2. RequestsInHand'
  BY DEF IInv, TypeOK, RequestsInHand
<1>3. CopiesAreLawful'
  BY DEF IInv, TypeOK, CopiesAreLawful, InHand
<1>4. DispatchesAreOpen'
  BY DEF IInv, TypeOK, DispatchesAreOpen
<1>5. CopiesHaveCause'
  <2> SUFFICES ASSUME NEW v \in Workers,
                      pc'[v] \in {"ready", "staged"}, SavesDelivery(req'[v])
               PROVE  HasCause(req'[v], rec'[v])
    BY DEF CopiesHaveCause
  <2>1. CASE v = w
    BY <2>1 DEF IInv, TypeOK
  <2>2. CASE v # w
    BY <2>2 DEF IInv, TypeOK, CopiesHaveCause
  <2> QED
    BY <2>1, <2>2
<1>6. /\ HistoryExplainsStatus' /\ AttemptsAreSettled'
      /\ CompletedIsAcked' /\ DeadLetteredHasEntry'
  BY DEF IInv, store, HistoryExplainsStatus, AttemptsAreSettled,
         CompletedIsAcked, IsAcked, DeadLetteredHasEntry
<1> QED
  BY <1>1, <1>2, <1>3, <1>4, <1>5, <1>6 DEF IInv

\* The worker commits and is done; the rows of the store that speak of a
\* delivery are at least as good as before.
LEMMA CommitStep ==
  ASSUME IInv, NEW w \in Workers, Finished(w),
         UNCHANGED <<accepted, outages>>,
         TypeOK',
         HistoryExplainsStatus', AttemptsAreSettled',
         CompletedIsAcked', DeadLetteredHasEntry'
  PROVE  IInv'
<1>1. RequestsInHand' /\ CopiesAreLawful' /\ DispatchesAreOpen'
  BY DEF IInv, TypeOK, Finished, RequestsInHand, CopiesAreLawful, InHand,
         DispatchesAreOpen
<1>2. CopiesHaveCause'
  <2> SUFFICES ASSUME NEW v \in Workers,
                      pc'[v] \in {"ready", "staged"}, SavesDelivery(req'[v])
               PROVE  HasCause(req'[v], rec'[v])
    BY DEF CopiesHaveCause
  <2>1. v # w
    BY DEF IInv, TypeOK, Finished
  <2> QED
    BY <2>1 DEF IInv, TypeOK, CopiesHaveCause, Finished
<1> QED
  BY <1>1, <1>2 DEF IInv

\* The copy that a commit stores, when its handler saves the delivery.
LEMMA CommittedCopy ==
  ASSUME IInv, NEW w \in Workers, pc[w] = "staged"
  PROVE  /\ req[w] \in Request
         /\ req[w].delivery \in Deliveries
         /\ rec[w] \in DeliveryRecord
         /\ IsLawful(rec[w]) /\ IsSettled(rec[w])
         /\ SavesDelivery(req[w]) => HasCause(req[w], rec[w])
         /\ [rec[w] EXCEPT !.version = @ + 1] \in DeliveryRecord
<1>1. /\ req[w] \in Request /\ rec[w] \in DeliveryRecord
      /\ IsLawful(rec[w]) /\ IsSettled(rec[w])
      /\ SavesDelivery(req[w]) => HasCause(req[w], rec[w])
  BY DEF IInv, TypeOK, RequestsInHand, CopiesAreLawful, CopiesHaveCause, InHand
<1>2. [rec[w] EXCEPT !.version = @ + 1] \in DeliveryRecord
  BY <1>1 DEF DeliveryRecord
<1> QED
  BY <1>1, <1>2, RequestFields

\* What a committed copy says is what the worker's copy said.
LEMMA SavedDelivery ==
  ASSUME IInv, NEW w \in Workers, pc[w] = "staged", SaveDelivery(w)
  PROVE  /\ delivery' \in [Deliveries -> DeliveryRecord]
         /\ HistoryExplainsStatus' /\ AttemptsAreSettled'
         /\ LET d == req[w].delivery IN
              /\ delivery'[d].status = rec[w].status
              /\ delivery'[d].history = rec[w].history
              /\ LastAttempt(delivery'[d]) = LastAttempt(rec[w])
              /\ delivery'[d].version = rec[w].version + 1
              /\ \A e \in Deliveries \ {d} : delivery'[e] = delivery[e]
<1> DEFINE d == req[w].delivery
           c == [rec[w] EXCEPT !.version = @ + 1]
<1>1. /\ d \in Deliveries /\ rec[w] \in DeliveryRecord
      /\ IsLawful(rec[w]) /\ IsSettled(rec[w]) /\ c \in DeliveryRecord
  BY CommittedCopy
<1>2. /\ c.status = rec[w].status /\ c.history = rec[w].history
      /\ c.attempts = rec[w].attempts /\ c.version = rec[w].version + 1
  BY <1>1 DEF DeliveryRecord
<1>3. IsLawful(c) /\ IsSettled(c) /\ LastAttempt(c) = LastAttempt(rec[w])
  BY <1>1, <1>2 DEF IsLawful, IsSettled, LastAttempt
<1>4. delivery' = [delivery EXCEPT ![d] = c]
  BY DEF SaveDelivery
<1>5. delivery \in [Deliveries -> DeliveryRecord]
      /\ HistoryExplainsStatus /\ AttemptsAreSettled
  BY DEF IInv, TypeOK
<1> HIDE DEF c
<1>6. /\ delivery' \in [Deliveries -> DeliveryRecord]
      /\ delivery'[d] = c
      /\ \A e \in Deliveries \ {d} : delivery'[e] = delivery[e]
  BY <1>1, <1>4, <1>5
<1>7. HistoryExplainsStatus' /\ AttemptsAreSettled'
  BY <1>3, <1>5, <1>6 DEF HistoryExplainsStatus, AttemptsAreSettled
<1> QED
  BY <1>2, <1>3, <1>6, <1>7

\* A unit of work that saves a delivery without feedback neither completes
\* one nor touches the acknowledgements of others.
LEMMA SaveWithoutFeedback ==
  ASSUME IInv, NEW w \in Workers, pc[w] = "staged", SaveDelivery(w),
         req[w].use \in {"progress", "retry", "deadLetter"},
         SavesDelivery(req[w]),
         feedback' = feedback
  PROVE  CompletedIsAcked'
<1> SUFFICES ASSUME NEW e \in Deliveries, delivery'[e].status = "Completed"
             PROVE  IsAcked(e)'
  BY DEF CompletedIsAcked
<1>1. rec[w].status # "Completed"
  BY CommittedCopy DEF HasCause
<1>2. e # req[w].delivery
  BY <1>1, SavedDelivery
<1>3. delivery'[e] = delivery[e]
  BY <1>2, SavedDelivery
<1> QED
  BY <1>3 DEF IInv, CompletedIsAcked, IsAcked

\* A unit of work that dead-letters nothing keeps every entry accounted for.
LEMMA SaveWithoutDeadLetter ==
  ASSUME IInv, NEW w \in Workers, pc[w] = "staged", SaveDelivery(w),
         req[w].use # "deadLetter", SavesDelivery(req[w]),
         deadLetters' = deadLetters
  PROVE  DeadLetteredHasEntry'
<1> SUFFICES ASSUME NEW e \in Deliveries, delivery'[e].status = "DeadLettered"
             PROVE  e \in deadLetters
  BY DEF DeadLetteredHasEntry
<1>1. rec[w].status # "DeadLettered"
  BY CommittedCopy DEF HasCause
<1>2. e # req[w].delivery
  BY <1>1, SavedDelivery
<1>3. delivery'[e] = delivery[e]
  BY <1>2, SavedDelivery
<1> QED
  BY <1>3 DEF IInv, DeadLetteredHasEntry

\* Putting everything down keeps the workers' variables well typed.
LEMMA FinishedTypes ==
  ASSUME IInv, NEW w \in Workers, Finished(w)
  PROVE  /\ pc' \in [Workers -> {"idle", "received", "loaded", "ready", "staged"}]
         /\ req' \in [Workers -> Request \cup {NoRequest}]
         /\ rec' \in [Workers -> DeliveryRecord]
<1>1. ScheduledDelivery \in DeliveryRecord
  BY DEF ScheduledDelivery, DeliveryRecord, Status
<1> QED
  BY <1>1 DEF IInv, TypeOK, Finished

\* A progression job stores its attempt.
LEMMA CommitProgressStep ==
  ASSUME IInv, NEW w \in Workers, CommitProgress(w)
  PROVE  IInv'
<1>1. /\ pc[w] = "staged" /\ req[w].use = "progress" /\ SaveDelivery(w)
      /\ Finished(w)
      /\ UNCHANGED <<accepted, outages, feedback, anchors, plan, active,
                     deadLetters>>
  BY DEF CommitProgress, Committing
<1>2. SavesDelivery(req[w])
  BY <1>1 DEF SavesDelivery
<1>3. TypeOK'
  BY <1>1, SavedDelivery, FinishedTypes DEF IInv, TypeOK
<1>4. CompletedIsAcked' /\ DeadLetteredHasEntry'
  BY <1>1, <1>2, SaveWithoutFeedback, SaveWithoutDeadLetter
<1> QED
  BY <1>1, <1>3, <1>4, SavedDelivery, CommitStep

\* A plan that pays for an attempt, and one that is closed, are plans.
LEMMA PlanTypes ==
  ASSUME NEW q \in RetryPlan
  PROVE  /\ q.remaining > 0 =>
              [q EXCEPT !.remaining = @ - 1, !.version = @ + 1] \in RetryPlan
         /\ [q EXCEPT !.status = "exhausted", !.version = @ + 1] \in RetryPlan
<1>1. /\ q.status \in {"unborn", "scheduled", "exhausted"}
      /\ q.remaining \in Nat /\ q.budget \in Nat /\ q.version \in Nat
  BY DEF RetryPlan
<1>2. q.version + 1 \in Nat
  BY <1>1
<1>3. ASSUME q.remaining > 0
      PROVE  [q EXCEPT !.remaining = q.remaining - 1,
                       !.version = q.version + 1] \in RetryPlan
  <2>1. q.remaining - 1 \in Nat
    BY <1>1, <1>3
  <2> DEFINE n == q.remaining - 1
             m == q.version + 1
  <2>2. n \in Nat /\ m \in Nat
    BY <1>2, <2>1
  <2> HIDE DEF n, m
  <2>3. [q EXCEPT !.remaining = n, !.version = m] \in RetryPlan
    BY <2>2 DEF RetryPlan
  <2> QED
    BY <2>3 DEF n, m
<1>4. [q EXCEPT !.status = "exhausted", !.version = q.version + 1] \in RetryPlan
  BY <1>2 DEF RetryPlan
<1> QED
  BY <1>3, <1>4

\* A retry stores its attempt and what is left of its budget.
LEMMA CommitRetryStep ==
  ASSUME IInv, NEW w \in Workers, CommitRetry(w)
  PROVE  IInv'
<1> DEFINE r == req[w]
           p == [r.seen EXCEPT !.remaining = @ - 1, !.version = @ + 1]
<1>1. /\ pc[w] = "staged" /\ r.use = "retry" /\ ~IsSpent(r)
      /\ SaveDelivery(w) /\ SavePlan(r, p) /\ Finished(w)
      /\ active' = [active EXCEPT ![r.delivery] = r.plan]
      /\ UNCHANGED <<accepted, outages, feedback, anchors, deadLetters>>
  BY DEF CommitRetry, Committing
<1>2. SavesDelivery(r)
  BY <1>1 DEF SavesDelivery
<1>3. /\ r.delivery \in Deliveries /\ r.plan \in PlanIds
      /\ r.seen \in RetryPlan /\ r.seen.remaining > 0
  BY <1>1, CommittedCopy, RequestFields DEF IsSpent, HasRemaining
<1>4. p \in RetryPlan
  BY <1>3, PlanTypes
<1>5. TypeOK'
  <2> HIDE DEF p, r
  <2>1. plan' \in [Deliveries -> [PlanIds -> RetryPlan]]
    BY <1>1, <1>3, <1>4 DEF IInv, TypeOK, SavePlan
  <2>2. active' \in [Deliveries -> PlanIds \cup {None}]
    BY <1>1, <1>3 DEF IInv, TypeOK
  <2> QED
    BY <1>1, <2>1, <2>2, SavedDelivery, FinishedTypes DEF IInv, TypeOK
<1>6. CompletedIsAcked' /\ DeadLetteredHasEntry'
  BY <1>1, <1>2, SaveWithoutFeedback, SaveWithoutDeadLetter
<1> QED
  BY <1>1, <1>5, <1>6, SavedDelivery, CommitStep

\* A unit of work on a plan alone leaves the deliveries as they are.
LEMMA PlanOnlyStep ==
  ASSUME IInv, NEW w \in Workers, Finished(w),
         NEW r \in Request, r.use \in {"retry", "requestRetry"},
         NEW p \in RetryPlan, SavePlan(r, p),
         active' \in [Deliveries -> PlanIds \cup {None}],
         UNCHANGED <<accepted, outages, delivery, feedback, anchors,
                     deadLetters>>
  PROVE  IInv'
<1>1. r.delivery \in Deliveries /\ r.plan \in PlanIds
  BY RequestFields
<1>2. plan' \in [Deliveries -> [PlanIds -> RetryPlan]]
  BY <1>1 DEF IInv, TypeOK, SavePlan
<1>3. TypeOK'
  BY <1>2, FinishedTypes DEF IInv, TypeOK
<1>4. /\ HistoryExplainsStatus' /\ AttemptsAreSettled'
      /\ CompletedIsAcked' /\ DeadLetteredHasEntry'
  BY DEF IInv, HistoryExplainsStatus, AttemptsAreSettled, CompletedIsAcked,
         IsAcked, DeadLetteredHasEntry
<1> QED
  BY <1>3, <1>4, CommitStep

\* A plan without remaining attempts is closed.
LEMMA CommitExhaustStep ==
  ASSUME IInv, NEW w \in Workers, CommitExhaust(w)
  PROVE  IInv'
<1> DEFINE r == req[w]
           p == [r.seen EXCEPT !.status = "exhausted", !.version = @ + 1]
<1>1. /\ pc[w] = "staged" /\ r.use = "retry"
      /\ SavePlan(r, p) /\ Finished(w)
      /\ active' =
           [active EXCEPT ![r.delivery] = IF @ = r.plan THEN None ELSE @]
      /\ UNCHANGED <<accepted, outages, delivery, feedback, anchors,
                     deadLetters>>
  BY DEF CommitExhaust, Committing
<1>2. r \in Request /\ r.delivery \in Deliveries /\ r.seen \in RetryPlan
  BY <1>1, CommittedCopy, RequestFields
<1>3. p \in RetryPlan
  BY <1>2, PlanTypes
<1>4. active' \in [Deliveries -> PlanIds \cup {None}]
  BY <1>1, <1>2 DEF IInv, TypeOK
<1> HIDE DEF p
<1> QED
  BY <1>1, <1>2, <1>3, <1>4, PlanOnlyStep

\* A retry request creates its plan.
LEMMA CommitRequestRetryStep ==
  ASSUME IInv, NEW w \in Workers, CommitRequestRetry(w)
  PROVE  IInv'
<1> DEFINE r == req[w]
           p == [status |-> "scheduled", remaining |-> r.budget,
                 budget |-> r.budget, version |-> 1]
<1>1. /\ pc[w] = "staged" /\ r.use = "requestRetry"
      /\ SavePlan(r, p) /\ Finished(w)
      /\ active' = [active EXCEPT ![r.delivery] = r.plan]
      /\ UNCHANGED <<accepted, outages, delivery, feedback, anchors,
                     deadLetters>>
  BY DEF CommitRequestRetry, Committing
<1>2. /\ r \in Request /\ r.delivery \in Deliveries
      /\ r.plan \in PlanIds /\ r.budget \in Budgets
  BY <1>1, CommittedCopy, RequestFields
<1>3. p \in RetryPlan
  BY <1>2, BudgetsAssumption DEF RetryPlan
<1>4. active' \in [Deliveries -> PlanIds \cup {None}]
  BY <1>1, <1>2 DEF IInv, TypeOK
<1> HIDE DEF p
<1> QED
  BY <1>1, <1>2, <1>3, <1>4, PlanOnlyStep

\* A delivery is dead-lettered together with its entry.
LEMMA CommitDeadLetterStep ==
  ASSUME IInv, NEW w \in Workers, CommitDeadLetter(w)
  PROVE  IInv'
<1>1. /\ pc[w] = "staged" /\ req[w].use = "deadLetter" /\ SaveDelivery(w)
      /\ Finished(w)
      /\ deadLetters' = deadLetters \cup {req[w].delivery}
      /\ UNCHANGED <<accepted, outages, feedback, anchors, plan, active>>
  BY DEF CommitDeadLetter, Committing
<1>2. SavesDelivery(req[w])
  BY <1>1 DEF SavesDelivery
<1>3. deadLetters' \subseteq Deliveries
  BY <1>1, CommittedCopy DEF IInv, TypeOK
<1>4. TypeOK'
  BY <1>1, <1>3, SavedDelivery, FinishedTypes DEF IInv, TypeOK
<1>5. CompletedIsAcked'
  BY <1>1, <1>2, SaveWithoutFeedback
<1>6. DeadLetteredHasEntry'
  <2> SUFFICES ASSUME NEW e \in Deliveries,
                      delivery'[e].status = "DeadLettered"
               PROVE  e \in deadLetters'
    BY DEF DeadLetteredHasEntry
  <2>1. CASE e = req[w].delivery
    BY <1>1, <2>1
  <2>2. CASE e # req[w].delivery
    <3>1. delivery'[e] = delivery[e]
      BY <1>1, <2>2, SavedDelivery
    <3> QED
      BY <1>1, <3>1 DEF IInv, DeadLetteredHasEntry
  <2> QED
    BY <2>1, <2>2
<1> QED
  BY <1>1, <1>4, <1>5, <1>6, SavedDelivery, CommitStep

\* The row and the anchor of a feedback request are well typed.
LEMMA FeedbackTypes ==
  ASSUME NEW r \in FeedbackRequest
  PROVE  /\ RowOf(r) \in FeedbackRow
         /\ [id |-> AnchorIdOf(r), request |-> r] \in Anchor
<1>1. /\ r.use \in FeedbackUse /\ r.delivery \in Deliveries
      /\ r.attempt \in Nat /\ r.ref \in Refs /\ r.key \in Keys
  BY BoundsAssumption DEF FeedbackRequest
<1>2. IdOf(r) \in FeedbackId
  BY <1>1 DEF IdOf, FeedbackId, FeedbackUse
<1>3. StatusOf(r) \in {"ack", "fail", "timeout"}
  BY DEF StatusOf
<1>4. AnchorIdOf(r) \in AnchorId
  BY <1>1 DEF AnchorIdOf, AnchorId
<1> QED
  BY <1>1, <1>2, <1>3, <1>4 DEF RowOf, FeedbackRow, Anchor

\* Feedback stores the delivery with the row that explains it, and replaces
\* no row of another delivery.
LEMMA CommitFeedbackStep ==
  ASSUME IInv, NEW w \in Workers, CommitFeedback(w)
  PROVE  IInv'
<1> DEFINE r == req[w]
           a == [id |-> AnchorIdOf(r), request |-> r]
<1>1. /\ pc[w] = "staged" /\ r.use \in FeedbackUse /\ SaveDelivery(w)
      /\ Finished(w)
      /\ feedback' = Put(feedback, RowOf(r))
      /\ anchors' = Put(anchors, a)
      /\ UNCHANGED <<accepted, outages, plan, active, deadLetters>>
  BY DEF CommitFeedback, Committing
<1>2. r \in FeedbackRequest /\ r.use # "deadLetter" /\ SavesDelivery(r)
  BY <1>1, CommittedCopy, RequestFields DEF SavesDelivery, FeedbackUse
<1>3. /\ feedback' \subseteq FeedbackRow /\ RowOf(r) \in feedback'
      /\ anchors' \subseteq Anchor
  <2> HIDE DEF r
  <2> QED
    BY <1>1, <1>2, FeedbackTypes DEF IInv, TypeOK, Put
<1>4. TypeOK'
  BY <1>1, <1>3, SavedDelivery, FinishedTypes DEF IInv, TypeOK
<1>5. DeadLetteredHasEntry'
  BY <1>1, <1>2, SaveWithoutDeadLetter
<1>6. CompletedIsAcked'
  <2> SUFFICES ASSUME NEW e \in Deliveries,
                      delivery'[e].status = "Completed"
               PROVE  IsAcked(e)'
    BY DEF CompletedIsAcked
  <2>1. CASE e = r.delivery
    <3>1. rec[w].status = "Completed"
      BY <1>1, <2>1, SavedDelivery
    <3>2. r.use = "ack" /\ r.attempt = LastAttempt(rec[w])
      BY <1>1, <1>2, <3>1, CommittedCopy DEF HasCause
    <3>3. r.attempt = LastAttempt(delivery'[e])
      BY <1>1, <2>1, <3>2, SavedDelivery
    <3>4. /\ RowOf(r).id.delivery = e /\ RowOf(r).id.kind = "command"
          /\ RowOf(r).status = "ack" /\ RowOf(r).attempt = r.attempt
      BY <2>1, <3>2 DEF RowOf, IdOf, StatusOf
    <3> QED
      BY <1>3, <3>3, <3>4 DEF IsAcked
  <2>2. CASE e # r.delivery
    <3>1. delivery'[e] = delivery[e]
      BY <1>1, <2>2, SavedDelivery
    <3>2. PICK f \in feedback : /\ f.id.delivery = e
                                /\ f.id.kind = "command"
                                /\ f.status = "ack"
                                /\ f.attempt = LastAttempt(delivery[e])
      BY <3>1 DEF IInv, CompletedIsAcked, IsAcked
    <3>3. RowOf(r).id.delivery = r.delivery
      BY DEF RowOf, IdOf
    <3>4. f \in feedback'
      BY <1>1, <2>2, <3>2, <3>3 DEF Put
    <3> QED
      BY <3>1, <3>2, <3>4 DEF IsAcked
  <2> QED
    BY <2>1, <2>2
<1> QED
  BY <1>1, <1>4, <1>5, <1>6, SavedDelivery, CommitStep
-----------------------------------------------------------------------------
(***************************************************************************)
(* The steps of the handlers, which touch only the worker's own hand.      *)
(***************************************************************************)

\* What a handler loads.
LEMMA LoadedDelivery ==
  ASSUME IInv, NEW w \in Workers, pc[w] # "idle"
  PROVE  /\ req[w] \in Request
         /\ req[w].delivery \in Deliveries
         /\ Loaded(w) \in DeliveryRecord
         /\ IsLawful(Loaded(w))
         /\ IsSettled(Loaded(w))
<1>1. req[w] \in Request
  BY DEF IInv, RequestsInHand
<1>2. req[w].delivery \in Deliveries
  BY <1>1, RequestFields
<1> QED
  BY <1>1, <1>2 DEF IInv, TypeOK, HistoryExplainsStatus, AttemptsAreSettled,
                    Loaded

\* Working on a copy keeps the invariant when the copy is a good one.
LEMMA WorkStep ==
  ASSUME IInv, NEW w \in Workers, pc[w] = "received",
         NEW c \in DeliveryRecord, IsLawful(c), IsSettled(c),
         NEW next \in {"loaded", "ready"}, Work(w, c, next),
         next = "loaded" => /\ c.status = "Dispatching"
                            /\ req[w].use \in {"progress", "retry"},
         next = "ready" /\ SavesDelivery(req[w]) => HasCause(req[w], c)
  PROVE  IInv'
<1> DEFINE r == req[w]
<1>1. r \in Request
  BY LoadedDelivery
<1>2. /\ pc' = [pc EXCEPT ![w] = next]
      /\ rec' = [rec EXCEPT ![w] = c]
      /\ req' = [req EXCEPT ![w] = r]
      /\ UNCHANGED store
      /\ accepted' = accepted /\ outages' = outages
  BY DEF Work, IInv, TypeOK
<1>3. accepted' \in [Deliveries -> Nat] /\ outages' \in 0 .. MaxOutages
  BY <1>2 DEF IInv, TypeOK
<1>4. next \in {"idle", "received", "loaded", "ready", "staged"}
      /\ next # "idle"
  OBVIOUS
<1>5. r \in Request \cup {NoRequest}
  BY <1>1
<1> HIDE DEF r
<1>6. /\ next = "loaded" => r.use \in {"progress", "retry"}
      /\ next = "ready" /\ SavesDelivery(r) => HasCause(r, c)
      /\ next # "staged"
  BY DEF r
<1> QED
  BY <1>1, <1>2, <1>3, <1>4, <1>5, <1>6, HandStep

\* Taking a request leaves the copy alone.
LEMMA TakeStep ==
  ASSUME IInv, NEW w \in Workers, NEW r \in Request, Take(w, r)
  PROVE  IInv'
<1> DEFINE c == rec[w]
<1>1. c \in DeliveryRecord
  BY DEF IInv, TypeOK
<1>2. /\ pc' = [pc EXCEPT ![w] = "received"]
      /\ req' = [req EXCEPT ![w] = r]
      /\ rec' = [rec EXCEPT ![w] = c]
      /\ UNCHANGED store
      /\ accepted' \in [Deliveries -> Nat] /\ outages' \in 0 .. MaxOutages
  BY DEF Take, IInv, TypeOK
<1> HIDE DEF c
<1> QED
  BY <1>1, <1>2, HandStep

\* Whatever is taken is a request.
LEMMA ReceiveStep ==
  ASSUME IInv, NEW w \in Workers, Receive(w)
  PROVE  IInv'
<1>1. ASSUME NEW d \in Deliveries, TakeProgress(w, d)
      PROVE  IInv'
  <2>1. [use |-> "progress", delivery |-> d] \in Request
    BY DEF Request
  <2> QED
    BY <1>1, <2>1, TakeStep DEF TakeProgress
<1>2. ASSUME NEW d \in Deliveries, TakeDeadLetter(w, d)
      PROVE  IInv'
  <2>1. [use |-> "deadLetter", delivery |-> d] \in Request
    BY DEF Request
  <2> QED
    BY <1>2, <2>1, TakeStep DEF TakeDeadLetter
<1>3. ASSUME NEW d \in Deliveries, NEW p \in PlanIds, TakeRetry(w, d, p)
      PROVE  IInv'
  <2>1. plan[d][p] \in RetryPlan
    BY DEF IInv, TypeOK
  <2>2. [use |-> "retry", delivery |-> d, plan |-> p, seen |-> plan[d][p]]
          \in Request
    BY <2>1 DEF Request
  <2> QED
    BY <1>3, <2>2, TakeStep DEF TakeRetry
<1>4. ASSUME NEW d \in Deliveries, NEW p \in PlanIds, NEW n \in Budgets,
             TakeRequestRetry(w, d, p, n)
      PROVE  IInv'
  <2>1. [use |-> "requestRetry", delivery |-> d, plan |-> p, budget |-> n]
          \in Request
    BY DEF Request
  <2> QED
    BY <1>4, <2>1, TakeStep DEF TakeRequestRetry
<1>5. ASSUME NEW r \in FeedbackRequest, TakeFeedback(w, r)
      PROVE  IInv'
  <2>1. r \in Request
    BY DEF Request
  <2> QED
    BY <1>5, <2>1, TakeStep DEF TakeFeedback
<1> QED
  BY <1>1, <1>2, <1>3, <1>4, <1>5 DEF Receive

\* The handlers: each works on the delivery it loaded.
WorksOn(w) ==
  \/ Progress(w) \/ Retry(w) \/ Exhaust(w)
  \/ Ack(w) \/ Reject(w) \/ SignalDelivered(w) \/ SignalFailed(w)
  \/ TimeOut(w) \/ RequestRetry(w) \/ DeadLetter(w)

\* A handler that will save the delivery makes the copy for its request, the
\* others only read.
LEMMA HandlerWorks ==
  ASSUME NEW w \in Workers, WorksOn(w)
  PROVE  LET r == req[w]
             d == Loaded(w)
         IN  /\ pc[w] = "received"
             /\ Accepts(r, d)
             /\ IF SavesDelivery(r)
                  THEN Work(w, CopyOf(r, d),
                            IF Starts(r) THEN "loaded" ELSE "ready")
                  ELSE Work(w, d, "ready")
<1> DEFINE r == req[w]
           d == Loaded(w)
<1>1. pc[w] = "received" /\ Accepts(r, d)
  BY DEF WorksOn, Progress, Retry, Exhaust, Ack, Reject, SignalDelivered,
         SignalFailed, TimeOut, RequestRetry, DeadLetter, Serves
<1>2. CASE Exhaust(w) \/ RequestRetry(w)
  <2>1. ~SavesDelivery(r) /\ Work(w, d, "ready")
    BY <1>2 DEF Exhaust, RequestRetry, Serves, SavesDelivery
  <2> QED
    BY <1>1, <2>1
<1>3. CASE Progress(w) \/ Retry(w)
  <2>1. /\ SavesDelivery(r) /\ Starts(r)
        /\ Work(w, CopyOf(r, d), "loaded")
    BY <1>3 DEF Progress, Retry, Serves, SavesDelivery, Starts, CopyOf
  <2> QED
    BY <1>1, <2>1
<1>4. CASE ~(Exhaust(w) \/ RequestRetry(w) \/ Progress(w) \/ Retry(w))
  <2>1. /\ SavesDelivery(r) /\ ~Starts(r)
        /\ Work(w, CopyOf(r, d), "ready")
    BY <1>4 DEF WorksOn, Ack, Reject, SignalDelivered, SignalFailed, TimeOut,
                DeadLetter, Serves, SavesDelivery, Starts, CopyOf
  <2> QED
    BY <1>1, <2>1
<1> QED
  BY <1>2, <1>3, <1>4

\* Whatever the request, the worker's copy is worth committing.
LEMMA HandlerStep ==
  ASSUME IInv, NEW w \in Workers, WorksOn(w)
  PROVE  IInv'
<1> DEFINE r == req[w]
           d == Loaded(w)
           c == CopyOf(r, d)
<1>1. pc[w] = "received" /\ Accepts(r, d)
  BY HandlerWorks
<1>2. /\ r \in Request /\ d \in DeliveryRecord /\ IsLawful(d) /\ IsSettled(d)
  BY <1>1, LoadedDelivery
<1>3. CASE SavesDelivery(r)
  <2> DEFINE next == IF Starts(r) THEN "loaded" ELSE "ready"
  <2>1. /\ Work(w, c, next)
        /\ next \in {"loaded", "ready"}
        /\ next = "loaded" => Starts(r)
    BY <1>3, HandlerWorks
  <2> HIDE DEF r, d, next
  <2>2. IsCopyFor(r, c, d)
    BY <1>1, <1>2, <1>3, CopyIsMade
  <2> HIDE DEF c
  <2>3. /\ c \in DeliveryRecord /\ IsLawful(c) /\ IsSettled(c)
        /\ HasCause(r, c)
        /\ Starts(r) => c.status = "Dispatching"
    BY <2>2 DEF IsCopyFor, GoodCopy
  <2> QED
    BY <1>1, <2>1, <2>3, WorkStep DEF Starts, r
<1>4. CASE ~SavesDelivery(r)
  <2>1. Work(w, d, "ready")
    BY <1>4, HandlerWorks
  <2> HIDE DEF d
  <2> QED
    BY <1>1, <1>2, <1>4, <2>1, WorkStep
<1> QED
  BY <1>3, <1>4

\* The backend's answer ends the attempt that is being dispatched.
LEMMA DispatchStep ==
  ASSUME IInv, NEW w \in Workers, Dispatched(w) \/ DispatchFailed(w)
  PROVE  IInv'
<1> DEFINE c == rec[w]
           r == req[w]
<1>1. /\ pc[w] = "loaded"
      /\ pc' = [pc EXCEPT ![w] = "ready"]
      /\ \/ rec' = [rec EXCEPT ![w] = Deliver(c)]
         \/ rec' = [rec EXCEPT ![w] = FailAttempt(c)]
      /\ UNCHANGED store /\ req' = req /\ outages' = outages
  BY DEF Dispatched, DispatchFailed
<1>2. /\ c \in DeliveryRecord /\ IsLawful(c) /\ IsSettled(c)
      /\ c.status = "Dispatching"
  BY <1>1 DEF IInv, TypeOK, CopiesAreLawful, InHand, DispatchesAreOpen
<1>3. r \in Request /\ r.delivery \in Deliveries
  BY <1>1, LoadedDelivery
<1>4. req' = [req EXCEPT ![w] = r]
  BY <1>1 DEF IInv, TypeOK
<1>5. outages' \in 0 .. MaxOutages
  BY <1>1 DEF IInv, TypeOK
<1>6. accepted' \in [Deliveries -> Nat]
  BY <1>3 DEF Dispatched, DispatchFailed, IInv, TypeOK
<1> HIDE DEF c, r
<1>7. /\ GoodCopy(Deliver(c), c) /\ Deliver(c).status = "Delivered"
      /\ GoodCopy(FailAttempt(c), c) /\ FailAttempt(c).status = "Failed"
  BY <1>2, EndCopy
<1>8. HasCause(r, Deliver(c)) /\ HasCause(r, FailAttempt(c))
  BY <1>7 DEF HasCause
<1>9. ASSUME NEW x \in {Deliver(c), FailAttempt(c)},
             rec' = [rec EXCEPT ![w] = x]
      PROVE  IInv'
  <2>1. x \in DeliveryRecord /\ IsLawful(x) /\ IsSettled(x) /\ HasCause(r, x)
    BY <1>7, <1>8 DEF GoodCopy
  <2>2. r \in Request \cup {NoRequest}
    BY <1>3
  <2> QED
    BY <1>1, <1>3, <1>4, <1>5, <1>6, <1>9, <2>1, <2>2, HandStep
<1> QED
  BY <1>1, <1>9

\* Staging writes nothing that others see.
LEMMA StageStep ==
  ASSUME IInv, NEW w \in Workers, Stage(w)
  PROVE  IInv'
<1> DEFINE c == rec[w]
           r == req[w]
<1>1. /\ pc[w] = "ready" /\ pc' = [pc EXCEPT ![w] = "staged"]
      /\ UNCHANGED store
      /\ rec' = [rec EXCEPT ![w] = c] /\ req' = [req EXCEPT ![w] = r]
      /\ accepted' \in [Deliveries -> Nat] /\ outages' \in 0 .. MaxOutages
  BY DEF Stage, IInv, TypeOK
<1>2. /\ c \in DeliveryRecord /\ IsLawful(c) /\ IsSettled(c)
      /\ SavesDelivery(r) => HasCause(r, c)
  BY <1>1 DEF IInv, TypeOK, CopiesAreLawful, InHand, CopiesHaveCause
<1>3. r \in Request
  BY <1>1, LoadedDelivery
<1> HIDE DEF c, r
<1>4. r \in Request \cup {NoRequest}
  BY <1>3
<1> QED
  BY <1>1, <1>2, <1>3, <1>4, HandStep

\* A request that is refused, whose commit fails or whose dispatch is answered
\* in vain, leaves no trace.
LEMMA PutDownStep ==
  ASSUME IInv, NEW w \in Workers,
         Refuse(w) \/ CommitFails(w) \/ DropsAnswer(w)
  PROVE  IInv'
<1> DEFINE c == ScheduledDelivery
           r == NoRequest
<1>1. /\ pc' = [pc EXCEPT ![w] = "idle"]
      /\ rec' = [rec EXCEPT ![w] = c] /\ req' = [req EXCEPT ![w] = r]
      /\ UNCHANGED store
  BY DEF Refuse, CommitFails, DropsAnswer, Finished
<1>2. accepted' \in [Deliveries -> Nat]
  BY DEF Refuse, CommitFails, DropsAnswer, IInv, TypeOK
<1>3. outages' \in 0 .. MaxOutages
  BY BoundsAssumption DEF Refuse, CommitFails, DropsAnswer, IInv, TypeOK
<1>4. c \in DeliveryRecord
  BY DEF ScheduledDelivery, DeliveryRecord, Status
<1>5. r \in Request \cup {NoRequest}
  OBVIOUS
<1> HIDE DEF c, r
<1> QED
  BY <1>1, <1>2, <1>3, <1>4, <1>5, HandStep

-----------------------------------------------------------------------------
(***************************************************************************)
(* The theorems.                                                           *)
(***************************************************************************)

\* Every step of every worker keeps the invariant.
LEMMA NextIInv == IInv /\ [Next]_vars => IInv'
<1> SUFFICES ASSUME IInv, [Next]_vars PROVE IInv'
  OBVIOUS
<1>1. ASSUME NEW w \in Workers, Receive(w)
      PROVE  IInv'
  BY <1>1, ReceiveStep
<1>2. ASSUME NEW w \in Workers, Handle(w)
      PROVE  IInv'
  BY <1>2, HandlerStep, DispatchStep, StageStep, PutDownStep DEF Handle, WorksOn
<1>3. ASSUME NEW w \in Workers, Commit(w)
      PROVE  IInv'
  BY <1>3, CommitProgressStep, CommitFeedbackStep, CommitRetryStep,
     CommitExhaustStep, CommitRequestRetryStep, CommitDeadLetterStep
     DEF Commit
<1>4. ASSUME NEW w \in Workers, CommitFails(w) \/ DropsAnswer(w)
      PROVE  IInv'
  BY <1>4, PutDownStep
<1>5. CASE UNCHANGED vars
  BY <1>5 DEF vars, store, IInv, TypeOK, RequestsInHand,
     HistoryExplainsStatus, AttemptsAreSettled, CompletedIsAcked, IsAcked,
     DeadLetteredHasEntry, CopiesAreLawful, InHand, DispatchesAreOpen,
     CopiesHaveCause
<1> QED
  BY <1>1, <1>2, <1>3, <1>4, <1>5 DEF Next

LEMMA Invariance == Spec => []IInv
  BY InitIInv, NextIInv, PTL DEF Spec

\* The store and the workers' copies always hold values of the right shape.
THEOREM TypeCorrect == Spec => []TypeOK
<1>1. IInv => TypeOK
  BY DEF IInv
<1> QED
  BY <1>1, Invariance, PTL

\* However many workers race, the history of every stored delivery is a
\* chain of allowed status changes that leads to its status.
THEOREM HistoryIsTrue == Spec => []HistoryExplainsStatus
<1>1. IInv => HistoryExplainsStatus
  BY DEF IInv
<1> QED
  BY <1>1, Invariance, PTL

\* However dispatches, signals and timeouts race, a stored delivery has at
\* most its last attempt open, exactly while it is dispatching.
THEOREM AttemptsStaySettled == Spec => []AttemptsAreSettled
<1>1. IInv => AttemptsAreSettled
  BY DEF IInv
<1> QED
  BY <1>1, Invariance, PTL

\* No delivery is completed without an acknowledgement of its last attempt.
THEOREM CompletedNeedsAck == Spec => []CompletedIsAcked
<1>1. IInv => CompletedIsAcked
  BY DEF IInv
<1> QED
  BY <1>1, Invariance, PTL

\* No delivery is dead-lettered without its entry.
THEOREM DeadLetteredNeedsEntry == Spec => []DeadLetteredHasEntry
<1>1. IInv => DeadLetteredHasEntry
  BY DEF IInv
<1> QED
  BY <1>1, Invariance, PTL

-----------------------------------------------------------------------------
(***************************************************************************)
(* The count of dispatches. The copies in hand are counted like the stored *)
(* deliveries they replace, whichever delivery that turns out to be.       *)
(***************************************************************************)
CopiesAreCounted ==
  \A w \in Workers : InHand(w) /\ SavesDelivery(req[w]) => IsCounted(rec[w])

JInv == DispatchesAreJournalled /\ CopiesAreCounted

\* The journal property says of each delivery what the lemmas say.
LEMMA JournalledIsCounted ==
  DispatchesAreJournalled <=> \A d \in Deliveries : IsCounted(delivery[d])
  BY DEF DispatchesAreJournalled, IsCounted, Dispatches

\* A worker's step that leaves the store alone has only its own copy to care
\* for.
LEMMA CountedHand ==
  ASSUME IInv, JInv, NEW w \in Workers, delivery' = delivery,
         \A v \in Workers \ {w} :
           pc'[v] = pc[v] /\ req'[v] = req[v] /\ rec'[v] = rec[v],
         InHand(w)' /\ SavesDelivery(req'[w]) => IsCounted(rec'[w])
  PROVE  JInv'
<1>1. DispatchesAreJournalled'
  BY DEF JInv, DispatchesAreJournalled
<1>2. CopiesAreCounted'
  <2> SUFFICES ASSUME NEW v \in Workers, InHand(v)', SavesDelivery(req'[v])
               PROVE  IsCounted(rec'[v])
    BY DEF CopiesAreCounted
  <2>1. CASE v = w
    BY <2>1
  <2>2. CASE v # w
    BY <2>2 DEF JInv, CopiesAreCounted, InHand
  <2> QED
    BY <2>1, <2>2
<1> QED
  BY <1>1, <1>2 DEF JInv

\* What a step leaves alone in the other workers' hands.
LEMMA OtherHands ==
  ASSUME IInv, NEW w \in Workers,
         Receive(w) \/ Handle(w) \/ Commit(w) \/ CommitFails(w) \/ DropsAnswer(w)
  PROVE  \A v \in Workers \ {w} :
           pc'[v] = pc[v] /\ req'[v] = req[v] /\ rec'[v] = rec[v]
<1>1. CASE Receive(w)
  BY <1>1 DEF Receive, TakeProgress, TakeDeadLetter, TakeRetry,
     TakeRequestRetry, TakeFeedback, Take, IInv, TypeOK
<1>2. CASE WorksOn(w)
  BY <1>2, HandlerWorks DEF Work, IInv, TypeOK
<1>3. CASE Dispatched(w) \/ DispatchFailed(w) \/ Stage(w) \/ Refuse(w)
  BY <1>3 DEF Dispatched, DispatchFailed, Stage, Refuse, Finished, IInv, TypeOK
<1>4. CASE Commit(w) \/ CommitFails(w) \/ DropsAnswer(w)
  BY <1>4 DEF Commit, CommitProgress, CommitFeedback, CommitRetry,
     CommitExhaust, CommitRequestRetry, CommitDeadLetter, Committing,
     CommitFails, DropsAnswer, Finished, IInv, TypeOK
<1> QED
  BY <1>1, <1>2, <1>3, <1>4 DEF Handle, WorksOn

\* A commit either stores the copy of a request that saves the delivery, or
\* leaves the deliveries alone.
LEMMA CommitSaves ==
  ASSUME NEW w \in Workers, Commit(w)
  PROVE  /\ pc[w] = "staged"
         /\ Finished(w)
         /\ IF SavesDelivery(req[w]) THEN SaveDelivery(w)
                                     ELSE delivery' = delivery
  BY DEF Commit, CommitProgress, CommitFeedback, CommitRetry, CommitExhaust,
     CommitRequestRetry, CommitDeadLetter, Committing, SavesDelivery,
     FeedbackUse

\* Taking a request, staging and putting down make no copy.
LEMMA CountedRest ==
  ASSUME IInv, JInv, NEW w \in Workers,
         Receive(w) \/ Stage(w) \/ Refuse(w) \/ CommitFails(w) \/ DropsAnswer(w)
  PROVE  JInv'
<1>1. delivery' = delivery
  BY DEF Receive, TakeProgress, TakeDeadLetter, TakeRetry, TakeRequestRetry,
     TakeFeedback, Take, Stage, Refuse, CommitFails, DropsAnswer, store
<1>2. InHand(w)' =>
        InHand(w) /\ req'[w] = req[w] /\ rec'[w] = rec[w]
  BY DEF Receive, TakeProgress, TakeDeadLetter, TakeRetry, TakeRequestRetry,
     TakeFeedback, Take, Stage, Refuse, CommitFails, DropsAnswer, Finished, InHand,
     IInv, TypeOK
<1> QED
  BY <1>1, <1>2, OtherHands, CountedHand
     DEF Handle, JInv, CopiesAreCounted

LEMMA CountedWork ==
  ASSUME IInv, JInv, NEW w \in Workers, WorksOn(w)
  PROVE  JInv'
<1> DEFINE r == req[w]
           d == Loaded(w)
           c == CopyOf(r, d)
<1>1. /\ pc[w] = "received" /\ Accepts(r, d)
      /\ delivery' = delivery /\ req' = req
      /\ SavesDelivery(r) => rec'[w] = c
  BY HandlerWorks DEF Work, store, IInv, TypeOK
<1>2. /\ r \in Request /\ d \in DeliveryRecord /\ IsLawful(d) /\ IsSettled(d)
      /\ IsCounted(d)
  BY <1>1, LoadedDelivery, JournalledIsCounted DEF Loaded, JInv
<1>3. SavesDelivery(r) => IsCounted(c)
  <2> HIDE DEF r, d
  <2> QED
    BY <1>1, <1>2, CopyIsMade DEF IsCopyFor, Grows
<1> QED
  BY <1>1, <1>3, OtherHands, CountedHand DEF Handle, WorksOn

LEMMA CountedDispatch ==
  ASSUME IInv, JInv, NEW w \in Workers, Dispatched(w) \/ DispatchFailed(w)
  PROVE  JInv'
<1> DEFINE c == rec[w]
<1>1. /\ pc[w] = "loaded" /\ delivery' = delivery /\ req' = req
      /\ rec'[w] \in {Deliver(c), FailAttempt(c)}
  BY DEF Dispatched, DispatchFailed, store, IInv, TypeOK
<1>2. /\ c \in DeliveryRecord /\ IsLawful(c) /\ IsSettled(c)
      /\ c.status = "Dispatching"
      /\ SavesDelivery(req[w]) => IsCounted(c)
  BY <1>1 DEF IInv, TypeOK, CopiesAreLawful, InHand, DispatchesAreOpen, JInv,
     CopiesAreCounted
<1>3. IsCounted(c) => IsCounted(Deliver(c)) /\ IsCounted(FailAttempt(c))
  <2> HIDE DEF c
  <2> QED
    BY <1>2, EndCopy DEF Grows
<1> QED
  BY <1>1, <1>2, <1>3, OtherHands, CountedHand DEF Handle

LEMMA CountedCommit ==
  ASSUME IInv, JInv, NEW w \in Workers, Commit(w)
  PROVE  JInv'
<1>1. pc[w] = "staged" /\ Finished(w) /\ ~InHand(w)'
  BY CommitSaves DEF Finished, InHand, IInv, TypeOK
<1>2. CopiesAreCounted'
  BY <1>1, OtherHands DEF CopiesAreCounted, InHand, JInv
<1>3. DispatchesAreJournalled'
  <2>1. CASE SavesDelivery(req[w])
    <3> SUFFICES ASSUME NEW d \in Deliveries PROVE IsCounted(delivery'[d])
      BY DEF DispatchesAreJournalled, IsCounted, Dispatches
    <3>1. SaveDelivery(w) /\ IsCounted(rec[w])
      BY <1>1, <2>1, CommitSaves DEF JInv, CopiesAreCounted, InHand
    <3>2. CASE d = req[w].delivery
      BY <1>1, <3>1, <3>2, SavedDelivery DEF IsCounted
    <3>3. CASE d # req[w].delivery
      BY <1>1, <3>1, <3>3, SavedDelivery, JournalledIsCounted DEF JInv
    <3> QED
      BY <3>2, <3>3
  <2>2. CASE ~SavesDelivery(req[w])
    BY <2>2, CommitSaves DEF JInv, DispatchesAreJournalled
  <2> QED
    BY <2>1, <2>2
<1> QED
  BY <1>2, <1>3 DEF JInv

LEMMA NextJInv == IInv /\ JInv /\ [Next]_vars => JInv'
<1> SUFFICES ASSUME IInv, JInv, [Next]_vars PROVE JInv'
  OBVIOUS
<1>1. CASE UNCHANGED vars
  BY <1>1 DEF vars, store, JInv, DispatchesAreJournalled, CopiesAreCounted,
              InHand
<1> QED
  BY <1>1, CountedRest, CountedWork, CountedDispatch, CountedCommit
     DEF Next, Handle, WorksOn

\* However many workers race, the history of a stored delivery has one
\* dispatching entry for every attempt: no attempt is started off the record,
\* and none is recorded twice.
THEOREM DispatchesStayJournalled == Spec => []DispatchesAreJournalled
<1>1. Init => JInv
  <2> SUFFICES ASSUME Init PROVE JInv
    OBVIOUS
  <2> DEFINE s == ScheduledDelivery
  <2>1. s \in DeliveryRecord /\ CanStart(s)
    BY DEF ScheduledDelivery, DeliveryRecord, Status, CanStart
  <2>2. IsCounted(s)
    <3>1. Dispatches(<<>>) = {}
      BY DEF Dispatches
    <3> QED
      BY <3>1, FS_EmptySet DEF IsCounted, ScheduledDelivery, LastAttempt
  <2>3. IsCounted(StartAttempt(s))
    <3> HIDE DEF s
    <3> QED
      BY <2>1, <2>2, StartGrows DEF Grows
  <2>4. \A d \in Deliveries : IsCounted(delivery[d])
    BY <2>2, <2>3 DEF Init
  <2> QED
    BY <2>4, JournalledIsCounted DEF Init, JInv, CopiesAreCounted, InHand
<1>2. JInv => DispatchesAreJournalled
  BY DEF JInv
<1> QED
  BY <1>1, <1>2, NextJInv, Invariance, PTL DEF Spec
=============================================================================
