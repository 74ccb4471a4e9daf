----------------------- MODULE ReplayPreparationProofs ----------------------
(***************************************************************************)
(* Replays are prepared from trusted dead letters however many workers     *)
(* prepare them; with one worker, once each and for one approval.          *)
(***************************************************************************)
EXTENDS ReplayPreparation, FoldProofs, SequenceTheorems

\* A worker past the checks holds a command that still passes them.
WorkIsTrusted ==
  \A w \in Workers : pc[w] \in {"prepared", "staged"} => IsTrusted(command[w])

RInv == StoreOK /\ WorkOK /\ PreparedIsTrusted /\ WorkIsTrusted

\* Appending an entry tells of it, and of nothing else that was not told.
LEMMA AppendTells ==
  ASSUME trail \in Seq(Entry), NEW k \in Kinds, NEW x \in DeadLetters \cup {None},
         Append1(k, x)
  PROVE  /\ trail' \in Seq(Entry)
         /\ \A j \in Kinds, d \in DeadLetters \cup {None} :
              Tells(j, d)' <=> (Tells(j, d) \/ (j = k /\ d = x))
<1> DEFINE e == [kind |-> k, of |-> x]
<1>1. e \in Entry /\ trail' = Append(trail, e)
  BY DEF Append1, Entry
<1>2. /\ Len(trail) \in Nat
      /\ DOMAIN trail = 1 .. Len(trail)
      /\ DOMAIN trail' = 1 .. (Len(trail) + 1)
      /\ trail'[Len(trail) + 1] = e
      /\ \A i \in 1 .. Len(trail) : trail'[i] = trail[i]
  BY <1>1
<1>3. trail' \in Seq(Entry)
  BY <1>1
<1>4. ASSUME NEW j \in Kinds, NEW d \in DeadLetters \cup {None}
      PROVE  Tells(j, d)' <=> (Tells(j, d) \/ (j = k /\ d = x))
  <2> DEFINE f == [kind |-> j, of |-> d]
  <2>1. (f = e) <=> (j = k /\ d = x)
    OBVIOUS
  <2>2. (\E i \in DOMAIN trail' : trail'[i] = f)
          <=> ((\E i \in DOMAIN trail : trail[i] = f) \/ f = e)
    <3> HIDE DEF e, f
    <3>1. \A i : i \in DOMAIN trail' <=> (i \in DOMAIN trail \/ i = Len(trail) + 1)
      BY <1>2
    <3> QED BY <1>2, <3>1
  <2> QED BY <2>1, <2>2 DEF Tells
<1> QED BY <1>3, <1>4

\* Nothing is trusted before there are dead letters.
LEMMA ReplayInit == Init => RInv
<1> SUFFICES ASSUME Init PROVE RInv
  OBVIOUS
<1>1. StoreOK
  BY DEF Init, StoreOK
<1>2. WorkOK
  BY DEF Init, WorkOK
<1>3. PreparedIsTrusted
  BY DEF Init, PreparedIsTrusted
<1>4. WorkIsTrusted
  BY DEF Init, WorkIsTrusted
<1> QED BY <1>1, <1>2, <1>3, <1>4 DEF RInv

\* What is told stays told, so what is trusted stays trusted.
LEMMA TrustLasts ==
  ASSUME RInv, ReplayAssumption, deadLetters \subseteq deadLetters',
         NEW k \in Kinds, NEW x \in DeadLetters \cup {None},
         Append1(k, x) \/ UNCHANGED trail
  PROVE  /\ trail' \in Seq(Entry)
         /\ \A j \in Kinds, d \in DeadLetters : Tells(j, d) => Tells(j, d)'
         /\ \A c \in Commands : IsTrusted(c) => IsTrusted(c)'
<1>1. trail' \in Seq(Entry) /\ \A j \in Kinds, d \in DeadLetters : Tells(j, d) => Tells(j, d)'
  <2>1. CASE Append1(k, x)
    BY <2>1, AppendTells DEF RInv, StoreOK
  <2>2. CASE UNCHANGED trail
    BY <2>2 DEF RInv, StoreOK, Tells
  <2> QED BY <2>1, <2>2
<1>2. ASSUME NEW c \in Commands, IsTrusted(c)
      PROVE  IsTrusted(c)'
  <2>1. c.deadLetter \in DeadLetters /\ "failed" \in Kinds
    BY DEF ReplayAssumption, Command, Kinds
  <2> QED BY <1>1, <1>2, <2>1 DEF IsTrusted
<1> QED BY <1>1, <1>2

\* A step that leaves preparations and workers alone keeps the invariant.
LEMMA TrailStep ==
  ASSUME RInv, ReplayAssumption, deadLetters \subseteq deadLetters',
         deadLetters' \subseteq DeadLetters,
         NEW k \in Kinds, NEW x \in DeadLetters \cup {None},
         Append1(k, x) \/ UNCHANGED trail,
         UNCHANGED <<preparation, ready, pc, command>>
  PROVE  RInv'
<1> USE DEF RInv
<1>1. /\ trail' \in Seq(Entry)
      /\ \A j \in Kinds, d \in DeadLetters : Tells(j, d) => Tells(j, d)'
      /\ \A c \in Commands : IsTrusted(c) => IsTrusted(c)'
  BY TrustLasts
<1>2. StoreOK'
  BY <1>1 DEF StoreOK
<1>3. WorkOK'
  BY DEF WorkOK
<1>4. PreparedIsTrusted'
  BY <1>1 DEF PreparedIsTrusted, StoreOK, Preparation, Kinds
<1>5. WorkIsTrusted'
  BY <1>1 DEF WorkIsTrusted, WorkOK
<1> QED BY <1>2, <1>3, <1>4, <1>5

\* A step of a worker that files nothing keeps the invariant when the worker is
\* trusted wherever it goes.
LEMMA WorkStep ==
  ASSUME RInv, ReplayAssumption, NEW w \in Workers,
         UNCHANGED <<deadLetters, preparation, ready>>,
         NEW k \in Kinds, NEW x \in DeadLetters \cup {None},
         Append1(k, x) \/ UNCHANGED trail,
         NEW to \in {"idle", "received", "prepared", "staged"},
         NEW c \in Commands \cup {None},
         pc' = [pc EXCEPT ![w] = to], command' = [command EXCEPT ![w] = c],
         to # "idle" => c # None,
         to \in {"prepared", "staged"} => IsTrusted(c)
  PROVE  RInv'
<1> USE DEF RInv
<1>1. /\ trail' \in Seq(Entry)
      /\ \A j \in Kinds, d \in DeadLetters : Tells(j, d) => Tells(j, d)'
      /\ \A b \in Commands : IsTrusted(b) => IsTrusted(b)'
  BY TrustLasts
<1>2. StoreOK'
  BY <1>1 DEF StoreOK
<1>3. WorkOK'
  BY DEF WorkOK
<1>4. PreparedIsTrusted'
  BY <1>1 DEF PreparedIsTrusted, StoreOK, Preparation, Kinds
<1>5. WorkIsTrusted'
  BY <1>1 DEF WorkIsTrusted, WorkOK
<1> QED BY <1>2, <1>3, <1>4, <1>5

\* The committed preparation is of the dead letter the worker had checked.
LEMMA CommitStep ==
  ASSUME RInv, ReplayAssumption, NEW w \in Workers, Commit(w)
  PROVE  RInv'
<1> USE DEF RInv
<1>c. PICK c \in Commands : c = command[w] /\ c # None
  BY DEF Commit, WorkOK
<1> DEFINE p == [deadLetter |-> c.deadLetter, approval |-> c.approval]
<1>1. /\ pc[w] = "staged" /\ IsTrusted(c)
      /\ c.deadLetter \in DeadLetters /\ c.approval \in Approvals
      /\ p \in Preparation /\ IdOf(c) \in ReplayIds
  BY <1>c DEF Commit, WorkIsTrusted, ReplayAssumption, Command, Preparation, IdOf, ReplayIds
<1>2. /\ preparation' = [preparation EXCEPT ![IdOf(c)] = p]
      /\ ready' = ready \cup {<<c.deadLetter, c.approval>>}
      /\ Append1("replayReady", c.deadLetter)
      /\ pc' = [pc EXCEPT ![w] = "idle"]
      /\ command' = [command EXCEPT ![w] = None]
      /\ deadLetters' = deadLetters
  BY <1>c DEF Commit, Ends, ReadyKey
<1>3. "replayReady" \in Kinds /\ "failed" \in Kinds
  BY DEF Kinds
<1>4. /\ trail' \in Seq(Entry)
      /\ \A j \in Kinds, d \in DeadLetters : Tells(j, d) => Tells(j, d)'
      /\ \A b \in Commands : IsTrusted(b) => IsTrusted(b)'
  BY <1>1, <1>2, <1>3, TrustLasts
<1>5. Tells("replayReady", c.deadLetter)'
  BY <1>1, <1>2, <1>3, AppendTells DEF StoreOK
<1>6. StoreOK'
  BY <1>1, <1>2, <1>4 DEF StoreOK
<1>7. WorkOK'
  BY <1>2 DEF WorkOK
<1>8. PreparedIsTrusted'
  <2> SUFFICES ASSUME NEW i \in ReplayIds, preparation'[i] # None,
                      NEW d, d = preparation'[i].deadLetter
               PROVE  d \in deadLetters' /\ Tells("failed", d)' /\ Tells("replayReady", d)'
    BY DEF PreparedIsTrusted
  <2>1. CASE i = IdOf(c)
    <3>1. d = c.deadLetter
      BY <1>1, <1>2, <2>1 DEF StoreOK
    <3>2. IsTrusted(c)'
      BY <1>1, <1>4
    <3> QED BY <1>5, <3>1, <3>2 DEF IsTrusted
  <2>2. CASE i # IdOf(c)
    <3>1. preparation[i] # None /\ d = preparation[i].deadLetter
      BY <1>2, <2>2 DEF StoreOK
    <3>2. d \in DeadLetters /\ d \in deadLetters /\ Tells("failed", d) /\ Tells("replayReady", d)
      BY <3>1 DEF PreparedIsTrusted, StoreOK
    <3> QED BY <1>2, <1>3, <1>4, <3>2
  <2> QED BY <2>1, <2>2
<1>9. WorkIsTrusted'
  BY <1>2, <1>4 DEF WorkIsTrusted, WorkOK
<1> QED BY <1>6, <1>7, <1>8, <1>9

\* Every step keeps the invariant: one case for each action.
LEMMA ReplayStep ==
  ASSUME ReplayAssumption, RInv, [Next]_vars
  PROVE  RInv'
<1> USE DEF RInv
<1>k. /\ {"failed", "deadLettered", "replayReady", "replayRejected",
          "trailRejected", "trailGranted"} \subseteq Kinds
      /\ \A c \in Commands : c # None /\ c.deadLetter \in DeadLetters
      /\ deadLetters \subseteq DeadLetters
      /\ pc \in [Workers -> {"idle", "received", "prepared", "staged"}]
      /\ command \in [Workers -> Commands \cup {None}]
      /\ \A w \in Workers : pc[w] # "idle" => command[w] \in Commands
  BY DEF Kinds, ReplayAssumption, Command, StoreOK, WorkOK
<1>1. ASSUME NEW d \in DeadLetters, AuditFailure(d) PROVE RInv'
  BY <1>1, <1>k, TrailStep DEF AuditFailure, work
<1>2. ASSUME NEW d \in DeadLetters, MoveToDeadLetter(d) PROVE RInv'
  BY <1>2, <1>k, TrailStep DEF MoveToDeadLetter, work
<1>3. ASSUME NEW w \in Workers, NEW c \in Commands, Receive(w, c) PROVE RInv'
  BY <1>3, <1>k, WorkStep DEF Receive, store
<1>4. ASSUME NEW w \in Workers, RejectAccess(w) PROVE RInv'
  <2>1. PICK x \in DeadLetters : x = command[w].deadLetter
    BY <1>4, <1>k DEF RejectAccess
  <2>2. Append1("replayRejected", x) /\ UNCHANGED <<deadLetters, preparation, ready>>
    BY <1>4, <2>1 DEF RejectAccess
  <2>3. pc' = [pc EXCEPT ![w] = "idle"] /\ command' = [command EXCEPT ![w] = None]
    BY <1>4 DEF RejectAccess, Ends
  <2> QED BY <1>k, <2>2, <2>3, WorkStep
<1>5. ASSUME NEW w \in Workers, Refuse(w) PROVE RInv'
  BY <1>5, <1>k, WorkStep DEF Refuse, Ends, store
<1>6. ASSUME NEW w \in Workers, Prepare(w) PROVE RInv'
  <2>1. PICK c \in Commands : c = command[w]
    BY <1>6, <1>k DEF Prepare
  <2>2. IsTrusted(c) /\ UNCHANGED <<trail, deadLetters, preparation, ready>>
    BY <1>6, <2>1 DEF Prepare, store
  <2>3. pc' = [pc EXCEPT ![w] = "prepared"] /\ command' = [command EXCEPT ![w] = c]
    BY <1>6, <1>k, <2>1 DEF Prepare, Goes
  <2> QED BY <1>k, <2>2, <2>3, WorkStep
<1>7. ASSUME NEW w \in Workers, Stage(w) PROVE RInv'
  <2>1. PICK c \in Commands : c = command[w]
    BY <1>7, <1>k DEF Stage
  <2>2. IsTrusted(c) /\ UNCHANGED <<trail, deadLetters, preparation, ready>>
    BY <1>7, <2>1 DEF Stage, store, WorkIsTrusted
  <2>3. pc' = [pc EXCEPT ![w] = "staged"] /\ command' = [command EXCEPT ![w] = c]
    BY <1>7, <1>k, <2>1 DEF Stage, Goes
  <2> QED BY <1>k, <2>2, <2>3, WorkStep
<1>8. ASSUME NEW w \in Workers, Collide(w) PROVE RInv'
  BY <1>8, <1>k, WorkStep DEF Collide, Ends, store
<1>9. ASSUME NEW w \in Workers, Commit(w) PROVE RInv'
  BY <1>9, CommitStep
<1>10. ASSUME NEW w \in Workers, CommitFails(w) PROVE RInv'
  BY <1>10, <1>k, WorkStep DEF CommitFails, Ends, store
<1>11. ASSUME NEW r \in Readers, RejectReader(r) PROVE RInv'
  BY <1>11, <1>k, TrailStep DEF RejectReader, work
<1>12. ASSUME NEW r \in Readers, List(r) PROVE RInv'
  BY <1>12, <1>k, TrailStep DEF List, store, work
<1>13. ASSUME NEW r \in Readers, Grant(r) PROVE RInv'
  BY <1>13, <1>k, TrailStep DEF Grant, work
<1>14. ASSUME NEW r \in Readers, GrantFails(r) PROVE RInv'
  BY <1>14, <1>k, TrailStep DEF GrantFails, store, work
<1>15. CASE UNCHANGED vars
  BY <1>15, <1>k, TrailStep DEF vars, store, work
<1> QED
  BY <1>1, <1>2, <1>3, <1>4, <1>5, <1>6, <1>7, <1>8, <1>9, <1>10, <1>11,
     <1>12, <1>13, <1>14, <1>15 DEF Next, Handle, Read

\* The invariant holds throughout, for any number of workers and readers.
LEMMA ReplayInvariant == Spec => []RInv
<1>1. RInv /\ [Next]_vars => RInv'
  BY ReplayStep, ReplayAssumption
<1> QED BY ReplayInit, <1>1, PTL DEF Spec

\* Whatever workers prepare at the same time, a replay that stands prepared
\* comes from an open dead letter with an audited failure, and has its entry.
THEOREM PreparedStaysTrusted == Spec => []PreparedIsTrusted
<1>1. RInv => PreparedIsTrusted
  BY DEF RInv
<1> QED BY ReplayInvariant, <1>1, PTL

-----------------------------------------------------------------------------
\* The rest holds when one worker prepares replays.
OneWorker == \A v, w \in Workers : v = w

\* A staged preparation is still new.
StagedIsNew == \A w \in Workers : pc[w] = "staged" => IsNew(command[w])

SInv == StagedIsNew /\ ReadyAgrees

\* A step that files nothing keeps the index, if what it stages is new.
LEMMA FilesNothing ==
  ASSUME SInv, UNCHANGED <<preparation, ready>>,
         \A w \in Workers : pc'[w] = "staged" =>
           IsNew(command[w]) /\ command'[w] = command[w]
  PROVE  SInv'
<1>1. StagedIsNew'
  BY DEF StagedIsNew, IsNew, IdOf, ReadyKey
<1>2. ReadyAgrees'
  BY DEF SInv, ReadyAgrees
<1> QED BY <1>1, <1>2 DEF SInv

\* The only worker files a preparation under a free identifier.
LEMMA SerialCommit ==
  ASSUME ReplayAssumption, OneWorker, RInv, SInv, NEW w \in Workers, Commit(w)
  PROVE  SInv'
<1>c. PICK c \in Commands : c = command[w] /\ c # None
  BY DEF Commit, RInv, WorkOK
<1> DEFINE p == [deadLetter |-> c.deadLetter, approval |-> c.approval]
<1>1. /\ c.deadLetter \in DeadLetters /\ c.approval \in Approvals
      /\ preparation[IdOf(c)] = None /\ IdOf(c) \in ReplayIds
  BY <1>c DEF Commit, SInv, StagedIsNew, IsNew, ReplayAssumption, Command, IdOf, ReplayIds
<1>2. /\ preparation' = [preparation EXCEPT ![IdOf(c)] = p]
      /\ ready' = ready \cup {<<c.deadLetter, c.approval>>}
      /\ pc' = [pc EXCEPT ![w] = "idle"]
  BY <1>c DEF Commit, Ends, ReadyKey
<1>3. StagedIsNew'
  BY <1>2 DEF StagedIsNew, OneWorker, RInv, WorkOK
<1>4. ReadyAgrees'
  <2> SUFFICES ASSUME NEW d \in DeadLetters, NEW a \in Approvals
               PROVE  <<d, a>> \in ready' <=>
                        preparation'[ReplayIdOf[d]] = [deadLetter |-> d, approval |-> a]
    BY DEF ReadyAgrees
  <2>0. /\ <<d, a>> \in ready <=>
             preparation[ReplayIdOf[d]] = [deadLetter |-> d, approval |-> a]
        /\ None # [deadLetter |-> d, approval |-> a]
        /\ ReplayIdOf[d] \in ReplayIds
        /\ preparation \in [ReplayIds -> Preparation \cup {None}]
    BY DEF SInv, ReadyAgrees, ReplayAssumption, ReplayIds, RInv, StoreOK
  <2>1. CASE ReplayIdOf[d] = IdOf(c)
    <3>1. <<d, a>> \notin ready /\ preparation'[ReplayIdOf[d]] = p
      BY <1>1, <1>2, <2>0, <2>1
    <3>2. <<d, a>> \in ready' <=> (d = c.deadLetter /\ a = c.approval)
      BY <1>2, <3>1
    <3>3. p = [deadLetter |-> d, approval |-> a] <=> (d = c.deadLetter /\ a = c.approval)
      OBVIOUS
    <3> QED BY <3>1, <3>2, <3>3
  <2>2. CASE ReplayIdOf[d] # IdOf(c)
    <3>1. d # c.deadLetter /\ preparation'[ReplayIdOf[d]] = preparation[ReplayIdOf[d]]
      BY <1>2, <2>0, <2>2 DEF IdOf
    <3> QED BY <1>2, <2>0, <3>1
  <2> QED BY <2>1, <2>2
<1> QED BY <1>3, <1>4 DEF SInv

\* Every step of a single worker, and every other step, keeps the index.
LEMMA SerialStep ==
  ASSUME ReplayAssumption, OneWorker, RInv, SInv, [Next]_vars
  PROVE  SInv'
<1> USE DEF SInv, StagedIsNew
<1>p. pc \in [Workers -> {"idle", "received", "prepared", "staged"}]
      /\ command \in [Workers -> Commands \cup {None}]
  BY DEF RInv, WorkOK
<1>1. ASSUME NEW d \in DeadLetters, AuditFailure(d) \/ MoveToDeadLetter(d) PROVE SInv'
  BY <1>1, FilesNothing DEF AuditFailure, MoveToDeadLetter, work
<1>2. ASSUME NEW w \in Workers, NEW c \in Commands, Receive(w, c) PROVE SInv'
  BY <1>2, <1>p, FilesNothing DEF Receive, store
<1>3. ASSUME NEW w \in Workers,
             RejectAccess(w) \/ Refuse(w) \/ Collide(w) \/ CommitFails(w)
      PROVE  SInv'
  BY <1>3, <1>p, FilesNothing DEF RejectAccess, Refuse, Collide, CommitFails, Ends, store
<1>4. ASSUME NEW w \in Workers, Prepare(w) PROVE SInv'
  BY <1>4, <1>p, FilesNothing DEF Prepare, Goes, store
<1>5. ASSUME NEW w \in Workers, Stage(w) PROVE SInv'
  BY <1>5, <1>p, FilesNothing DEF Stage, Goes, store
<1>6. ASSUME NEW w \in Workers, Commit(w) PROVE SInv'
  BY <1>6, SerialCommit
<1>7. ASSUME NEW r \in Readers, RejectReader(r) \/ Read(r) PROVE SInv'
  BY <1>7, FilesNothing DEF RejectReader, Read, List, Grant, GrantFails, store, work
<1>8. CASE UNCHANGED vars
  BY <1>8, FilesNothing DEF vars, store, work
<1> QED
  BY <1>1, <1>2, <1>3, <1>4, <1>5, <1>6, <1>7, <1>8 DEF Next, Handle

\* Both invariants hold throughout with one worker.
LEMMA SerialInvariant == OneWorker => (Spec => [](RInv /\ SInv))
<1> SUFFICES ASSUME OneWorker PROVE Spec => [](RInv /\ SInv)
  OBVIOUS
<1>1. Init => SInv
  BY ReplayAssumption
     DEF Init, SInv, StagedIsNew, ReadyAgrees, ReplayIds, ReplayAssumption
<1>2. RInv /\ SInv /\ [Next]_vars => SInv'
  BY SerialStep, ReplayAssumption
<1> QED BY ReplayInvariant, <1>1, <1>2, PTL DEF Spec

\* With one worker the index of ready replays agrees with the preparations.
THEOREM IndexStaysTrue == OneWorker => (Spec => []ReadyAgrees)
<1>1. RInv /\ SInv => ReadyAgrees
  BY DEF SInv
<1> QED BY SerialInvariant, <1>1, PTL

-----------------------------------------------------------------------------
\* The audited failures change only when one is audited.
LEMMA AuditedStays ==
  ASSUME RInv, NEW k \in Kinds \ {"failed"}, NEW x \in DeadLetters \cup {None},
         Append1(k, x) \/ UNCHANGED trail
  PROVE  UNCHANGED {d \in DeadLetters : Tells("failed", d)}
<1>1. \A d \in DeadLetters : Tells("failed", d)' <=> Tells("failed", d)
  <2>1. CASE Append1(k, x)
    <3>1. "failed" \in Kinds /\ k # "failed" /\ k \in Kinds
      BY DEF Kinds
    <3> QED BY <2>1, <3>1, AppendTells DEF RInv, StoreOK
  <2>2. CASE UNCHANGED trail
    BY <2>2 DEF Tells
  <2> QED BY <2>1, <2>2
<1> QED BY <1>1

\* A step is one of the ledger, or leaves the ledger as it is.
LEMMA LedgerStep ==
  ASSUME ReplayAssumption, RInv, SInv, [Next]_vars
  PROVE  [Ledger!Next]_(<<{d \in DeadLetters : Tells("failed", d)}, deadLetters, preparation>>)
<1> DEFINE audited == {d \in DeadLetters : Tells("failed", d)}
<1>k. /\ {"deadLettered", "replayReady", "replayRejected", "trailRejected", "trailGranted"}
            \subseteq Kinds \ {"failed"}
      /\ "failed" \in Kinds
      /\ None \in DeadLetters \cup {None}
      /\ \A w \in Workers : pc[w] # "idle" => command[w] \in Commands
      /\ \A c \in Commands : c.deadLetter \in DeadLetters /\ c.approval \in Approvals
  BY DEF Kinds, RInv, WorkOK, ReplayAssumption, Command
<1>1. ASSUME NEW d \in DeadLetters, AuditFailure(d)
      PROVE  Ledger!Audit(d)
  <2>1. Append1("failed", d) /\ UNCHANGED <<deadLetters, preparation>>
    BY <1>1 DEF AuditFailure
  <2>2. \A e \in DeadLetters : Tells("failed", e)' <=> (Tells("failed", e) \/ e = d)
    BY <1>k, <2>1, AppendTells DEF RInv, StoreOK
  <2>3. audited' = audited \cup {d}
    BY <2>2
  <2> QED BY <2>1, <2>3 DEF Ledger!Audit
<1>2. ASSUME NEW d \in DeadLetters, MoveToDeadLetter(d)
      PROVE  Ledger!Open(d)
  <2>1. Append1("deadLettered", d) /\ deadLetters' = deadLetters \cup {d} /\ UNCHANGED preparation
    BY <1>2 DEF MoveToDeadLetter
  <2>2. UNCHANGED audited
    BY <1>k, <2>1, AuditedStays
  <2> QED BY <2>1, <2>2 DEF Ledger!Open
<1>3. ASSUME NEW w \in Workers, Commit(w)
      PROVE  \E d \in DeadLetters, a \in Approvals : Ledger!Prepare(d, a)
  <2>c. PICK c \in Commands : c = command[w]
    BY <1>3, <1>k DEF Commit
  <2>1. /\ c.deadLetter \in DeadLetters /\ c.approval \in Approvals
        /\ IsTrusted(c) /\ preparation[IdOf(c)] = None
    BY <1>3, <1>k, <2>c DEF Commit, RInv, WorkIsTrusted, SInv, StagedIsNew, IsNew
  <2>2. /\ preparation' = [preparation EXCEPT ![IdOf(c)] =
                            [deadLetter |-> c.deadLetter, approval |-> c.approval]]
        /\ Append1("replayReady", c.deadLetter)
        /\ UNCHANGED deadLetters
    BY <1>3, <2>c DEF Commit
  <2>3. UNCHANGED audited
    BY <1>k, <2>1, <2>2, AuditedStays
  <2>4. c.deadLetter \in audited \cap deadLetters
    BY <2>1 DEF IsTrusted
  <2>5. Ledger!Prepare(c.deadLetter, c.approval)
    BY <2>1, <2>2, <2>3, <2>4 DEF Ledger!Prepare, IdOf
  <2> QED BY <2>1, <2>5
<1>4. ASSUME NEW w \in Workers, RejectAccess(w)
      PROVE  UNCHANGED <<audited, deadLetters, preparation>>
  <2>1. PICK x \in DeadLetters : x = command[w].deadLetter
    BY <1>4, <1>k DEF RejectAccess
  <2>2. Append1("replayRejected", x)
    BY <1>4, <2>1 DEF RejectAccess
  <2> QED BY <1>4, <1>k, <2>2, AuditedStays DEF RejectAccess
<1>5. ASSUME NEW r \in Readers, RejectReader(r) \/ Grant(r)
      PROVE  UNCHANGED <<audited, deadLetters, preparation>>
  BY <1>5, <1>k, AuditedStays DEF RejectReader, Grant
<1>6. ASSUME UNCHANGED store
      PROVE  UNCHANGED <<audited, deadLetters, preparation>>
  BY <1>6, <1>k, AuditedStays DEF store
<1>7. ASSUME NEW w \in Workers, NEW c \in Commands, Receive(w, c)
      PROVE  UNCHANGED store
  BY <1>7 DEF Receive
<1>8. ASSUME NEW w \in Workers,
             Refuse(w) \/ Prepare(w) \/ Stage(w) \/ Collide(w) \/ CommitFails(w)
      PROVE  UNCHANGED store
  BY <1>8 DEF Refuse, Prepare, Stage, Collide, CommitFails
<1>9. ASSUME NEW r \in Readers, List(r) \/ GrantFails(r)
      PROVE  UNCHANGED store
  BY <1>9 DEF List, GrantFails
<1>10. CASE UNCHANGED vars
  BY <1>10, <1>6 DEF vars
<1>11. CASE Next
  BY <1>1, <1>2, <1>3, <1>4, <1>5, <1>6, <1>7, <1>8, <1>9, <1>11
     DEF Next, Handle, Read, Ledger!Next
<1> QED BY <1>10, <1>11

\* With one worker, preparing replays implements the ledger of replays.
THEOREM ReplaysKeepLedger == OneWorker => (Spec => ReplayLedgerSpec)
<1> SUFFICES ASSUME OneWorker PROVE Spec => ReplayLedgerSpec
  OBVIOUS
<1>1. Init => Ledger!Init
  BY DEF Init, Ledger!Init, Tells, ReplayIds, Ledger!ReplayIds
<1>2. RInv /\ SInv /\ [Next]_vars =>
        [Ledger!Next]_(<<{d \in DeadLetters : Tells("failed", d)}, deadLetters, preparation>>)
  BY LedgerStep, ReplayAssumption
<1> QED BY SerialInvariant, <1>1, <1>2, PTL DEF Spec, ReplayLedgerSpec, Ledger!Spec

-----------------------------------------------------------------------------
(***************************************************************************)
(* What readers want of the trail: the recursion that filters it, one      *)
(* entry after the other.                                                  *)
(***************************************************************************)

\* The entries in F among the first n of t, for every n.
IsMatchOf(it, t, F) ==
  it = [n \in 0 .. Len(t) |->
          IF n = 0 THEN <<>>
          ELSE IF t[n] \in F THEN Append(it[n - 1], t[n])
          ELSE it[n - 1]]

MatchesIn(t, F) == CHOOSE it : IsMatchOf(it, t, F)

LEMMA WantedUnfolds ==
  ASSUME NEW r
  PROVE  Wanted(r) = MatchesIn(trail, filter[r])[Len(trail)]
  BY DEF Wanted, MatchesIn, IsMatchOf

\* The recursion exists: it is a fold over the indices of the trail.
LEMMA MatchesInOrder ==
  ASSUME NEW t \in Seq(Entry), NEW F
  PROVE  LET it == MatchesIn(t, F) IN
         /\ it[0] = <<>>
         /\ \A k \in 1 .. Len(t) :
              it[k] = IF t[k] \in F THEN Append(it[k - 1], t[k])
                                         ELSE it[k - 1]
         /\ \A k \in 0 .. Len(t) : it[k] \in Seq(Entry)
<1> DEFINE n == Len(t)
           S == 1 .. n
           V == Seq(Entry)
           pick == [s \in SUBSET S |-> Latest(s)]
           step == [x \in S \X V |-> IF t[x[1]] \in F THEN Append(x[2], t[x[1]])
                                                      ELSE x[2]]
           it == MatchesIn(t, F)
<1>1. n \in Nat /\ DOMAIN t = S /\ \A i \in S : t[i] \in Entry
  OBVIOUS
<1>2. IsFiniteSet(S) /\ IsPick(pick, S) /\ \A k \in S : Latest(1 .. k) = k
  <2>1. IsFiniteSet(S)
    BY <1>1, FS_Interval
  <2>2. IsPick(pick, S) /\ \A k \in S : Latest(1 .. k) = k
    BY <1>1, LatestIsPick
  <2> QED
    BY <2>1, <2>2
<1>3. step \in [S \X V -> V] /\ <<>> \in V
  BY <1>1
<1>4. PICK f : IsFoldOf(f, S, V, <<>>, pick, step)
  <2> HIDE DEF S, V, pick, step
  <2> QED
    BY <1>2, <1>3, FoldExists
<1> DEFINE g == [k \in 0 .. n |-> f[1 .. k]]
<1>5. IsMatchOf(g, t, F)
  <2>1. ASSUME NEW k \in S
        PROVE  g[k] = IF t[k] \in F THEN Append(g[k - 1], t[k]) ELSE g[k - 1]
    <3>1. /\ 1 .. k \in SUBSET S /\ 1 .. k # {}
          /\ (1 .. k) \ {k} = 1 .. (k - 1)
          /\ k \in 0 .. n /\ k - 1 \in 0 .. n
      <4>1. n \in Nat /\ k \in 1 .. n
        BY <1>1
      <4> HIDE DEF n
      <4>2. 1 .. k \in SUBSET (1 .. n)
        BY <4>1
      <4>3. 1 .. k # {} /\ k \in 0 .. n /\ k - 1 \in 0 .. n
        <5>1. k \in 1 .. k
          BY <4>1
        <5>2. k \in 0 .. n /\ k - 1 \in 0 .. n
          BY <4>1
        <5> QED
          BY <5>1, <5>2
      <4>4. (1 .. k) \ {k} = 1 .. (k - 1)
        BY <4>1
      <4> QED
        BY <4>2, <4>3, <4>4
    <3>2. pick[1 .. k] = k
      BY <1>2, <3>1
    <3>3. /\ f[1 .. k] = step[<<k, f[1 .. (k - 1)]>>]
          /\ f[1 .. (k - 1)] \in V
      <4> HIDE DEF V, pick, step
      <4> QED
        BY <1>4, <3>1, <3>2 DEF IsFoldOf
    <3> HIDE DEF V, S
    <3> QED
      BY <3>1, <3>3
  <2>2. g[0] = <<>>
    <3>1. f[1 .. 0] = <<>>
      <4>1. 1 .. 0 = {}
        OBVIOUS
      <4>2. f[{}] = <<>>
        BY <1>4 DEF IsFoldOf
      <4> QED
        BY <4>1, <4>2
    <3>2. 0 \in 0 .. n
      BY <1>1
    <3> HIDE DEF n
    <3> QED
      BY <3>1, <3>2
  <2>3. g = [k \in 0 .. n |-> g[k]]
    OBVIOUS
  <2> HIDE DEF g
  <2> QED
    BY <1>1, <2>1, <2>2, <2>3 DEF IsMatchOf
<1>6. IsMatchOf(it, t, F)
  BY <1>5 DEF MatchesIn
<1> HIDE DEF it
<1>7. it[0] = <<>>
  BY <1>1, <1>6 DEF IsMatchOf
<1>8. ASSUME NEW k \in S
      PROVE  it[k] = IF t[k] \in F THEN Append(it[k - 1], t[k]) ELSE it[k - 1]
  <2>1. k \in 0 .. n /\ k # 0
    BY <1>1
  <2>2. it = [i \in 0 .. n |->
                IF i = 0 THEN <<>>
                ELSE IF t[i] \in F THEN Append(it[i - 1], t[i])
                ELSE it[i - 1]]
    BY <1>6 DEF IsMatchOf
  <2> HIDE DEF n, S
  <2> QED
    BY <2>1, <2>2
<1>9. \A k \in 0 .. n : it[k] \in Seq(Entry)
  <2> DEFINE G == {k \in Nat : k <= n => it[k] \in V}
  <2>1. 0 \in G
    <3> HIDE DEF V
    <3> QED
      BY <1>3, <1>7
  <2>2. ASSUME NEW k \in Nat, k \in G, k + 1 <= n
        PROVE  it[k + 1] \in V
    <3>1. k + 1 \in S /\ (k + 1) - 1 = k /\ it[k] \in V
      BY <1>1, <2>2
    <3>2. it[k + 1] = IF t[k + 1] \in F THEN Append(it[k], t[k + 1])
                                               ELSE it[k]
      BY <1>8, <3>1
    <3> QED
      BY <1>1, <3>1, <3>2
  <2>3. \A k \in Nat : k \in G => k + 1 \in G
    BY <2>2
  <2> HIDE DEF G
  <2>4. Nat \subseteq G
    BY <2>1, <2>3, NatInduct
  <2> QED
    BY <1>1, <2>4 DEF G
<1> QED
  BY <1>7, <1>8, <1>9 DEF it

\* One entry more on the trail is one more that matches, or none.
LEMMA MatchesGrow ==
  ASSUME NEW t \in Seq(Entry), NEW e \in Entry, NEW F
  PROVE  LET u == Append(t, e)
             before == MatchesIn(t, F)[Len(t)]
         IN  /\ before \in Seq(Entry)
             /\ MatchesIn(u, F)[Len(u)] = IF e \in F THEN Append(before, e)
                                                       ELSE before
<1> DEFINE u == Append(t, e)
           n == Len(t)
           it == MatchesIn(t, F)
           jt == MatchesIn(u, F)
<1>1. /\ u \in Seq(Entry) /\ n \in Nat /\ Len(u) = n + 1
      /\ DOMAIN t = 1 .. n /\ DOMAIN u = 1 .. (n + 1)
      /\ u[n + 1] = e /\ \A k \in 1 .. n : u[k] = t[k]
  OBVIOUS
<1>2. /\ it[0] = <<>>
      /\ \A k \in 1 .. n :
           it[k] = IF t[k] \in F THEN Append(it[k - 1], t[k])
                                      ELSE it[k - 1]
      /\ it[n] \in Seq(Entry)
  BY <1>1, MatchesInOrder
<1> HIDE DEF u
<1>3. /\ jt[0] = <<>>
      /\ \A k \in 1 .. (n + 1) :
           jt[k] = IF u[k] \in F THEN Append(jt[k - 1], u[k])
                                      ELSE jt[k - 1]
  BY <1>1, MatchesInOrder
<1> HIDE DEF it, jt, n
<1>4. \A k \in 0 .. n : jt[k] = it[k]
  <2> DEFINE G == {k \in Nat : k <= n => jt[k] = it[k]}
  <2>1. 0 \in G
    BY <1>2, <1>3
  <2>2. ASSUME NEW k \in Nat, k \in G, k + 1 <= n
        PROVE  jt[k + 1] = it[k + 1]
    <3>1. /\ k + 1 \in 1 .. n /\ k + 1 \in 1 .. (n + 1) /\ (k + 1) - 1 = k
          /\ jt[k] = it[k]
      BY <1>1, <2>2
    <3>2. it[k + 1] = IF t[k + 1] \in F THEN Append(it[k], t[k + 1])
                                               ELSE it[k]
      BY <1>2, <3>1
    <3>3. jt[k + 1] = IF u[k + 1] \in F THEN Append(jt[k], u[k + 1])
                                               ELSE jt[k]
      BY <1>3, <3>1
    <3> QED
      BY <1>1, <3>1, <3>2, <3>3
  <2>3. \A k \in Nat : k \in G => k + 1 \in G
    BY <2>2
  <2> HIDE DEF G
  <2>4. Nat \subseteq G
    BY <2>1, <2>3, NatInduct
  <2> QED
    BY <1>1, <2>4 DEF G
<1>5. jt[n + 1] = IF e \in F THEN Append(it[n], e) ELSE it[n]
  <2>1. n + 1 \in 1 .. (n + 1) /\ (n + 1) - 1 = n /\ jt[n] = it[n]
    BY <1>1, <1>4
  <2> QED
    BY <1>1, <1>3, <2>1
<1> QED
  BY <1>1, <1>2, <1>5 DEF it, jt, u

\* s is the beginning of t, entry by entry.
Leads(s, t) ==
  /\ Len(s) <= Len(t)
  /\ \A i \in 1 .. Len(s) : s[i] = t[i]

LEMMA LeadsOn ==
  ASSUME NEW s \in Seq(Entry), NEW t \in Seq(Entry), NEW u \in Seq(Entry),
         Leads(s, t), Leads(t, u)
  PROVE  Leads(s, u)
  BY DEF Leads

\* What leads t, followed by what t goes on with, leads t.
LEMMA LeadsFurther ==
  ASSUME NEW s \in Seq(Entry), NEW t \in Seq(Entry), NEW u \in Seq(Entry),
         Leads(s, t), Len(s) + Len(u) <= Len(t),
         \A i \in 1 .. Len(u) : u[i] = t[Len(s) + i]
  PROVE  Leads(s \o u, t)
<1> DEFINE m == Len(s)
           n == Len(u)
<1>1. m \in Nat /\ n \in Nat
  OBVIOUS
<1>2. /\ Len(s \o u) = m + n
      /\ \A i \in 1 .. m + n : (s \o u)[i] = IF i <= m THEN s[i] ELSE u[i - m]
  BY ConcatProperties
<1>3. m + n <= Len(t)
  OBVIOUS
<1>4. ASSUME NEW i \in 1 .. m + n PROVE (s \o u)[i] = t[i]
  <2>1. CASE i <= m
    BY <1>1, <1>2, <2>1 DEF Leads
  <2>2. CASE i > m
    <3>1. i - m \in 1 .. n /\ m + (i - m) = i /\ ~(i <= m)
      BY <1>1, <2>2
    <3>2. u[i - m] = t[m + (i - m)]
      BY <3>1
    <3> QED
      BY <1>2, <3>1, <3>2
  <2> QED
    BY <1>1, <2>1, <2>2
<1> HIDE DEF m, n
<1> QED
  BY <1>2, <1>3, <1>4 DEF Leads

\* What a reader wants of the trail only grows at its end.
LEMMA WantedGrows ==
  ASSUME RInv, NEW r, UNCHANGED filter,
         NEW k \in Kinds, NEW x \in DeadLetters \cup {None},
         Append1(k, x) \/ UNCHANGED trail
  PROVE  /\ Wanted(r) \in Seq(Entry)
         /\ Wanted(r)' \in Seq(Entry)
         /\ Leads(Wanted(r), Wanted(r)')
         /\ UNCHANGED trail => Wanted(r)' = Wanted(r)
<1> DEFINE e == [kind |-> k, of |-> x]
           F == filter[r]
           old == MatchesIn(trail, F)[Len(trail)]
           new == MatchesIn(trail', F)[Len(trail')]
<1>1. trail \in Seq(Entry) /\ e \in Entry
  BY DEF RInv, StoreOK, Entry
<1>2. Wanted(r) = old
  BY WantedUnfolds
<1>3. Wanted(r)' = new
  <2>1. Wanted(r)' = MatchesIn(trail', filter'[r])[Len(trail')]
    BY DEF Wanted, MatchesIn, IsMatchOf
  <2> QED
    BY <2>1
<1>4. /\ old \in Seq(Entry)
      /\ LET u == Append(trail, e) IN
         MatchesIn(u, F)[Len(u)] = IF e \in F THEN Append(old, e) ELSE old
  BY <1>1, MatchesGrow
<1>5. new = old \/ new = Append(old, e)
  <2>1. CASE Append1(k, x)
    BY <1>4, <2>1 DEF Append1
  <2>2. CASE UNCHANGED trail
    BY <2>2
  <2> QED
    BY <2>1, <2>2
<1>6. UNCHANGED trail => new = old
  OBVIOUS
<1> HIDE DEF old, new, e
<1>7. new \in Seq(Entry) /\ Leads(old, new)
  <2>1. CASE new = old
    BY <1>4, <2>1 DEF Leads
  <2>2. CASE new = Append(old, e)
    BY <1>1, <1>4, <2>2, AppendProperties DEF Leads
  <2> QED
    BY <1>5, <2>1, <2>2
<1> QED
  BY <1>2, <1>3, <1>4, <1>6, <1>7

-----------------------------------------------------------------------------
(***************************************************************************)
(* The readers, however many: a page follows what the reader has seen.     *)
(***************************************************************************)
PageFollows(r) ==
  /\ offset[r] = Len(seen[r])
  /\ Leads(seen[r], Wanted(r))
  /\ rpc[r] \in {"listed", "last"} => Leads(seen[r] \o page[r], Wanted(r))

FInv == ReadingOK /\ \A r \in Readers : PageFollows(r)

\* Every step adds at most one entry to the trail, and nobody changes what a
\* reader asks for.
LEMMA TrailGrows ==
  ASSUME ReplayAssumption, RInv, [Next]_vars
  PROVE  /\ UNCHANGED filter
         /\ \E k \in Kinds, x \in DeadLetters \cup {None} :
              Append1(k, x) \/ UNCHANGED trail
<1>1. UNCHANGED filter
  BY DEF Next, vars, reading, AuditFailure, MoveToDeadLetter, Receive, Handle,
         RejectAccess, Refuse, Prepare, Stage, Collide, Commit, CommitFails,
         RejectReader, Read, List, Grant, GrantFails
<1>2. /\ {"failed", "deadLettered", "replayReady", "replayRejected",
          "trailRejected", "trailGranted"} \subseteq Kinds
      /\ \A w \in Workers : pc[w] # "idle" => command[w].deadLetter \in DeadLetters
  BY DEF Kinds, ReplayAssumption, Command, RInv, WorkOK
<1>3. ASSUME NEW w \in Workers, Handle(w)
      PROVE  \/ UNCHANGED trail
             \/ \E k \in Kinds : Append1(k, command[w].deadLetter) /\ pc[w] # "idle"
  BY <1>2, <1>3 DEF Handle, RejectAccess, Refuse, Prepare, Stage, Collide, Commit,
                    CommitFails, store
<1>4. ASSUME NEW r \in Readers, RejectReader(r) \/ Read(r)
      PROVE  UNCHANGED trail \/ \E k \in Kinds : Append1(k, None)
  BY <1>2, <1>4 DEF RejectReader, Read, List, Grant, GrantFails, store
<1>5. ASSUME NEW d \in DeadLetters, AuditFailure(d) \/ MoveToDeadLetter(d)
      PROVE  \E k \in Kinds : Append1(k, d)
  BY <1>2, <1>5 DEF AuditFailure, MoveToDeadLetter
<1>6. ASSUME NEW w \in Workers, NEW c \in Commands, Receive(w, c)
      PROVE  UNCHANGED trail
  BY <1>6 DEF Receive, store
<1>7. CASE UNCHANGED vars
  BY <1>1, <1>2, <1>7 DEF vars, store
<1> QED
  BY <1>1, <1>2, <1>3, <1>4, <1>5, <1>6, <1>7 DEF Next

\* A reader that does nothing keeps its page, whatever the trail gains.
LEMMA PageStays ==
  ASSUME ReplayAssumption, RInv, FInv, [Next]_vars, NEW r \in Readers,
         offset'[r] = offset[r], seen'[r] = seen[r], page'[r] = page[r],
         rpc'[r] = rpc[r]
  PROVE  PageFollows(r)'
<1>1. /\ UNCHANGED filter
      /\ \E k \in Kinds, x \in DeadLetters \cup {None} :
           Append1(k, x) \/ UNCHANGED trail
  BY TrailGrows
<1>2. /\ Wanted(r) \in Seq(Entry) /\ Wanted(r)' \in Seq(Entry)
      /\ Leads(Wanted(r), Wanted(r)')
  BY <1>1, WantedGrows
<1>3. seen[r] \in Seq(Entry) /\ page[r] \in Seq(Entry)
  BY DEF FInv, ReadingOK
<1>4. seen[r] \o page[r] \in Seq(Entry)
  BY <1>3
<1> QED
  BY <1>2, <1>3, <1>4, LeadsOn DEF FInv, PageFollows

\* A reader's own step lists what follows, is given it, or does without.
LEMMA PageMoves ==
  ASSUME ReplayAssumption, RInv, FInv, [Next]_vars, NEW r \in Readers, Read(r)
  PROVE  /\ ReadingOK'
         /\ PageFollows(r)'
<1>1. /\ UNCHANGED filter
      /\ \E k \in Kinds, x \in DeadLetters \cup {None} :
           Append1(k, x) \/ UNCHANGED trail
  BY TrailGrows
<1>2. /\ Wanted(r) \in Seq(Entry) /\ Wanted(r)' \in Seq(Entry)
      /\ Leads(Wanted(r), Wanted(r)')
      /\ UNCHANGED trail => Wanted(r)' = Wanted(r)
  BY <1>1, WantedGrows
<1>3. /\ seen[r] \in Seq(Entry) /\ page[r] \in Seq(Entry) /\ offset[r] \in Nat
      /\ offset[r] = Len(seen[r])
      /\ Leads(seen[r], Wanted(r))
      /\ rpc[r] \in {"listed", "last"} => Leads(seen[r] \o page[r], Wanted(r))
      /\ ReadingOK
  BY DEF FInv, ReadingOK, PageFollows
<1>4. CASE List(r)
  <2> DEFINE items == Wanted(r)
             next == PageAfter(items, offset[r])
             to == IF offset[r] + PageSize < Len(items) THEN offset[r] + PageSize
                                                         ELSE Len(items)
  <2>1. /\ page' = [page EXCEPT ![r] = next]
        /\ rpc'[r] \in {"listed", "last"}
        /\ rpc' \in [Readers -> {"paging", "listed", "last", "done"}]
        /\ UNCHANGED <<trail, filter, offset, seen>>
    BY <1>3, <1>4 DEF List, store, ReadingOK
  <2>2. to \in Nat /\ to <= Len(items) /\ offset[r] <= to
    BY <1>2, <1>3 DEF Leads, ReplayAssumption
  <2> HIDE DEF to
  <2>3. \A i \in (offset[r] + 1) .. to : items[i] \in Entry
    BY <1>2, <1>3, <2>2
  <2> HIDE DEF items
  <2>4. next = SubSeq(items, offset[r] + 1, to)
    BY DEF PageAfter, to
  <2>5. /\ next \in Seq(Entry)
        /\ Len(next) = to - offset[r]
        /\ \A i \in 1 .. (to - offset[r]) : next[i] = items[offset[r] + i]
    <3>1. offset[r] + 1 \in Int /\ to \in Int
      BY <1>3, <2>2
    <3>2. /\ SubSeq(items, offset[r] + 1, to) \in Seq(Entry)
          /\ Len(SubSeq(items, offset[r] + 1, to)) =
               IF offset[r] + 1 <= to THEN to - (offset[r] + 1) + 1 ELSE 0
          /\ \A i \in 1 .. to - (offset[r] + 1) + 1 :
               SubSeq(items, offset[r] + 1, to)[i] = items[offset[r] + 1 + i - 1]
      BY <2>3, <3>1, SubSeqProperties
    <3> HIDE DEF next
    <3> QED
      BY <1>3, <2>2, <2>4, <3>2
  <2> HIDE DEF next
  <2>6. page'[r] = next /\ ReadingOK'
    BY <1>3, <2>1, <2>5 DEF ReadingOK
  <2>7. Wanted(r)' = items
    BY <1>2, <2>1 DEF items
  <2>8. Leads(seen[r] \o next, items)
    <3>1. Leads(seen[r], items) /\ items \in Seq(Entry)
      BY <1>2, <1>3 DEF items
    <3>2. Len(seen[r]) + Len(next) <= Len(items)
      BY <1>3, <2>2, <2>5
    <3>3. \A i \in 1 .. Len(next) : next[i] = items[Len(seen[r]) + i]
      BY <1>3, <2>5
    <3> QED
      BY <1>3, <2>5, <3>1, <3>2, <3>3, LeadsFurther
  <2> QED
    BY <1>3, <2>1, <2>6, <2>7, <2>8 DEF PageFollows, items
<1>5. CASE Grant(r)
  <2>1. /\ rpc[r] \in {"listed", "last"}
        /\ seen'[r] = seen[r] \o page[r]
        /\ offset'[r] = offset[r] + Len(page[r])
        /\ rpc'[r] \in {"paging", "done"}
    BY <1>3, <1>5 DEF Grant, ReadingOK
  <2>2. seen[r] \o page[r] \in Seq(Entry)
    BY <1>3
  <2>3. ReadingOK'
    BY <1>3, <1>5, <2>2 DEF Grant, ReadingOK
  <2>4. Leads(seen'[r], Wanted(r)')
    BY <1>2, <1>3, <2>1, <2>2, LeadsOn
  <2>5. offset'[r] = Len(seen'[r])
    BY <1>3, <2>1
  <2> QED
    BY <2>1, <2>3, <2>4, <2>5 DEF PageFollows
<1>6. CASE GrantFails(r)
  <2>1. /\ rpc'[r] = "paging" /\ UNCHANGED <<offset, seen>>
        /\ ReadingOK'
    BY <1>3, <1>6 DEF GrantFails, ReadingOK
  <2>2. Leads(seen[r], Wanted(r)')
    BY <1>2, <1>3, LeadsOn
  <2> QED
    BY <1>3, <2>1, <2>2 DEF PageFollows
<1> QED
  BY <1>4, <1>5, <1>6 DEF Read

LEMMA ReadingStep ==
  ASSUME ReplayAssumption, RInv, FInv, [Next]_vars
  PROVE  FInv'
<1>1. CASE UNCHANGED <<rpc, offset, page, seen>>
  <2>1. ReadingOK'
    BY <1>1, TrailGrows DEF FInv, ReadingOK
  <2> QED
    BY <1>1, <2>1, PageStays DEF FInv
<1>2. ASSUME NEW r \in Readers, Read(r) PROVE FInv'
  <2>1. ReadingOK' /\ PageFollows(r)'
    BY <1>2, PageMoves
  <2>2. ASSUME NEW q \in Readers, q # r PROVE PageFollows(q)'
    <3>1. /\ offset'[q] = offset[q] /\ seen'[q] = seen[q]
          /\ page'[q] = page[q] /\ rpc'[q] = rpc[q]
      BY <1>2, <2>2 DEF Read, List, Grant, GrantFails, FInv, ReadingOK
    <3> QED
      BY <3>1, PageStays
  <2> QED
    BY <2>1, <2>2 DEF FInv
<1>3. (\E r \in Readers : Read(r)) \/ UNCHANGED <<rpc, offset, page, seen>>
  BY DEF Next, vars, reading, AuditFailure, MoveToDeadLetter, Receive, Handle,
         RejectAccess, Refuse, Prepare, Stage, Collide, Commit, CommitFails,
         RejectReader
<1> QED
  BY <1>1, <1>2, <1>3

LEMMA ReadingInvariant == Spec => [](RInv /\ FInv)
<1>1. Init => FInv
  <2> SUFFICES ASSUME Init PROVE FInv
    OBVIOUS
  <2>1. ReadingOK
    BY DEF Init, ReadingOK
  <2>2. ASSUME NEW r \in Readers PROVE PageFollows(r)
    <3>1. trail = <<>> /\ seen[r] = <<>> /\ offset[r] = 0 /\ rpc[r] = "paging"
      BY DEF Init
    <3>2. RInv
      BY ReplayInit
    <3>3. Wanted(r) \in Seq(Entry)
      <4>1. trail \in Seq(Entry)
        BY <3>2 DEF RInv, StoreOK
      <4>2. MatchesIn(trail, filter[r])[0] = <<>>
        BY <4>1, MatchesInOrder
      <4>3. DOMAIN trail = 1 .. 0
        BY <3>1
      <4>4. Wanted(r) = <<>>
        BY <4>2, <4>3, WantedUnfolds
      <4> QED
        BY <4>4
    <3> QED
      BY <3>1, <3>3 DEF PageFollows, Leads
  <2> QED
    BY <2>1, <2>2 DEF FInv
<1>2. RInv /\ FInv /\ [Next]_vars => FInv'
  BY ReadingStep, ReplayAssumption
<1> QED
  BY ReplayInvariant, <1>1, <1>2, PTL DEF Spec

\* Whatever workers and other readers append between the pages of a reader,
\* what it was given is the trail it asked for from its beginning, nothing
\* twice and nothing left out (the page token counts the entries that match
\* the filter, repositories.rs; a page whose access cannot be recorded is
\* withheld, get_bus_audit_trail), for any number of readers, any filters and
\* any page size.
THEOREM PagesAlwaysFollowTrail == Spec => []PagesFollowTrail
<1>1. RInv /\ FInv => PagesFollowTrail
  <2> SUFFICES ASSUME RInv, FInv, NEW r \in Readers
               PROVE  IsPrefix(seen[r], Wanted(r))
    BY DEF PagesFollowTrail
  <2> DEFINE s == seen[r]
             n == Len(s)
             items == Wanted(r)
  <2>1. s \in Seq(Entry) /\ Leads(s, items)
    BY DEF FInv, ReadingOK, PageFollows
  <2>2. items \in Seq(Entry)
    <3>1. trail \in Seq(Entry)
      BY DEF RInv, StoreOK
    <3>2. /\ DOMAIN trail = 1 .. Len(trail) /\ Len(trail) \in 0 .. Len(trail)
          /\ \A k \in 0 .. Len(trail) :
               MatchesIn(trail, filter[r])[k] \in Seq(Entry)
      BY <3>1, MatchesInOrder
    <3> QED
      BY <3>2, WantedUnfolds
  <2> HIDE DEF s, items
  <2>3. n \in Nat /\ \A i \in 1 .. n : s[i] \in Entry /\ items[i] \in Entry
    BY <2>1, <2>2 DEF Leads
  <2>4. /\ SubSeq(s, 1, n) \in Seq(Entry) /\ SubSeq(items, 1, n) \in Seq(Entry)
        /\ Len(SubSeq(s, 1, n)) = n /\ Len(SubSeq(items, 1, n)) = n
        /\ \A i \in 1 .. n : SubSeq(s, 1, n)[i] = s[i]
        /\ \A i \in 1 .. n : SubSeq(items, 1, n)[i] = items[i]
    <3> HIDE DEF n
    <3> QED
      BY <2>3, SubSeqProperties
  <2>5. SubSeq(s, 1, n) = SubSeq(items, 1, n)
    <3> HIDE DEF n
    <3>1. \A i \in 1 .. n : SubSeq(s, 1, n)[i] = SubSeq(items, 1, n)[i]
      BY <2>1, <2>4 DEF Leads, n
    <3> QED
      BY <2>4, <3>1, SeqEqual
  <2> QED
    BY <2>1, <2>5 DEF IsPrefix, Leads, s, items
<1> QED
  BY ReadingInvariant, <1>1, PTL

\* The counters of refusals and failures stay within their bounds.
CountersOK == rejected \in 0 .. MaxRejected /\ outages \in 0 .. MaxOutages

\* Store, workers, readers and counters hold values of the right shape.
THEOREM ReplayTypeCorrect == Spec => []TypeOK
<1>1. Init => CountersOK
  BY ReplayAssumption DEF ReplayAssumption, Init, CountersOK
<1>2. CountersOK /\ [Next]_vars => CountersOK'
  <2> SUFFICES ASSUME CountersOK, [Next]_vars PROVE CountersOK'
    OBVIOUS
  <2>1. /\ \/ UNCHANGED rejected
           \/ rejected < MaxRejected /\ rejected' = rejected + 1
        /\ UNCHANGED outages \/ (outages < MaxOutages /\ outages' = outages + 1)
    BY DEF Next, vars, AuditFailure, MoveToDeadLetter, Receive, IsRefused, Handle,
           RejectAccess, Refuse, Prepare, Stage, Collide, Commit, CommitFails,
           Breaks, RejectReader, Read, List, Grant, GrantFails
  <2> QED
    BY <2>1, ReplayAssumption DEF ReplayAssumption, CountersOK
<1>3. RInv /\ FInv /\ CountersOK => TypeOK
  BY DEF RInv, FInv, CountersOK, TypeOK
<1> QED
  BY ReadingInvariant, <1>1, <1>2, <1>3, PTL DEF Spec
=============================================================================
