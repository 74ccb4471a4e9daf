-------------------------- MODULE PublicationRelay --------------------------
(***************************************************************************)
(* Publication acceptance and the outbox relay that feeds it:              *)
(*                                                                         *)
(*   services/outbox.rs       a relay job polls a page of committed facts  *)
(*                            after its cursor, has each accepted, and     *)
(*                            acknowledges it at the source;               *)
(*   services/publication.rs  decides a fact, or the same request made as  *)
(*                            a command: look the key up, stage material,  *)
(*                            decision and anchor, commit;                 *)
(*   infra/source.rs          the upstream source: facts in the order they *)
(*                            were committed, with acknowledgements.       *)
(*                                                                         *)
(* A worker runs one job or one command at a time; every await of the code *)
(* is a step, so the steps of two workers mix. One worker is a deployment  *)
(* that runs jobs and commands one after the other. A position in the      *)
(* source stands for the cursor of the fact there. The audit entries and   *)
(* the conflict log are written and never read here, and are left out. A   *)
(* failed poll ends a job before it did anything.                          *)
(***************************************************************************)
EXTENDS Naturals, Sequences, FiniteSets

CONSTANTS
  Workers,        \* threads that run relay jobs and commands
  Facts,          \* the facts upstream may commit
  Commands,       \* the publication commands clients may send
  Malformed,      \* the requests that carry no usable material
  PublicationOf,  \* the publication each request asks for: its identifier is
                  \* made of the source record, other characters than letters
                  \* and digits replaced, so requests may share it
  KeyOf,          \* the idempotency key of each request, with its scope
  DecisionOf,     \* what the core reference and the payload guard make of it
  BatchSize,      \* the limit of a page; a job with limit zero does nothing
  MaxOutages,     \* bound: how many commits and acknowledgements may fail
  None            \* no request

Requests == Facts \cup Commands
Publications == {PublicationOf[r] : r \in Requests}
Keys == {KeyOf[r] : r \in Requests}
Decision == {"accepted", "rejected"}

ASSUME RequestsAssumption ==
  /\ Facts \cap Commands = {}
  /\ Malformed \subseteq Requests
  /\ None \notin Requests
ASSUME DecisionAssumption == DecisionOf \in [Requests -> Decision]
ASSUME BoundsAssumption == BatchSize \in Nat \ {0} /\ MaxOutages \in Nat

VARIABLES
  source,       \* the facts committed upstream, in order
  acked,        \* the facts acknowledged at the source
  publication,  \* the request each publication was decided by
  version,      \* how often each publication was committed
  anchors,      \* the request each idempotency key is bound to
  reports,      \* what relay jobs reported of the facts they acknowledged
  outages,      \* failures so far
  pc,           \* what each worker does next
  item,         \* the request it works on
  answer,       \* what acceptance answered
  todo,         \* the positions of its page that are left
  end,          \* the cursor of its page
  replay,       \* whether its page must be replayed
  cursor        \* the cursor its next job starts from

truth == <<publication, version, anchors>>
upstream == <<source, acked, reports>>
job == <<todo, end, replay, cursor>>
vars == <<truth, upstream, outages, pc, item, answer, job>>

Init ==
  /\ source = <<>>
  /\ acked = {}
  /\ publication = [p \in Publications |-> None]
  /\ version = [p \in Publications |-> 0]
  /\ anchors = [k \in Keys |-> None]
  /\ reports = {}
  /\ outages = 0
  /\ pc = [w \in Workers |-> "idle"]
  /\ item = [w \in Workers |-> None]
  /\ answer = [w \in Workers |-> "rejected"]
  /\ todo = [w \in Workers |-> {}]
  /\ end = [w \in Workers |-> 0]
  /\ replay = [w \in Workers |-> FALSE]
  /\ cursor = [w \in Workers |-> 0]

-----------------------------------------------------------------------------
(***************************************************************************)
(* The source and the relay job.                                           *)
(***************************************************************************)

\* Upstream commits a fact; a reference is committed once.
CommitUpstream(f) ==
  /\ \A i \in 1 .. Len(source) : source[i] # f
  /\ source' = Append(source, f)
  /\ UNCHANGED <<truth, acked, reports, outages, pc, item, answer, job>>

\* The positions after a cursor, up to another, not acknowledged yet.
Open(c, n) == {i \in (c + 1) .. n : source[i] \notin acked}

\* A page ends with the fact that fills it, or else at the end of the source.
IsPage(c, n) ==
  IF Cardinality(Open(c, Len(source))) < BatchSize
    THEN n = Len(source)
    ELSE Cardinality(Open(c, n)) = BatchSize /\ n \in Open(c, n)

Poll(w) ==
  /\ pc[w] = "idle"
  /\ \E n \in cursor[w] .. Len(source) :
       /\ IsPage(cursor[w], n)
       /\ todo' = [todo EXCEPT ![w] = Open(cursor[w], n)]
       /\ end' = [end EXCEPT ![w] = n]
  /\ replay' = [replay EXCEPT ![w] = FALSE]
  /\ pc' = [pc EXCEPT ![w] = "picking"]
  /\ UNCHANGED <<truth, upstream, outages, item, answer, cursor>>

IsFirst(i, S) == i \in S /\ \A j \in S : i <= j

Pick(w) ==
  /\ pc[w] = "picking"
  /\ \E i \in todo[w] :
       /\ IsFirst(i, todo[w])
       /\ item' = [item EXCEPT ![w] = source[i]]
       /\ todo' = [todo EXCEPT ![w] = @ \ {i}]
  /\ pc' = [pc EXCEPT ![w] = "looking"]
  /\ UNCHANGED <<truth, upstream, outages, answer, end, replay, cursor>>

\* Slip: the cursor moves past the page.
FinishPast(w) ==
  /\ pc[w] = "picking"
  /\ todo[w] = {}
  /\ cursor' = [cursor EXCEPT ![w] = IF replay[w] THEN @ ELSE end[w] + 1]
  /\ pc' = [pc EXCEPT ![w] = "idle"]
  /\ UNCHANGED <<truth, upstream, outages, item, answer, todo, end, replay>>

\* Slip: the cursor moves on, whatever happened to the page.
FinishForward(w) ==
  /\ pc[w] = "picking"
  /\ todo[w] = {}
  /\ cursor' = [cursor EXCEPT ![w] = end[w]]
  /\ pc' = [pc EXCEPT ![w] = "idle"]
  /\ UNCHANGED <<truth, upstream, outages, item, answer, todo, end, replay>>

\* The job returns the cursor of the page, or the one it was given when a
\* fact has to be replayed; the next job starts there.
Finish(w) ==
  /\ pc[w] = "picking"
  /\ todo[w] = {}
  /\ cursor' = [cursor EXCEPT ![w] = IF replay[w] THEN @ ELSE end[w]]
  /\ pc' = [pc EXCEPT ![w] = "idle"]
  /\ UNCHANGED <<truth, upstream, outages, item, answer, todo, end, replay>>

\* A client sends a command, again as often as it likes.
Submit(w, c) ==
  /\ pc[w] = "idle"
  /\ item' = [item EXCEPT ![w] = c]
  /\ pc' = [pc EXCEPT ![w] = "looking"]
  /\ UNCHANGED <<truth, upstream, outages, answer, job>>

-----------------------------------------------------------------------------
(***************************************************************************)
(* Acceptance of one request.                                              *)
(***************************************************************************)
FromOutbox(w) == item[w] \in Facts

\* Acceptance answers: a fact goes on to be acknowledged, whether it was
\* accepted or rejected, and a client has its answer.
Answered(w, a) ==
  /\ pc' = [pc EXCEPT ![w] = IF FromOutbox(w) THEN "acking" ELSE "idle"]
  /\ answer' = [answer EXCEPT ![w] = a]
  /\ UNCHANGED <<upstream, outages, item, job>>

\* Slip: a failure counts as a rejection.
FailedAnswered(w) ==
  /\ outages < MaxOutages
  /\ outages' = outages + 1
  /\ pc' = [pc EXCEPT ![w] = IF FromOutbox(w) THEN "acking" ELSE "idle"]
  /\ UNCHANGED <<truth, upstream, item, answer, job>>

\* Anything else that goes wrong leaves the fact to a replay of the page.
Failed(w) ==
  /\ outages < MaxOutages
  /\ outages' = outages + 1
  /\ pc' = [pc EXCEPT ![w] = IF FromOutbox(w) THEN "picking" ELSE "idle"]
  /\ replay' = [replay EXCEPT ![w] = FromOutbox(w)]
  /\ UNCHANGED <<truth, upstream, item, answer, todo, end, cursor>>

Bound(w) == anchors[KeyOf[item[w]]]
Decided(w) == publication[PublicationOf[item[w]]]

\* Slip: any request with a known key is answered as accepted.
DuplicateAccepted(w) ==
  /\ pc[w] = "looking"
  /\ Bound(w) = item[w]
  /\ Answered(w, "accepted")
  /\ UNCHANGED truth

\* The key is bound to this request: the decision is looked up.
Duplicate(w) ==
  /\ pc[w] = "looking"
  /\ Bound(w) = item[w]
  /\ Answered(w, DecisionOf[Decided(w)])
  /\ UNCHANGED truth

\* The key is bound to another request: a conflict is logged and committed.
Conflict(w) ==
  /\ pc[w] = "looking"
  /\ Bound(w) \notin {None, item[w]}
  /\ \/ Answered(w, "rejected") /\ UNCHANGED truth
     \/ Failed(w)

\* No material can be made of the request: nothing is written.
Unusable(w) ==
  /\ pc[w] = "looking"
  /\ Bound(w) = None
  /\ item[w] \in Malformed
  /\ Answered(w, "rejected")
  /\ UNCHANGED truth

Fresh(w) ==
  /\ pc[w] = "looking"
  /\ Bound(w) = None
  /\ item[w] \notin Malformed
  /\ pc' = [pc EXCEPT ![w] = "deciding"]
  /\ UNCHANGED <<truth, upstream, outages, item, answer, job>>

\* Slip: only the key has to be new.
KeyIsUnique(w) == Bound(w) = None

\* The material, the decision and the anchor have to be new, compared with
\* what is committed now.
IsUnique(w) == Decided(w) = None /\ Bound(w) = None

Stage(w) ==
  /\ pc[w] = "deciding"
  /\ IsUnique(w)
  /\ pc' = [pc EXCEPT ![w] = "staged"]
  /\ UNCHANGED <<truth, upstream, outages, item, answer, job>>

\* A uniqueness violation is rolled back and answered as a conflict.
Collide(w) ==
  /\ pc[w] = "deciding"
  /\ ~IsUnique(w)
  /\ Answered(w, "rejected")
  /\ UNCHANGED truth

\* Slip: the decision is left out.
CommitAnchor(w) ==
  /\ pc[w] = "staged"
  /\ anchors' = [anchors EXCEPT ![KeyOf[item[w]]] = item[w]]
  /\ Answered(w, DecisionOf[item[w]])
  /\ UNCHANGED <<publication, version>>

\* The commit writes what was staged and compares nothing.
Commit(w) ==
  /\ pc[w] = "staged"
  /\ publication' = [publication EXCEPT ![PublicationOf[item[w]]] = item[w]]
  /\ version' = [version EXCEPT ![PublicationOf[item[w]]] = @ + 1]
  /\ anchors' = [anchors EXCEPT ![KeyOf[item[w]]] = item[w]]
  /\ Answered(w, DecisionOf[item[w]])

CommitFails(w) ==
  /\ pc[w] = "staged"
  /\ Failed(w)

\* The relay acknowledges the fact and counts it.
Ack(w) ==
  /\ pc[w] = "acking"
  /\ acked' = acked \cup {item[w]}
  /\ reports' = reports \cup {<<item[w], answer[w]>>}
  /\ pc' = [pc EXCEPT ![w] = "picking"]
  /\ UNCHANGED <<truth, source, outages, item, answer, job>>

AckFails(w) ==
  /\ pc[w] = "acking"
  /\ Failed(w)

-----------------------------------------------------------------------------
Relay(w) == Poll(w) \/ Pick(w) \/ Finish(w) \/ Ack(w) \/ AckFails(w)

Accept(w) ==
  \/ Duplicate(w) \/ Conflict(w) \/ Unusable(w) \/ Fresh(w)
  \/ Stage(w) \/ Collide(w) \/ Commit(w) \/ CommitFails(w)

Next ==
  \/ \E f \in Facts : CommitUpstream(f)
  \/ \E w \in Workers :
       \/ Relay(w)
       \/ Accept(w)
       \/ \E c \in Commands : Submit(w, c)

Spec == Init /\ [][Next]_vars

\* Workers finish what they took up, and relay jobs are triggered again and
\* again, however many commands are handled in between.
Fairness ==
  \A w \in Workers :
    /\ SF_vars(Poll(w))
    /\ WF_vars(Pick(w) \/ Finish(w) \/ Ack(w) \/ Accept(w))

FairSpec == Spec /\ Fairness

-----------------------------------------------------------------------------
(***************************************************************************)
(* Properties.                                                             *)
(***************************************************************************)

\* The store, the source and the jobs hold values of the right shape; a
\* cursor never points beyond the end of the source.
TypeOK ==
  /\ source \in Seq(Facts)
  /\ acked \subseteq Facts
  /\ publication \in [Publications -> Requests \cup {None}]
  /\ version \in [Publications -> Nat]
  /\ anchors \in [Keys -> Requests \cup {None}]
  /\ reports \subseteq Facts \X Decision
  /\ outages \in 0 .. MaxOutages
  /\ pc \in [Workers -> {"idle", "picking", "looking", "deciding", "staged",
                         "acking"}]
  /\ item \in [Workers -> Requests \cup {None}]
  /\ answer \in [Workers -> Decision]
  /\ todo \in [Workers -> SUBSET (1 .. Len(source))]
  /\ end \in [Workers -> 0 .. Len(source)]
  /\ replay \in [Workers -> BOOLEAN]
  /\ cursor \in [Workers -> 0 .. Len(source)]

\* The source is told that a fact was consumed only after something about it
\* was committed: its publication was decided, or its key was taken; only a
\* malformed fact goes without.
IsAnswered(f) ==
  \/ f \in Malformed
  \/ publication[PublicationOf[f]] # None
  \/ anchors[KeyOf[f]] # None

AckedIsAnswered == \A f \in acked : IsAnswered(f)

\* A cursor handed to the next job never leaves an unacknowledged fact
\* behind, whatever failed in the batches before: no later job would see it.
CursorPassesAcked ==
  \A w \in Workers : \A i \in 1 .. cursor[w] : source[i] \in acked

\* The record an anchor is bound to is the decision on the request that the
\* anchor was bound for, so a repeated request gets its own answer.
AnswersStand ==
  \A k \in Keys :
    anchors[k] # None => publication[PublicationOf[anchors[k]]] = anchors[k]

\* However often a page is replayed, a publication is committed once.
DecidedOnce == \A p \in Publications : version[p] <= 1

\* Whatever a job reported as accepted has an accepted publication.
AcceptedIsCommitted ==
  \A f \in Facts :
    <<f, "accepted">> \in reports =>
      /\ publication[PublicationOf[f]] # None
      /\ DecisionOf[publication[PublicationOf[f]]] = "accepted"

\* "The number of facts that were committed as rejected", contracts/jobs.rs:
\* whatever a job reported as rejected has a rejected publication.
RejectedIsCommitted ==
  \A f \in Facts :
    <<f, "rejected">> \in reports =>
      /\ publication[PublicationOf[f]] # None
      /\ DecisionOf[publication[PublicationOf[f]]] = "rejected"

\* Decisions and acknowledgements are those of the ledger of publications.
Ledger == INSTANCE PublicationLedger
            WITH decided <- publication, settled <- acked

LedgerSpec == Ledger!Spec

\* Every fact committed upstream is acknowledged in the end, although pages
\* are limited, poisonous facts come first and failures make pages replay.
FactsAreAcked ==
  \A f \in Facts : (\E i \in 1 .. Len(source) : source[i] = f) ~> f \in acked
=============================================================================
