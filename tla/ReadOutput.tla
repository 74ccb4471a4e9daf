----------------------------- MODULE ReadOutput -----------------------------
(***************************************************************************)
(* The read-only queries of services/read_output.rs beside the delivery    *)
(* services that write what they show. A query makes two lookups, each of  *)
(* committed rows, and other workers commit in between:                    *)
(*                                                                         *)
(*   get_delivery_status    the delivery, then its feedback;               *)
(*   get_transport_view     the projection, then its delivery;             *)
(*   get_failure_summary    the summary and its material, then an access   *)
(*                          entry is appended to the audit trail, and then *)
(*                          it is answered;                                *)
(*   list_delivery_history  one lookup for each page of the history.       *)
(*                                                                         *)
(* Nothing in the sources writes projections but the ports and the domain  *)
(* functions that derive them: who refreshes them is external. Times are   *)
(* left out, so the last feedback of a delivery can be any of them.        *)
(***************************************************************************)
EXTENDS DeliveryServices

CONSTANTS
  Readers,       \* callers of the queries
  Limit,         \* the page limit of the readers
  Interests,     \* the sets of queries a reader may be interested in
  MaxAccesses,   \* bound: how often a reader asks for a failure summary
  MaxRefreshed   \* bound: how often a projection may be refreshed

Query == {"status", "transport", "summary", "history"}

ASSUME ReadingAssumption ==
  /\ Limit \in Nat \ {0}
  /\ Interests \subseteq SUBSET Query
  /\ MaxAccesses \in Nat /\ MaxRefreshed \in Nat
  /\ None \notin FeedbackId

\* TransportViewProjection; its source is the version of the delivery whose
\* audit entry it names, and version 0 stands for a projection not there.
Projection ==
  [version: Nat, status: {"absent", "Active", "Stale"}, source: Nat]

NoProjection == [version |-> 0, status |-> "absent", source |-> 0]

NoDraft == [of |-> None]

VARIABLES
  projection,  \* the committed transport-view projections
  draft,       \* the projection the refresher has staged
  summaries,   \* the deliveries with a failure summary and its material
  accesses,    \* how many access entries the trail has of each reader
  answers,     \* how many trusted requests for a summary were answered
  interest,    \* the queries each reader makes
  target,      \* the delivery each reader asks about
  rpc,         \* what each reader is doing
  then,        \* what its first lookup found
  view,        \* the last view it was answered
  token,       \* its page token, None after the last page
  seen         \* the history entries it was given

projections == <<projection, draft, summaries>>
traces == <<accesses, answers>>
asking == <<interest, target>>
reading == <<traces, asking, rpc, then, view, token, seen>>
outputs == <<projections, reading>>
outputVars == <<vars, outputs>>

NoView == [kind |-> "none"]

OutputInit ==
  /\ Init
  /\ projection = [d \in Deliveries |-> NoProjection]
  /\ draft = NoDraft
  /\ summaries = {}
  /\ accesses = [r \in Readers |-> [granted |-> 0, rejected |-> 0]]
  /\ answers = [r \in Readers |-> 0]
  /\ interest \in [Readers -> Interests]
  /\ target \in [Readers -> Deliveries]
  /\ rpc = [r \in Readers |-> "idle"]
  /\ then = [r \in Readers |-> NoView]
  /\ view = [r \in Readers |-> NoView]
  /\ token = [r \in Readers |-> 0]
  /\ seen = [r \in Readers |-> <<>>]

-----------------------------------------------------------------------------
(***************************************************************************)
(* Projections: derived from a committed delivery or marked stale, staged  *)
(* under the version that follows the committed one, and committed.        *)
(***************************************************************************)
Drafts(d, status, source) ==
  /\ draft = NoDraft
  /\ projection[d].version < MaxRefreshed
  /\ draft' = [of |-> d,
               projection |-> [version |-> projection[d].version + 1,
                               status |-> status, source |-> source]]
  /\ UNCHANGED <<vars, projection, summaries, reading>>

Derive(d) == Drafts(d, "Active", delivery[d].version)

\* A stale projection cannot be marked stale again.
MarkStale(d) ==
  /\ projection[d].status = "Active"
  /\ Drafts(d, "Stale", delivery[d].version)

CommitProjection ==
  /\ draft # NoDraft
  /\ projection' = [projection EXCEPT ![draft.of] = draft.projection]
  /\ draft' = NoDraft
  /\ UNCHANGED <<vars, summaries, reading>>

\* A failure summary is derived from the material of a failed delivery.
Summarize(d) ==
  /\ delivery[d].status = "Failed"
  /\ summaries' = summaries \cup {d}
  /\ UNCHANGED <<vars, projection, draft, reading>>

-----------------------------------------------------------------------------
(***************************************************************************)
(* Views.                                                                  *)
(***************************************************************************)

\* What lookups for a delivery can find.
Rows(d) == [ delivery |-> delivery[d], projection |-> projection[d],
             feedback |-> {f \in feedback : f.id.delivery = d},
             summary |-> d \in summaries ]

\* Slip: the feedback is looked up before the delivery.
StatusViewSwapped(a, b, last) ==
  [kind |-> "status", status |-> b.delivery.status,
   attempt |-> LastAttempt(b.delivery), last |-> last, found |-> a.feedback]

\* The view of a status, from the store a at the first lookup and b at the
\* second; the last feedback is one of those found.
StatusView(a, b, last) ==
  [kind |-> "status", status |-> a.delivery.status,
   attempt |-> LastAttempt(a.delivery), last |-> last, found |-> b.feedback]

LastOf(rows) == IF rows = {} THEN {None} ELSE {f.id : f \in rows}

Marker(p) == IF p.status = "Active" THEN "Committed" ELSE "Stale"

\* Slip: the delivery is looked up before its projection.
TransportViewSwapped(a, b) ==
  [kind |-> "transport", status |-> a.delivery.status,
   at |-> a.delivery.version, projection |-> b.projection,
   marker |-> Marker(b.projection)]

\* "at" is the version of the delivery whose status is shown.
TransportView(a, b) ==
  [kind |-> "transport", status |-> b.delivery.status,
   at |-> b.delivery.version, projection |-> a.projection,
   marker |-> Marker(a.projection)]

-----------------------------------------------------------------------------
(***************************************************************************)
(* Queries.                                                                *)
(***************************************************************************)
Asks(r, what) ==
  /\ rpc[r] = "idle"
  /\ what \in interest[r]
  /\ rpc' = [rpc EXCEPT ![r] = what]
  /\ then' = [then EXCEPT ![r] = Rows(target[r])]
  /\ view' = [view EXCEPT ![r] = NoView]
  /\ UNCHANGED <<vars, projections, traces, asking, token, seen>>

AskStatus(r) == Asks(r, "status")

\* A projection that is not there is reported as such.
AskTransport(r) == projection[target[r]] # NoProjection /\ Asks(r, "transport")

MayAskAgain(r) == accesses[r].granted + accesses[r].rejected < MaxAccesses

\* The caller is trusted, and what it asks for is looked up.
AskSummary(r) == MayAskAgain(r) /\ Asks(r, "summary")

\* The caller has no authorization or no role: the refusal is traced. (When
\* that fails, it gets another error.)
RefuseSummary(r) ==
  /\ rpc[r] = "idle"
  /\ "summary" \in interest[r]
  /\ MayAskAgain(r)
  /\ accesses' = [accesses EXCEPT ![r].rejected = @ + 1]
  /\ UNCHANGED <<vars, projections, answers, asking, rpc, then, view, token, seen>>

Answers(r, answer) ==
  /\ rpc' = [rpc EXCEPT ![r] = "idle"]
  /\ then' = [then EXCEPT ![r] = NoView]
  /\ view' = [view EXCEPT ![r] = answer]
  /\ UNCHANGED <<vars, projections, accesses, asking, token, seen>>

AnswerStatus(r) ==
  /\ rpc[r] = "status"
  /\ \E last \in LastOf(Rows(target[r]).feedback) :
       Answers(r, StatusView(then[r], Rows(target[r]), last))
  /\ UNCHANGED answers

AnswerTransport(r) ==
  /\ rpc[r] = "transport"
  /\ Answers(r, TransportView(then[r], Rows(target[r])))
  /\ UNCHANGED answers

\* The access is granted in the trail, also when nothing was found.
TraceSummary(r) ==
  /\ rpc[r] = "summary"
  /\ accesses' = [accesses EXCEPT ![r].granted = @ + 1]
  /\ rpc' = [rpc EXCEPT ![r] = "traced"]
  /\ UNCHANGED <<vars, projections, answers, asking, then, view, token, seen>>

Found(r) ==
  IF then[r].summary THEN [kind |-> "summary", of |-> target[r]] ELSE NoView

\* Only then is the caller told what was found, or that nothing was.
AnswerSummary(r) ==
  /\ rpc[r] = "traced"
  /\ Answers(r, Found(r))
  /\ answers' = [answers EXCEPT ![r] = @ + 1]

\* Slip: the failed append is passed over.
AnswerUntraced(r) ==
  /\ rpc[r] = "summary"
  /\ Answers(r, Found(r))
  /\ answers' = [answers EXCEPT ![r] = @ + 1]

\* The access entry cannot be appended: nothing is disclosed, not even that
\* there is nothing.
WithholdSummary(r) ==
  /\ rpc[r] = "summary"
  /\ Answers(r, NoView)
  /\ UNCHANGED answers

PageFrom(h, from) ==
  SubSeq(h, from + 1, IF from + Limit < Len(h) THEN from + Limit ELSE Len(h))

\* Slip: the token counts the entries of one page.
NextOfPage(from, page, h) == IF Len(page) < Len(h) THEN Len(page) ELSE None

NextToken(from, page, h) ==
  IF from + Len(page) < Len(h) THEN from + Len(page) ELSE None

ListHistory(r) ==
  LET h == delivery[target[r]].history
      page == PageFrom(h, token[r])
  IN
  /\ rpc[r] = "idle"
  /\ "history" \in interest[r]
  /\ token[r] # None
  /\ seen' = [seen EXCEPT ![r] = @ \o page]
  /\ token' = [token EXCEPT ![r] = NextToken(token[r], page, h)]
  /\ UNCHANGED <<vars, projections, traces, asking, rpc, then, view>>

Reads(r) ==
  \/ AskStatus(r) \/ AskTransport(r) \/ AskSummary(r) \/ RefuseSummary(r)
  \/ AnswerStatus(r) \/ AnswerTransport(r)
  \/ TraceSummary(r) \/ AnswerSummary(r) \/ WithholdSummary(r)
  \/ ListHistory(r)

Refreshes ==
  \/ \E d \in Deliveries : Derive(d) \/ MarkStale(d) \/ Summarize(d)
  \/ CommitProjection

OutputNext ==
  \/ Next /\ UNCHANGED outputs
  \/ Refreshes
  \/ \E r \in Readers : Reads(r)

OutputSpec == OutputInit /\ [][OutputNext]_outputVars

-----------------------------------------------------------------------------
(***************************************************************************)
(* Properties.                                                             *)
(***************************************************************************)
OutputTypeOK ==
  /\ TypeOK
  /\ projection \in [Deliveries -> Projection]
  /\ draft \in [of: Deliveries, projection: Projection] \cup {NoDraft}
  /\ summaries \subseteq Deliveries
  /\ accesses \in [Readers -> [granted: Nat, rejected: Nat]]
  /\ answers \in [Readers -> Nat]
  /\ interest \in [Readers -> Interests]
  /\ target \in [Readers -> Deliveries]
  /\ rpc \in [Readers -> {"idle", "status", "transport", "summary", "traced"}]
  /\ token \in [Readers -> Nat \cup {None}]
  /\ seen \in [Readers -> Seq(Transition)]

\* A view that shows a delivery as completed was made with the feedback that
\* acknowledged the attempt it shows, although delivery and feedback are two
\* lookups and the two were committed by other workers.
CompletedViewHasAck ==
  \A r \in Readers :
    view[r].kind = "status" /\ view[r].status = "Completed" =>
      \E f \in view[r].found : f.status = "ack" /\ f.attempt = view[r].attempt

\* The status a transport view shows is never older than the source of the
\* projection whose version it carries.
ViewIsNotBehind ==
  \A r \in Readers :
    view[r].kind = "transport" => view[r].at >= view[r].projection.source

\* The pages of a history, put together, are its beginning, although it grows
\* while they are read: no entry is skipped, repeated or taken back.
PagesFollowHistory ==
  \A r \in Readers : IsPrefixOf(seen[r], delivery[target[r]].history)

\* Every trusted request for a summary that was answered, with the summary or
\* with the news that there is none, has a granted access of its own in the
\* trail, put there first: the trail is ahead by the answer on its way, and by
\* no more. A request whose entry could not be appended tells nothing.
DisclosureIsTraced ==
  \A r \in Readers :
    accesses[r].granted = answers[r] + (IF rpc[r] = "traced" THEN 1 ELSE 0)
=============================================================================
