------------------------- MODULE ReplayPreparation --------------------------
(***************************************************************************)
(* The preparation of replays from dead letters, and the audit trail it    *)
(* rests on.  Workers take commands that name a dead letter, an audit      *)
(* chain and an approval; a preparation is staged and committed together   *)
(* with its audit entry.  Readers page through the trail, and every page   *)
(* they are given appends an entry of its own.                             *)
(***************************************************************************)
EXTENDS Naturals, Sequences, SequencesExt

CONSTANTS
  Workers,      \* threads that prepare replays
  Readers,      \* privileged readers of the audit trail
  DeadLetters,  \* the dead letters of failed deliveries
  Approvals,    \* approvals of replays
  ReplayIdOf,   \* the replay preparation of each dead letter
  Commands,     \* the commands workers are given
  Filters,      \* the filters of readers, as the entries each matches
  PageSize,     \* the page limit of the readers
  MaxRejected,  \* bound on rejected privileged calls
  MaxOutages,   \* bound on failing appends and commits
  None          \* no dead letter, no preparation

\* The kinds of audit entries told apart: of deliveries, dead letters, replays,
\* refused preparations, and refused and granted readings of the trail.
Kinds == {"failed", "deadLettered", "replayReady", "replayRejected",
          "trailRejected", "trailGranted"}

Entry == [kind : Kinds, of : DeadLetters \cup {None}]

\* A command to prepare a replay, by an actor with or without the role.
Command == [deadLetter : DeadLetters, chain : DeadLetters \cup {None},
            approval : Approvals, privileged : BOOLEAN]

ASSUME ReplayAssumption ==
  /\ None \notin DeadLetters \cup Command
  /\ Commands \subseteq Command
  /\ \A d \in DeadLetters, a \in Approvals :
       None # [deadLetter |-> d, approval |-> a]
  /\ Filters \subseteq SUBSET Entry
  /\ PageSize \in Nat \ {0}
  /\ MaxRejected \in Nat
  /\ MaxOutages \in Nat

VARIABLES
  trail,        \* committed audit entries, in order
  deadLetters,  \* the open dead letters
  preparation,  \* the preparation filed under each replay identifier
  ready,        \* index: the approvals each dead letter has a replay for
  pc, command,  \* what each worker is doing
  filter,       \* what each reader asks for
  rpc, offset,  \* what each reader is doing, and its page token
  page, seen,   \* the page it is about to get, and what it got
  rejected, outages

store == <<trail, deadLetters, preparation, ready>>
work == <<pc, command>>
reading == <<filter, rpc, offset, page, seen>>
vars == <<store, work, reading, rejected, outages>>

ReplayIds == {ReplayIdOf[d] : d \in DeadLetters}
Preparation == [deadLetter : DeadLetters, approval : Approvals]

StoreOK ==
  /\ trail \in Seq(Entry)
  /\ deadLetters \subseteq DeadLetters
  /\ preparation \in [ReplayIds -> Preparation \cup {None}]
  /\ ready \subseteq DeadLetters \X Approvals

WorkOK ==
  /\ pc \in [Workers -> {"idle", "received", "prepared", "staged"}]
  /\ command \in [Workers -> Commands \cup {None}]
  /\ \A w \in Workers : pc[w] # "idle" => command[w] # None

ReadingOK ==
  /\ filter \in [Readers -> Filters]
  /\ rpc \in [Readers -> {"paging", "listed", "last", "done"}]
  /\ offset \in [Readers -> Nat]
  /\ page \in [Readers -> Seq(Entry)]
  /\ seen \in [Readers -> Seq(Entry)]

\* Store, workers and readers hold values of the right shape, and a worker that
\* is at work has a command.
TypeOK ==
  /\ StoreOK
  /\ WorkOK
  /\ ReadingOK
  /\ rejected \in 0 .. MaxRejected
  /\ outages \in 0 .. MaxOutages

Init ==
  /\ trail = <<>>
  /\ deadLetters = {}
  /\ preparation = [i \in ReplayIds |-> None]
  /\ ready = {}
  /\ pc = [w \in Workers |-> "idle"]
  /\ command = [w \in Workers |-> None]
  /\ filter \in [Readers -> Filters]
  /\ rpc = [r \in Readers |-> "paging"]
  /\ offset = [r \in Readers |-> 0]
  /\ page = [r \in Readers |-> <<>>]
  /\ seen = [r \in Readers |-> <<>>]
  /\ rejected = 0
  /\ outages = 0

-----------------------------------------------------------------------------
(***************************************************************************)
(* The trail, and the dead letters it tells of.                            *)
(***************************************************************************)
Append1(kind, d) == trail' = Append(trail, [kind |-> kind, of |-> d])
Tells(kind, d) == \E i \in DOMAIN trail : trail[i] = [kind |-> kind, of |-> d]

\* An append or a commit fails.
Breaks == outages < MaxOutages /\ outages' = outages + 1

\* The failure a dead letter is made from is audited, and that entry is the
\* dead letter's chain.
AuditFailure(d) ==
  /\ ~Tells("failed", d)
  /\ Append1("failed", d)
  /\ UNCHANGED <<deadLetters, preparation, ready, work, reading, rejected, outages>>

MoveToDeadLetter(d) ==
  /\ d \notin deadLetters
  /\ deadLetters' = deadLetters \cup {d}
  /\ Append1("deadLettered", d)
  /\ UNCHANGED <<preparation, ready, work, reading, rejected, outages>>

-----------------------------------------------------------------------------
(***************************************************************************)
(* Preparing a replay.                                                     *)
(***************************************************************************)
\* Calls without the role are bounded, for each leaves an entry.
IsRefused(privileged) ==
  IF privileged THEN UNCHANGED rejected
  ELSE rejected < MaxRejected /\ rejected' = rejected + 1

Receive(w, c) ==
  /\ pc[w] = "idle"
  /\ IsRefused(c.privileged)
  /\ pc' = [pc EXCEPT ![w] = "received"]
  /\ command' = [command EXCEPT ![w] = c]
  /\ UNCHANGED <<store, reading, outages>>

Goes(w, to) ==
  /\ pc' = [pc EXCEPT ![w] = to]
  /\ UNCHANGED command

\* Slip: the command is dropped, the worker is not.
EndsPartly(w) ==
  /\ command' = [command EXCEPT ![w] = None]
  /\ UNCHANGED pc

Ends(w) ==
  /\ pc' = [pc EXCEPT ![w] = "idle"]
  /\ command' = [command EXCEPT ![w] = None]

\* An actor without a role is refused, which leaves a trace of its own.
RejectAccess(w) ==
  /\ pc[w] = "received"
  /\ ~command[w].privileged
  /\ Append1("replayRejected", command[w].deadLetter)
  /\ Ends(w)
  /\ UNCHANGED <<deadLetters, preparation, ready, reading, rejected, outages>>

\* The dead letter is there, and the chain named is its own and audited.
IsTrusted(c) ==
  /\ c.deadLetter \in deadLetters
  /\ c.chain = c.deadLetter
  /\ Tells("failed", c.chain)

Refuse(w) ==
  /\ pc[w] = "received"
  /\ command[w].privileged
  /\ ~IsTrusted(command[w])
  /\ Ends(w)
  /\ UNCHANGED <<store, reading, rejected, outages>>

Prepare(w) ==
  /\ pc[w] = "received"
  /\ command[w].privileged
  /\ IsTrusted(command[w])
  /\ Goes(w, "prepared")
  /\ UNCHANGED <<store, reading, rejected, outages>>

IdOf(c) == ReplayIdOf[c.deadLetter]
ReadyKey(c) == <<c.deadLetter, c.approval>>

\* Slip: only the index of ready replays is looked at.
IsNewApproval(c) == ReadyKey(c) \notin ready

\* What uniqueness is compared with when the preparation is staged.
IsNew(c) == preparation[IdOf(c)] = None /\ ReadyKey(c) \notin ready

Stage(w) ==
  /\ pc[w] = "prepared"
  /\ IsNew(command[w])
  /\ Goes(w, "staged")
  /\ UNCHANGED <<store, reading, rejected, outages>>

Collide(w) ==
  /\ pc[w] = "prepared"
  /\ ~IsNew(command[w])
  /\ Ends(w)
  /\ UNCHANGED <<store, reading, rejected, outages>>

Commit(w) ==
  LET c == command[w] IN
  /\ pc[w] = "staged"
  /\ preparation' = [preparation EXCEPT ![IdOf(c)] =
                       [deadLetter |-> c.deadLetter, approval |-> c.approval]]
  /\ ready' = ready \cup {ReadyKey(c)}
  /\ Append1("replayReady", c.deadLetter)
  /\ Ends(w)
  /\ UNCHANGED <<deadLetters, reading, rejected, outages>>

\* Slip: a failing commit leaves the preparation behind.
CommitFailsLate(w) ==
  LET c == command[w] IN
  /\ pc[w] = "staged"
  /\ Breaks
  /\ preparation' = [preparation EXCEPT ![IdOf(c)] =
                       [deadLetter |-> c.deadLetter, approval |-> c.approval]]
  /\ Ends(w)
  /\ UNCHANGED <<trail, deadLetters, ready, reading, rejected>>

\* The trace of a refusal cannot be appended; the audit entry of a preparation
\* cannot be staged, or the commit fails.
CommitFails(w) ==
  /\ pc[w] = "staged" \/ (pc[w] = "received" /\ ~command[w].privileged)
  /\ Breaks
  /\ Ends(w)
  /\ UNCHANGED <<store, reading, rejected>>

-----------------------------------------------------------------------------
(***************************************************************************)
(* Reading the trail.                                                      *)
(***************************************************************************)
\* The entries that the reader's filter matches, in the order of the trail.
Wanted(r) ==
  LET matches[n \in 0 .. Len(trail)] ==
        IF n = 0 THEN <<>>
        ELSE IF trail[n] \in filter[r] THEN Append(matches[n - 1], trail[n])
        ELSE matches[n - 1]
  IN matches[Len(trail)]

\* A reader without authorization or role is refused.
RejectReader(r) ==
  /\ rpc[r] = "paging"
  /\ IsRefused(FALSE)
  /\ Append1("trailRejected", None)
  /\ UNCHANGED <<deadLetters, preparation, ready, work, reading, outages>>

\* The page after the token, and whether the trail goes on behind it.
PageAfter(items, from) ==
  SubSeq(items, from + 1,
         IF from + PageSize < Len(items) THEN from + PageSize ELSE Len(items))

HasMore(items, read) == read < Len(items)

\* Slip: an empty page is an error.
ListNonEmpty(r) ==
  LET items == Wanted(r)
      next == PageAfter(items, offset[r])
  IN
  /\ rpc[r] = "paging"
  /\ next # <<>>
  /\ page' = [page EXCEPT ![r] = next]
  /\ rpc' = [rpc EXCEPT ![r] =
               IF HasMore(items, offset[r] + Len(next)) THEN "listed" ELSE "last"]
  /\ UNCHANGED <<store, work, filter, offset, seen, rejected, outages>>

List(r) ==
  LET items == Wanted(r)
      next == PageAfter(items, offset[r])
  IN
  /\ rpc[r] = "paging"
  /\ page' = [page EXCEPT ![r] = next]
  /\ rpc' = [rpc EXCEPT ![r] =
               IF HasMore(items, offset[r] + Len(next)) THEN "listed" ELSE "last"]
  /\ UNCHANGED <<store, work, filter, offset, seen, rejected, outages>>

\* The page is given to the reader after the access to it is on the trail.
Grant(r) ==
  /\ rpc[r] \in {"listed", "last"}
  /\ Append1("trailGranted", None)
  /\ seen' = [seen EXCEPT ![r] = @ \o page[r]]
  /\ offset' = [offset EXCEPT ![r] = @ + Len(page[r])]
  /\ page' = [page EXCEPT ![r] = <<>>]
  /\ rpc' = [rpc EXCEPT ![r] = IF @ = "listed" THEN "paging" ELSE "done"]
  /\ UNCHANGED <<deadLetters, preparation, ready, work, filter, rejected, outages>>

\* Slip: the reader is moved past the page it is refused.
GrantFailsAhead(r) ==
  /\ rpc[r] \in {"listed", "last"}
  /\ Breaks
  /\ offset' = [offset EXCEPT ![r] = @ + Len(page[r])]
  /\ page' = [page EXCEPT ![r] = <<>>]
  /\ rpc' = [rpc EXCEPT ![r] = "paging"]
  /\ UNCHANGED <<store, work, filter, seen, rejected>>

\* The access cannot be recorded: the page is withheld.
GrantFails(r) ==
  /\ rpc[r] \in {"listed", "last"}
  /\ Breaks
  /\ page' = [page EXCEPT ![r] = <<>>]
  /\ rpc' = [rpc EXCEPT ![r] = "paging"]
  /\ UNCHANGED <<store, work, filter, offset, seen, rejected>>

-----------------------------------------------------------------------------
Handle(w) ==
  \/ RejectAccess(w)
  \/ Refuse(w)
  \/ Prepare(w)
  \/ Stage(w)
  \/ Collide(w)
  \/ Commit(w)
  \/ CommitFails(w)

Read(r) == List(r) \/ Grant(r) \/ GrantFails(r)

Next ==
  \/ \E d \in DeadLetters : AuditFailure(d) \/ MoveToDeadLetter(d)
  \/ \E w \in Workers : (\E c \in Commands : Receive(w, c)) \/ Handle(w)
  \/ \E r \in Readers : RejectReader(r) \/ Read(r)

Spec == Init /\ [][Next]_vars

\* A reader follows its page tokens; nobody has to send a command.
FairSpec == Spec /\ \A r \in Readers : WF_vars(Read(r))
-----------------------------------------------------------------------------
\* A replay stands prepared only for a dead letter whose failure is audited,
\* and its own audit entry was committed with it (prepare checks the chain
\* before it stages, and never looks again).
PreparedIsTrusted ==
  \A i \in ReplayIds :
    preparation[i] # None =>
      LET d == preparation[i].deadLetter IN
      /\ d \in deadLetters
      /\ Tells("failed", d)
      /\ Tells("replayReady", d)

\* The index of ready replays names the approvals replays were prepared for,
\* and no others: an approval is spent on one replay, and a replay has one.
ReadyAgrees ==
  \A d \in DeadLetters, a \in Approvals :
    <<d, a>> \in ready <=>
      preparation[ReplayIdOf[d]] = [deadLetter |-> d, approval |-> a]

\* Services, commits and readers together implement the ledger of replays.
Ledger == INSTANCE ReplayLedger
            WITH audited <- {d \in DeadLetters : Tells("failed", d)},
                 opened <- deadLetters, prepared <- preparation
ReplayLedgerSpec == Ledger!Spec

\* What a reader collected page by page is the trail it asked for from its
\* beginning, nothing twice and nothing left out, although entries are
\* appended between two pages and each page appends one.
PagesFollowTrail == \A r \in Readers : IsPrefix(seen[r], Wanted(r))

\* A reader reaches the end of the trail, although it appends to it.
TrailIsRead == \A r \in Readers : rpc[r] = "paging" ~> rpc[r] = "done"

=============================================================================
