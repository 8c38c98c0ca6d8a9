---------------------------- MODULE CaptureSession ----------------------------
(***************************************************************************)
(* One capture session of one active account: devices upload numbered      *)
(* events on several streams, the server acknowledges the contiguous       *)
(* prefix, a finish request starts a quiet period after which every stream *)
(* is sealed at an exact boundary, a late event reopens the seal, memory   *)
(* deletion leaves tombstones and rebinds it, and an abandoned session is  *)
(* finished by the server.                                                 *)
(*                                                                         *)
(* Every action is one transaction under the account's                     *)
(* "memory-reconciliation" lock, with the activation contract installed.   *)
(* An event is its stream and its sequence number; its status says whether *)
(* it waits for its upload, its media, is ready, has a deletion tombstone  *)
(* or only a tombstone.  Formation is seen from the outside: a receipt is  *)
(* pending or complete, it may be claimed, a page of it may wait, and the  *)
(* source fingerprint a page or a complete receipt stores may no longer be *)
(* that of the session.  Of the append-only seal log the code only ever    *)
(* reads the receipt's own generation, and compares that entry's revision  *)
(* and boundaries with the present ones, so the model keeps that entry.    *)
(***************************************************************************)
EXTENDS Integers, FiniteSets, FiniteSetsExt

CONSTANTS
    Events,               \* <<stream, sequence>>
    LegacyBoundaries,     \* boundaries a schema-26 writer may have left behind
    MaxPublishes          \* bound: topology publications of the reconciler

ASSUME CaptureAssumption ==
    /\ IsFiniteSet(Events)
    /\ \A e \in Events : e = <<e[1], e[2]>> /\ e[2] \in Nat
    /\ LegacyBoundaries \subseteq Nat /\ MaxPublishes \in Nat

None == -2
Streams == {e[1] : e \in Events}

Status == {"absent", "reserved", "queued", "ready", "bare", "doomed", "erased"}
Live == {"queued", "ready", "bare", "doomed"}    \* a capture_events row
Tombed == {"doomed", "erased"}             \* a capture_formation_deleted_sequences row

VARIABLES
    status,               \* per event, see Status
    row,                  \* streams with a capture_streams row
    ack, seal,            \* committed_through_sequence, sealed_sequence
    ended, finish,        \* ended_at, finish_requested_at are set
    idle, quiet,          \* 30 minutes, 4 hours without activity
    drained,              \* activation phase draining, active or paused
    state,                \* receipt: absent, pending or complete
    stale,                \* what changed since it was complete: no, owners, evidence
    page,                 \* its page that is not complete: none, waiting, outdated
    claimed,              \* a live formation claim
    sealed,               \* seal_finalized_at is set
    entry,                \* the seal log's entry of the receipt's seal_generation
    plan, mode,           \* events of the pending memory deletion, and its kind
    publishes

stream == <<status, row, ack, seal>>
session == <<ended, finish, idle, quiet, drained>>
formation == <<state, stale, page, claimed>>
receipt == <<formation, sealed, entry>>
deletion == <<plan, mode>>
vars == <<stream, session, receipt, deletion, publishes>>

-----------------------------------------------------------------------------
(***************************************************************************)
(* Stream boundaries.                                                      *)
(***************************************************************************)
Accepted(st, s) == {e[2] : e \in {f \in Events : f[1] = s /\ st[f] \in Live \cup Tombed}}
AcceptedMax(st, s) == IF Accepted(st, s) = {} THEN -1 ELSE Max(Accepted(st, s))
ContiguousThrough(st, s) ==
    LET a == Accepted(st, s)
    IN IF a = {} THEN -1 ELSE IF a = 0..(Cardinality(a) - 1) THEN Max(a) ELSE -2

\* The acknowledgement moves over every accepted sequence that follows it
\* directly, and never past the sealed boundary.
AdvanceAck(st, s, current, boundary) ==
    Max({current} \cup {n \in Accepted(st, s) :
                          /\ boundary = None \/ n <= boundary
                          /\ (current + 1)..n \subseteq Accepted(st, s)})

Exact(st, s) == ack[s] = AcceptedMax(st, s) /\ ack[s] = ContiguousThrough(st, s)
SealedExactly(st) == row # {} /\ \A s \in row : Exact(st, s) /\ seal[s] = ack[s]

\* What stream_maxima_sha256 commits to.
Maxima(st, rows, a, b) ==
    [s \in rows |-> <<a[s], AcceptedMax(st, s), b[s],
                      {e \in Events : e[1] = s /\ st[e] \in Tombed}>>]

\* The log entry of the current generation: none before the first seal; its
\* source_revision is or is not the receipt's; a reopen entry names it or not.
NoEntry == [sealed |-> FALSE, current |-> FALSE, reopened |-> FALSE, maxima |-> <<>>]
SealEntry(maxima) ==
    [sealed |-> TRUE, current |-> TRUE, reopened |-> FALSE, maxima |-> maxima]

CurrentFinalizedSeal ==
    /\ sealed /\ entry.sealed /\ ~entry.reopened
    /\ entry.maxima = Maxima(status, row, ack, seal)

MediaSettled == \A e \in Events : status[e] # "queued"

-----------------------------------------------------------------------------
(***************************************************************************)
(* Admission of a new event.                                               *)
(***************************************************************************)
ProvisionalFinishAuthorized == ~sealed /\ (~drained \/ finish \/ state # "absent")

StreamAdmission(s, q, finished) ==
    IF ~ended THEN IF seal[s] # None THEN "refused" ELSE "open"
    ELSE IF seal[s] = None
         THEN IF ProvisionalFinishAuthorized THEN "provisional" ELSE "refused"
    ELSE IF q > seal[s] /\ CurrentFinalizedSeal THEN "reopen"
    ELSE IF finished \/ q > seal[s] THEN "refused"
    ELSE "gap_fill"

Admission(s, q, finished) ==
    IF s \in row THEN StreamAdmission(s, q, finished)
    ELSE IF ~ended THEN "open"
    ELSE IF CurrentFinalizedSeal THEN "reopen"
    ELSE IF ProvisionalFinishAuthorized THEN "provisional" ELSE "refused"

\* The receipt moves to its next source_revision: claims and pages are void.
NextRevision == state' = "pending" /\ stale' = "no" /\ page' = "none" /\ claimed' = FALSE

\* The source changes and the receipt is not told: the fingerprint a waiting
\* page or a complete receipt stores is no longer that of the session.
SourceChanges(kind) ==
    /\ stale' = IF state # "complete" THEN "no" ELSE IF stale = "evidence" THEN stale ELSE kind
    /\ page' = IF page = "waiting" THEN "outdated" ELSE page
Outdated == [entry EXCEPT !.current = FALSE]


RecordSealReopen(reopen) ==
    IF ~reopen THEN UNCHANGED <<seal, sealed>> /\ entry' = Outdated
    ELSE /\ entry' = [Outdated EXCEPT !.reopened = TRUE]
         /\ seal' = [s \in Streams |-> None]
         /\ sealed' = FALSE

\* ended_at and finish_requested_at keep their first value.
RecordFinish(wanted) ==
    /\ ended' = (ended \/ wanted)
    /\ finish' = (finish \/ wanted)

\* commit_event: the body has been uploaded under a live reservation.
CommitEvent(e, finished) ==
    LET s == e[1]
        admission == Admission(s, e[2], finished)
        reopen == admission = "reopen"
        st == [status EXCEPT ![e] = "queued"]
        first == [ack EXCEPT ![s] = AdvanceAck(st, s, ack[s], seal[s])]
    IN /\ status[e] = "reserved"
       /\ admission # "refused"
       /\ reopen => SealedExactly(status)
       /\ status' = st
       /\ row' = row \cup {s}
       /\ NextRevision
       /\ RecordSealReopen(reopen)
       /\ ack' = [first EXCEPT ![s] = AdvanceAck(st, s, @, seal'[s])]
       /\ RecordFinish(finished)
       /\ idle' = FALSE /\ quiet' = FALSE
       /\ UNCHANGED <<drained, deletion, publishes>>

\* preflight and reserve_media_upload, before the body is stored.
ReserveUpload(e) ==
    /\ status[e] = "absent"
    /\ Admission(e[1], e[2], FALSE) # "refused"
    /\ status' = [status EXCEPT ![e] = "reserved"]
    /\ UNCHANGED <<row, ack, seal, session, receipt, deletion, publishes>>

\* The reservation lapses, or its device gives up.
ReservationLapses(e) ==
    /\ status[e] = "reserved"
    /\ status' = [status EXCEPT ![e] = "absent"]
    /\ UNCHANGED <<row, ack, seal, session, receipt, deletion, publishes>>

\* The media job of an event succeeds, which dirties the receipt, or fails
\* for good, which does not.
MediaSettles(e) ==
    /\ status[e] = "queued"
    /\ status' = [status EXCEPT ![e] = "ready"]
    /\ \/ NextRevision /\ entry' = Outdated
       \/ UNCHANGED <<formation, entry>>
    /\ quiet' = FALSE
    /\ UNCHANGED <<row, ack, seal, ended, finish, idle, drained, sealed, deletion,
                   publishes>>

-----------------------------------------------------------------------------
(***************************************************************************)
(* Finishing and sealing.                                                  *)
(***************************************************************************)
FinishSession ==
    /\ row # {}
    /\ RecordFinish(TRUE)
    /\ quiet' = (quiet /\ (finish \/ ended))
    /\ UNCHANGED <<stream, idle, drained, receipt, deletion, publishes>>

\* recover_inactive_sessions holds while an upload is reserved or a deletion
\* is pending anywhere in the account.
Recoverable ==
    /\ drained /\ ~ended /\ ~finish /\ ~sealed /\ state # "absent"
    /\ idle
    /\ mode = "none" /\ \A e \in Events : status[e] # "reserved"
    /\ \E e \in Events : status[e] \in Live
    /\ MediaSettled
    /\ \A s \in row : seal[s] = None /\ Exact(status, s)

RecoverInactiveSession ==
    /\ Recoverable
    /\ RecordFinish(TRUE)
    /\ quiet' = FALSE
    /\ UNCHANGED <<stream, idle, drained, receipt, deletion, publishes>>

ImportedFinish == finish \/ (drained /\ ended /\ ~sealed /\ state # "absent")

SealableWithGaps ==
    /\ drained /\ ended /\ ImportedFinish /\ ~sealed
    /\ quiet /\ row # {} /\ MediaSettled
    /\ \A s \in row : ack[s] = ContiguousThrough(status, s) \/ ack[s] < AcceptedMax(status, s)

Sealable ==
    /\ drained /\ ended /\ ImportedFinish /\ ~sealed
    /\ quiet /\ row # {} /\ MediaSettled
    /\ \A s \in row : Exact(status, s) /\ seal[s] \in {None, ack[s]}

\* finalize_quiet_capture_seals.
FinalizeQuietSeals ==
    IF Sealable
    THEN LET boundary == [s \in Streams |-> IF s \in row THEN ack[s] ELSE None]
         IN /\ seal' = boundary
            /\ sealed' = TRUE
            /\ entry' = SealEntry(Maxima(status, row, ack, boundary))
    ELSE UNCHANGED <<seal, sealed, entry>>

\* The session is over, its media settled and every stream exact.
FormationReady ==
    /\ state = "pending" /\ ended /\ ImportedFinish /\ MediaSettled
    /\ row # {}
    /\ \A s \in row : Exact(status, s) /\ seal[s] \in {None, ack[s]}

\* claim_capture_formation: the imported finishes, the seals and the claim are
\* one transaction.  due says whether the account's cursor has passed the
\* session and the receipt's own waiting times are over.  A page that waits
\* must still describe the source: otherwise the transaction fails, and keeps
\* neither claim nor seal.  (Nothing the second readiness check reads can
\* change under the lock.)
ClaimPass(due) ==
    LET selected == due /\ FormationReady /\ ~claimed
    IN /\ selected => page # "outdated"
       /\ finish' = ImportedFinish
       /\ FinalizeQuietSeals
       /\ claimed' = (claimed \/ selected)
       /\ page' = IF selected THEN "waiting" ELSE page
       /\ UNCHANGED <<status, row, ack, ended, idle, quiet, drained, state, stale,
                      deletion, publishes>>

-----------------------------------------------------------------------------
(***************************************************************************)
(* The receipt.                                                            *)
(***************************************************************************)
Unauditable(st) ==
    LET now == Maxima(st, row, ack, seal)
        recorded == entry.sealed /\ entry.current /\ ~entry.reopened
    IN sealed /\ \/ ~recorded
                 \/ /\ SealedExactly(st) /\ entry.maxima # now
                    \* no tombstone is newer than the entry
                    /\ \A s \in row : now[s][4] = entry.maxima[s][4]

RefreshWithoutRebind(st, change) ==
    /\ ~Unauditable(st)
    /\ IF \/ state = "complete" /\ change # "no"
          \/ sealed /\ entry.maxima # Maxima(st, row, ack, seal)
       THEN NextRevision /\ entry' = Outdated
       ELSE UNCHANGED <<formation, entry>>
    /\ UNCHANGED <<seal, sealed>>

RefreshSealOnly(st, change) ==
    /\ ~Unauditable(st)
    /\ IF sealed /\ entry.maxima # Maxima(st, row, ack, seal)
       THEN NextRevision /\ entry' = SealEntry(Maxima(st, row, ack, seal))
       ELSE SourceChanges(change) /\ UNCHANGED <<state, claimed, entry>>
    /\ UNCHANGED <<seal, sealed>>

\* refresh_capture_formation_receipt after the sources became st; change says
\* how they differ from the fingerprint of a complete receipt.  A receipt that
\* is neither complete nor sealed stays as it is, and so does its page.
Refresh(st, change) ==
    LET now == Maxima(st, row, ack, seal)
    IN /\ ~Unauditable(st)
       /\ IF (state = "complete" /\ change # "no") \/ (sealed /\ entry.maxima # now)
          THEN /\ NextRevision
               /\ IF ~sealed THEN entry' = Outdated /\ UNCHANGED <<seal, sealed>>
                  ELSE IF SealedExactly(st)
                  THEN entry' = SealEntry(now) /\ UNCHANGED <<seal, sealed>>
                  ELSE /\ entry' = Outdated
                       /\ seal' = [s \in Streams |-> None]
                       /\ sealed' = FALSE
          ELSE /\ UNCHANGED <<state, claimed, seal, sealed, entry>>
               /\ stale' = "no"
               /\ page' = IF change # "no" /\ page = "waiting" THEN "outdated" ELSE page

\* settle_capture_formation: the claimed page is complete, and more follow or
\* it was the last of this revision.
SettleFormation(more) ==
    /\ claimed /\ page = "waiting" /\ FormationReady
    /\ state' = IF more THEN state ELSE "complete"
    /\ stale' = "no"
    /\ page' = "none" /\ claimed' = FALSE
    /\ UNCHANGED <<stream, session, sealed, entry, deletion, publishes>>

\* The claim is given back or lapses; its page waits.
ReleaseFormation ==
    /\ claimed
    /\ claimed' = FALSE
    /\ UNCHANGED <<stream, session, state, stale, page, sealed, entry, deletion, publishes>>

\* settle_summary_window: the account's forward lane, which read its window
\* earlier, gives evidence of the session an owner and touches no receipt.
SettleSummaryWindow ==
    /\ \E e \in Events : status[e] = "ready"
    /\ SourceChanges("owners")
    /\ UNCHANGED <<stream, session, state, claimed, sealed, entry, deletion, publishes>>

\* The reconciler publishes other memories over a sealed, formed session.
TopologyPublished ==
    /\ publishes < MaxPublishes
    /\ sealed /\ state = "complete"
    /\ SealedExactly(status)
    /\ publishes' = publishes + 1
    /\ Refresh(status, "owners")
    /\ UNCHANGED <<status, row, ack, session, deletion>>

\* The activation transition, and the bounded refresh that follows it.
Drain ==
    /\ ~drained
    /\ drained' = TRUE
    /\ UNCHANGED <<stream, ended, finish, idle, quiet, receipt, deletion, publishes>>

BackfillRefresh ==
    /\ drained /\ state # "absent"
    /\ Refresh(status, stale)
    /\ UNCHANGED <<status, row, ack, session, deletion, publishes>>

-----------------------------------------------------------------------------
(***************************************************************************)
(* Memory deletion.  Before predecessors are drained a deletion is one     *)
(* transaction after it was planned; afterwards it goes in pages, each its *)
(* own transaction: the family is inventoried, the members and projections *)
(* go, then tombstones are written, then events are purged, and only then  *)
(* is the receipt refreshed.  No page after the inventory looks at claims. *)
(***************************************************************************)
BeginDeletion(family) ==
    /\ mode = "none" /\ family # {}
    /\ \A e \in family : status[e] = "ready"
    /\ ~drained => ~claimed
    /\ plan' = family
    /\ mode' = IF drained THEN "inventory" ELSE "whole"
    /\ UNCHANGED <<stream, session, receipt, publishes>>

CompleteDeletion ==
    LET st == [e \in Events |-> IF e \in plan THEN "erased" ELSE status[e]]
    IN /\ mode = "whole"
       /\ Refresh(st, "evidence")
       /\ status' = st
       /\ plan' = {} /\ mode' = "none"
       /\ UNCHANGED <<row, ack, session, publishes>>

InventoryFamily ==
    /\ mode = "inventory" /\ ~claimed
    /\ mode' = "paged"
    /\ UNCHANGED <<stream, session, receipt, plan, publishes>>

\* A page of the deletion takes event e from one status to the next.
ProcessPage(e, from, to) ==
    /\ mode = "paged" /\ e \in plan /\ status[e] = from
    /\ status' = [status EXCEPT ![e] = to]
    /\ SourceChanges("evidence")
    /\ UNCHANGED <<row, ack, seal, session, state, claimed, sealed, entry, deletion,
                   publishes>>

PurgeMembers(e) == ProcessPage(e, "ready", "bare")

\* The purge without its tombstone.
ForgetPage(e) == ProcessPage(e, "bare", "absent")

TombstonePage(e) ==
    /\ \A f \in plan : status[f] # "ready"
    /\ ProcessPage(e, "bare", "doomed")

PurgePage(e) ==
    /\ \A f \in plan : status[f] \in Tombed
    /\ ProcessPage(e, "doomed", "erased")

RefreshPaged ==
    /\ mode = "paged" /\ \A e \in plan : status[e] \notin Live
    /\ Refresh(status, stale)
    /\ plan' = {} /\ mode' = "none"
    /\ UNCHANGED <<status, row, ack, session, publishes>>

-----------------------------------------------------------------------------
\* Half an hour and four hours without a new event.
GoesIdle ==
    /\ ~idle /\ row # {}
    /\ idle' = TRUE
    /\ UNCHANGED <<stream, ended, finish, quiet, drained, receipt, deletion, publishes>>

GoesQuiet ==
    /\ idle /\ ~quiet
    /\ quiet' = TRUE
    /\ UNCHANGED <<stream, ended, finish, idle, drained, receipt, deletion, publishes>>

\* A new session, or one a schema-26 writer ended: its streams may carry a
\* boundary that later events still have to fill.
FreshInit ==
    /\ status = [e \in Events |-> "absent"]
    /\ row = {}
    /\ ack = [s \in Streams |-> -1]
    /\ seal = [s \in Streams |-> None]
    /\ ended = FALSE
    /\ state = "absent"

LegacyInit ==
    \E s \in Streams, boundary \in LegacyBoundaries :
       /\ status \in [Events -> {"absent", "ready"}]
       /\ row = {s}
       /\ \A e \in Events : status[e] = "ready" => e[1] = s /\ e[2] <= boundary
       /\ \E e \in Events : status[e] = "ready"
       /\ seal = [t \in Streams |-> IF t = s THEN boundary ELSE None]
       /\ ack = [t \in Streams |-> AdvanceAck(status, t, -1, seal[t])]
       /\ ended = TRUE
       /\ state = "pending"

Init ==
    /\ FreshInit \/ LegacyInit
    /\ finish = FALSE /\ idle = FALSE /\ quiet = FALSE /\ drained = FALSE
    /\ stale = "no" /\ page = "none" /\ claimed = FALSE
    /\ sealed = FALSE /\ entry = NoEntry
    /\ plan = {} /\ mode = "none" /\ publishes = 0

Next ==
    \/ \E e \in Events : ReserveUpload(e) \/ ReservationLapses(e) \/ MediaSettles(e)
    \/ \E e \in Events, finished \in BOOLEAN : CommitEvent(e, finished)
    \/ FinishSession \/ RecoverInactiveSession
    \/ \E due \in BOOLEAN : ClaimPass(due)
    \/ \E more \in BOOLEAN : SettleFormation(more)
    \/ ReleaseFormation \/ SettleSummaryWindow
    \/ TopologyPublished \/ Drain \/ BackfillRefresh
    \/ \E family \in SUBSET Events : BeginDeletion(family)
    \/ CompleteDeletion \/ InventoryFamily \/ RefreshPaged
    \/ \E e \in Events : PurgeMembers(e) \/ TombstonePage(e) \/ PurgePage(e)
    \/ GoesIdle \/ GoesQuiet

Spec == Init /\ [][Next]_vars

\* The worker pass runs recovery and the formation claim for every account in
\* a loop, but a claim whose waiting page is outdated fails every time, so that
\* only the other passes count, and of those only the ones that seal.  A
\* deletion is advanced until it ends, reservations lapse after ten minutes, and
\* time passes.  Devices, owners and the media jobs owe nothing.
FairSpec ==
    /\ Spec
    /\ WF_vars(Sealable /\ page # "outdated" /\ \E due \in BOOLEAN : ClaimPass(due))
    /\ WF_vars(RecoverInactiveSession)
    /\ WF_vars(GoesIdle \/ GoesQuiet)
    /\ WF_vars(CompleteDeletion)
    /\ WF_vars(\/ InventoryFamily \/ RefreshPaged
               \/ \E e \in Events : PurgeMembers(e) \/ TombstonePage(e) \/ PurgePage(e))
    /\ WF_vars(\E e \in Events : ReservationLapses(e))

-----------------------------------------------------------------------------
\* Every variable keeps its type: a boundary is a sequence number or not set, and
\* an acknowledgement of -1 stands for nothing acknowledged.
TypeOK ==
    /\ status \in [Events -> Status]
    /\ row \subseteq Streams
    /\ ack \in [Streams -> {-1} \cup Nat] /\ seal \in [Streams -> {None} \cup Nat]
    /\ {ended, finish, idle, quiet, drained, claimed, sealed} \subseteq BOOLEAN
    /\ state \in {"absent", "pending", "complete"}
    /\ stale \in {"no", "owners", "evidence"} /\ page \in {"none", "waiting", "outdated"}
    /\ {entry.sealed, entry.current, entry.reopened} \subseteq BOOLEAN
    /\ plan \subseteq Events
    /\ mode \in {"none", "whole", "inventory", "paged"}
    /\ publishes \in 0..MaxPublishes

\* A device drops its local copy of everything the server acknowledges, so
\* an acknowledged sequence is stored or was deleted by its owner; and while
\* a stream is open the acknowledgement is as far as it can be, so that no
\* device keeps re-sending what the server already has.  Gap fills, late
\* streams, reopened seals and tombstones all move this prefix.
AckIsPrefix ==
    \A s \in row : /\ 0..ack[s] \subseteq Accepted(status, s)
                   /\ ack[s] + 1 \in Accepted(status, s) => seal[s] # None /\ ack[s] >= seal[s]

\* A sealed session always has its own entry in the append-only seal log, at
\* the receipt's revision and generation and never reopened, every stream
\* ends exactly at its boundary, and the entry commits to the present
\* boundaries unless a pending deletion has just added tombstones.  Otherwise
\* refresh_capture_formation_receipt calls the seal unauditable, and every
\* later deletion or publication touching the session fails for ever.
SealIsAuditable ==
    /\ ~Unauditable(status)
    /\ sealed => SealedExactly(status)
    /\ sealed /\ mode # "paged" => CurrentFinalizedSeal

\* A complete formation receipt was computed over the events, tombstones and
\* projections the session still has, but for the pages a pending deletion has
\* processed since: every commit, deletion and publication that changes them
\* moves the receipt on.  (The forward lane may give evidence an owner without
\* telling the receipt, which therefore says nothing of owners.)
CompletionIsCurrent == state = "complete" /\ stale = "evidence" => mode = "paged"

\* Once predecessors are drained, every session that has an event is in the
\* end sealed for good, unless it waits for events its devices never sent, for
\* a media job, or for ever behind a page whose source changed: no order of
\* finishes, late events, reopenings, deletions and publications leaves it
\* open for another reason.  Only a device that keeps an upload reserved again
\* and again can hold back the server's own finish.
Gap == \E s \in row : \/ ContiguousThrough(status, s) # AcceptedMax(status, s)
                    \/ seal[s] > AcceptedMax(status, s)
=============================================================================
