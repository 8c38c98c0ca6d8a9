--------------------------- MODULE MemoryFormation ---------------------------
(***************************************************************************)
(* How the evidence of one capture session becomes memories.               *)
(*                                                                         *)
(* Two lanes form memories.  The forward lane walks the account's cursor   *)
(* (summarized_until) over time windows under one claim row and may leave  *)
(* evidence out.  Once the cursor has passed the session, the exact lane   *)
(* takes its receipt and goes through the evidence page by page: each page *)
(* asks the provider about the evidence no memory owns yet, and must       *)
(* account for all of it.  New evidence and memory deletions start a new   *)
(* source revision of the receipt; a deletion that goes in pages does so   *)
(* only when its last page is done.                                        *)
(*                                                                         *)
(* Repository calls are single transactions under the account's            *)
(* "memory-reconciliation" lock and are one action each; workers of        *)
(* several instances interleave between them, lose their lease at any      *)
(* moment and crash.  Evidence is numbered by its time.  A memory is the   *)
(* set of the evidence it owns.  The quiet period and media readiness are  *)
(* part of CaptureSession; here a session may be claimed at any moment     *)
(* after the cursor has passed it.                                         *)
(***************************************************************************)
EXTENDS Integers, FiniteSets, FiniteSetsExt

CONSTANTS
    Workers,
    Evidence,             \* 1..n, ordered by capture time
    PageSize,             \* CAPTURE_FORMATION_UTTERANCE_PAGE_SIZE
    MaxFaults,            \* bound: lapsed leases, crashes, failures, unbilled calls
    MaxDeletions,         \* bound: memory deletions
    None

\* A row of the table capture_formation_pages, which None is not.
Answers == {"memories", "no_memory", "keep"}
Prints == Nat \X (SUBSET Evidence) \X (SUBSET Evidence) \X (SUBSET Evidence)
            \X (SUBSET Evidence)
PageRows ==
    [index : Nat, print : Prints, covered : SUBSET Evidence, provider : SUBSET Evidence,
     more : BOOLEAN, attempt : Nat, request : BOOLEAN, staged : Answers \cup {None}]

ASSUME FormationAssumption ==
    /\ IsFiniteSet(Evidence)
    /\ Evidence = 1..Cardinality(Evidence) /\ Evidence # {}
    /\ PageSize \in Nat \ {0}
    /\ MaxFaults \in Nat /\ MaxDeletions \in Nat
    /\ None \notin Workers /\ None \notin PageRows

VARIABLES
    arrived, present,     \* evidence ever captured, evidence not yet purged
    memories,             \* active episodes, each the set of its members
    cursor,               \* accounts.summarized_until
    window,               \* summary_window_claims
    rev, receipt,         \* capture_formation_receipts
    page,                 \* the page of this revision that is not complete
    done, pages,          \* evidence covered by complete pages, and their number
    declined,             \* evidence of this revision the provider called no memory
    sealed,               \* the tombstones the final seal commits to, or None
    doomed, mode,         \* the memory whose deletion is pending, and how it goes
    tombed, purged,       \* evidence with a tombstone, without its capture event
    ledger,               \* vertex_usage_events by provider attempt
    sent,                 \* provider calls by provider attempt
    worker,
    faults, deletions

source == <<arrived, present, memories, cursor>>
formation == <<rev, receipt, page, done, pages, declined, sealed>>
erasure == <<doomed, mode, tombed, purged>>
usage == <<ledger, sent>>
bounds == <<faults, deletions>>
vars == <<source, window, formation, erasure, usage, worker, bounds>>

Owned == UNION memories
Waiting == [state |-> "pending", owner |-> None, live |-> FALSE, print |-> None]
NoWindow == [state |-> "retry_wait", owner |-> None, live |-> FALSE, span |-> None]
Idle == [pc |-> "idle", page |-> None, seen |-> {}, from |-> 0, to |-> 0, answer |-> "none"]

Fault == faults < MaxFaults /\ faults' = faults + 1

-----------------------------------------------------------------------------
(***************************************************************************)
(* Source revisions.                                                       *)
(***************************************************************************)
\* capture_formation_source_fingerprint: the revision, the evidence, which of
\* it an active memory owns, the tombstones, and the events that are gone.
Fingerprint(p, m, t, g) == <<rev, p, p \cap UNION m, t, g>>
Current == Fingerprint(present, memories, tombed, purged)

\* The cursor is behind neither the session's end nor its last event.
Ready == \A e \in arrived : e <= cursor

\* A receipt that is due, or whose claim has lapsed.
ClaimableIfFree ==
    /\ Ready
    /\ receipt.state \in {"pending", "retry_wait"}

Claimable ==
    /\ Ready
    /\ \/ receipt.state \in {"pending", "retry_wait"}
       \/ receipt.state = "processing" /\ ~receipt.live

Revise ==
    /\ rev' = rev + 1
    /\ receipt' = Waiting
    /\ page' = None
    /\ done' = {} /\ pages' = 0 /\ declined' = {}

\* New evidence is accepted or materialized: every claim of an older revision
\* is void, and a sealed session is open again.
Arrive(e) ==
    /\ e \notin arrived
    /\ arrived' = arrived \cup {e} /\ present' = present \cup {e}
    /\ Revise
    /\ sealed' = None
    /\ UNCHANGED <<memories, cursor, window, erasure, usage, worker, bounds>>

\* begin_episode_deletion.  No summary window may be live.  Until predecessors
\* are drained, and so before any seal, the deletion is planned as a whole and
\* no formation claim may be live either; afterwards it goes in pages.
BeginDeletion(m, kind) ==
    /\ mode = "none" /\ deletions < MaxDeletions
    /\ ~window.live
    /\ kind = "whole" => ~receipt.live /\ sealed = None
    /\ doomed' = m /\ mode' = kind /\ deletions' = deletions + 1
    /\ UNCHANGED <<source, window, formation, tombed, purged, usage, worker, faults>>

\* refresh_capture_formation_receipt: a complete receipt whose fingerprint has
\* changed, and a sealed one with new tombstones, move to the next revision;
\* another one stays as it is.
RefreshNever(p, m, t, g) == UNCHANGED formation

RefreshReceipt(p, m, t, g) ==
    /\ IF \/ sealed # None /\ sealed # t
          \/ receipt.state = "complete" /\ receipt.print # Fingerprint(p, m, t, g)
       THEN Revise
       ELSE UNCHANGED <<rev, receipt, page, done, pages, declined>>
    /\ sealed' = IF sealed = None THEN None ELSE t

\* complete_episode_deletion: the memory, its evidence and the refresh in one
\* transaction.
CompleteDeletion ==
    /\ mode = "whole"
    /\ present' = present \ doomed
    /\ memories' = memories \ {doomed}
    /\ tombed' = tombed \cup doomed /\ purged' = purged \cup doomed
    /\ RefreshReceipt(present', memories', tombed', purged')
    /\ doomed' = {} /\ mode' = "none"
    /\ UNCHANGED <<arrived, cursor, window, usage, worker, bounds>>

\* advance_paged_deletion, one transaction per page.  The inventory refuses a
\* live formation claim; no later page looks at claims.
InventoryFamily ==
    /\ mode = "begun" /\ ~receipt.live
    /\ mode' = "paged"
    /\ UNCHANGED <<source, window, formation, doomed, tombed, purged, usage, worker, bounds>>

PurgeMembers(e) ==
    /\ mode = "paged" /\ e \in doomed \cap present
    /\ present' = present \ {e}
    /\ memories' = {m \ {e} : m \in memories} \ {{}}
    /\ UNCHANGED <<arrived, cursor, window, formation, erasure, usage, worker, bounds>>

TombstoneEvents(e) ==
    /\ mode = "paged" /\ doomed \cap present = {} /\ e \in doomed \ tombed
    /\ tombed' = tombed \cup {e}
    /\ UNCHANGED <<source, window, formation, doomed, mode, purged, usage, worker, bounds>>

PurgeEvents(e) ==
    /\ mode = "paged" /\ doomed \subseteq tombed /\ e \in doomed \ purged
    /\ purged' = purged \cup {e}
    /\ UNCHANGED <<source, window, formation, doomed, mode, tombed, usage, worker, bounds>>

\* refresh_paged_sessions, and the end of the deletion.
RefreshSessions ==
    /\ mode = "paged" /\ doomed \subseteq purged
    /\ RefreshReceipt(present, memories, tombed, purged)
    /\ doomed' = {} /\ mode' = "none"
    /\ UNCHANGED <<source, window, tombed, purged, usage, worker, bounds>>

-----------------------------------------------------------------------------
(***************************************************************************)
(* The forward lane.                                                       *)
(***************************************************************************)
\* summary_evidence: what the window holds that no memory owns, unless the
\* session's receipt is complete.
WindowEvidence(to) ==
    IF receipt.state = "complete" THEN {}
    ELSE {e \in present : cursor < e /\ e <= to} \ Owned

\* A pass that found no session to form reads the cursor and the evidence of
\* its window; a window without any is skipped.
ForwardRead(w, to) ==
    /\ worker[w].pc = "idle"
    /\ ~Claimable
    /\ to > cursor
    /\ worker' = [worker EXCEPT ![w] = [Idle EXCEPT !.from = cursor, !.to = to,
                    !.seen = WindowEvidence(to),
                    !.pc = IF WindowEvidence(to) = {} THEN "skip" ELSE "read"]]
    /\ UNCHANGED <<source, window, formation, erasure, usage, bounds>>

\* set_summarized_until: an assignment, whatever the cursor is by now.
ForwardSkip(w) ==
    /\ worker[w].pc = "skip"
    /\ cursor' = worker[w].to
    /\ worker' = [worker EXCEPT ![w] = Idle]
    /\ UNCHANGED <<arrived, present, memories, window, formation, erasure, usage, bounds>>

\* claim_summary_window: one claim per account, refused while another is live
\* or when this very window has been settled.
ForwardClaim(w) ==
    LET span == <<worker[w].from, worker[w].to>>
    IN /\ worker[w].pc = "read"
       /\ IF window.live \/ (window.state = "succeeded" /\ window.span = span)
          THEN worker' = [worker EXCEPT ![w] = Idle] /\ UNCHANGED window
          ELSE /\ window' = [state |-> "processing", owner |-> w, live |-> TRUE, span |-> span]
               /\ worker' = [worker EXCEPT ![w].pc = "forward"]
       /\ UNCHANGED <<source, formation, erasure, usage, bounds>>

\* ensure_formation_sources_available: evidence a pending deletion lists is out
\* of reach.  A deletion in pages lists none.
Listed == IF mode = "whole" THEN doomed ELSE {}

\* ensure_episode_sources_unowned: nothing belongs to another memory than the
\* one it joins.
AvailableIfPresent(members, base) == members \subseteq present \ Listed

Available(members, base) ==
    /\ members \subseteq present \ Listed
    /\ members \cap Owned \subseteq base

Holds(w) == window.state = "processing" /\ window.owner = w

\* settle_summary_window: parts of the window's evidence become new memories or
\* join open ones, base[d] = {} standing for a new one, and the cursor moves on.
\* Evidence two parts name is refused.
ForwardSettle(w, drafts, base) ==
    /\ worker[w].pc = "forward"
    /\ Holds(w) /\ window.live
    /\ \A d \in drafts : Available(d, base[d])
    /\ \A c, d \in drafts : c = d \/ c \cap d = {}
    /\ \A d \in drafts : base[d] # {} => base[d] # doomed \cap present
    /\ memories' = {m \cup UNION {d \in drafts : base[d] = m} : m \in memories}
                      \cup {d \in drafts : base[d] = {}}
    /\ cursor' = Max({cursor, worker[w].to})
    /\ window' = [NoWindow EXCEPT !.state = "succeeded", !.span = window.span]
    /\ worker' = [worker EXCEPT ![w] = Idle]
    /\ UNCHANGED <<arrived, present, formation, erasure, usage, bounds>>

SettleWindow(w) ==
    \E drafts \in SUBSET ((SUBSET worker[w].seen) \ {{}}) :
        \E base \in [drafts -> memories \cup {{}}] : ForwardSettle(w, drafts, base)

\* The source guard, the provider or the settlement fails: the claim is given
\* back if it is still this worker's.  A window that keeps failing is skipped.
ForwardRelease(w) ==
    /\ worker[w].pc = "forward"
    /\ window' = IF Holds(w) THEN NoWindow ELSE window
    /\ \/ /\ worker' = [worker EXCEPT ![w] = Idle]
          /\ IF Holds(w) /\ window.live /\ Available(worker[w].seen, {})
             THEN Fault ELSE UNCHANGED faults
       \/ /\ worker' = [worker EXCEPT ![w] = [Idle EXCEPT !.pc = "skip", !.to = worker[w].to]]
          /\ UNCHANGED faults
    /\ UNCHANGED <<source, formation, erasure, usage, deletions>>

-----------------------------------------------------------------------------
(***************************************************************************)
(* The exact lane: claiming a page.                                        *)
(***************************************************************************)
\* The first PageSize pieces of evidence no page of this revision covers.
PageEvidence ==
    LET left == present \ done
    IN {e \in left : Cardinality({f \in left : f <= e}) <= PageSize}

NewPage ==
    [index |-> pages, print |-> Current, covered |-> PageEvidence,
     provider |-> PageEvidence \ Owned,
     more |-> Cardinality(present \ done) > PageSize,
     attempt |-> 1, request |-> FALSE, staged |-> None]

\* A page left behind by an earlier claim must still describe the evidence,
\* or the whole transaction, with the seals it found, is rolled back.
Reclaimable == page # None => page.print = Current

Key(p) == <<rev, p.index, p.attempt>>

\* claim_capture_formation and capture_formation_evidence.  The sealer runs
\* in the same transaction.  A page with nothing to ask, and one whose
\* response is staged, are settled without the provider.
Claim(w) ==
    /\ worker[w].pc = "idle"
    /\ Claimable /\ Reclaimable
    /\ sealed' \in {sealed, IF sealed = None THEN tombed ELSE sealed}
    /\ LET p == IF page = None THEN NewPage ELSE page
       IN /\ page' = p
          /\ receipt' = [state |-> "processing", owner |-> w, live |-> TRUE,
                         print |-> Current]
          /\ worker' = [worker EXCEPT ![w] = [Idle EXCEPT
                !.page = [key |-> Key(p), print |-> Current, provider |-> p.provider,
                          request |-> p.request],
                !.pc = IF p.provider = {} \/ p.staged # None THEN "settle" ELSE "claimed",
                !.answer = IF p.provider = {} \/ p.staged = None THEN "none" ELSE p.staged]]
    /\ UNCHANGED <<source, window, rev, done, pages, declined, erasure, usage, bounds>>

\* claim_capture_formation when no receipt is due: the sealer alone.
SealOnly ==
    /\ ~Claimable /\ sealed = None /\ sealed' = tombed
    /\ UNCHANGED <<source, window, rev, receipt, page, done, pages, declined, erasure,
                   usage, worker, bounds>>

\* The claim token this worker holds is the receipt's and the page's.
Token(w) == receipt.state = "processing" /\ receipt.owner = w
Authoritative(w) ==
    /\ Token(w) /\ receipt.live
    /\ receipt.print = worker[w].page.print
    /\ Current = worker[w].page.print
    /\ Ready

\* release_capture_formation: checks the token, not the lease.  Only a call
\* known to be unbilled moves the page to its next attempt.
Released(w, advance) ==
    /\ worker' = [worker EXCEPT ![w] = Idle]
    /\ IF Token(w) /\ ~(advance /\ page.staged # None)
       THEN /\ receipt' = [Waiting EXCEPT !.state = "retry_wait"]
            /\ page' = IF advance THEN [page EXCEPT !.attempt = @ + 1, !.request = FALSE]
                                  ELSE page
       ELSE UNCHANGED <<receipt, page>>

Release(w, advance) ==
    /\ Released(w, advance)
    /\ UNCHANGED <<source, window, rev, done, pages, declined, sealed, erasure, usage,
                   deletions>>

-----------------------------------------------------------------------------
(***************************************************************************)
(* The exact lane: asking the provider.                                    *)
(***************************************************************************)
Authorized(w) ==
    /\ Authoritative(w)
    /\ page.staged = None
    /\ Key(page) = worker[w].page.key
    /\ worker[w].page.provider \subseteq present \ Listed

Authorize(w) ==
    /\ worker[w].pc = "claimed" /\ Authorized(w)
    /\ page' = [page EXCEPT !.request = TRUE]
    /\ worker' = [worker EXCEPT ![w].pc = "authorized"]
    /\ UNCHANGED <<source, window, rev, receipt, done, pages, declined, sealed, erasure,
                   usage, bounds>>

AuthorizeRefused(w) ==
    /\ worker[w].pc = "claimed" /\ ~Authorized(w)
    /\ Release(w, FALSE) /\ UNCHANGED faults

\* Reading the evidence, the language, the quota or building the request fails.
LocalFailure(w) ==
    /\ worker[w].pc \in {"claimed", "authorized"}
    /\ Fault
    /\ Release(w, FALSE)

\* A request larger than its bound is never sent.
TooLarge(w) ==
    /\ worker[w].pc = "claimed" /\ ~worker[w].page.request
    /\ Fault
    /\ worker' = [worker EXCEPT ![w].pc = "settle", ![w].answer = "keep"]
    /\ UNCHANGED <<source, window, formation, erasure, usage, deletions>>

\* begin_invocation_attempt: the attempt's row is written before the call, and
\* an attempt that has one is never sent again.
BeginResends(w) ==
    /\ worker[w].pc = "authorized"
    /\ ledger' = [ledger EXCEPT ![worker[w].page.key] = "started"]
    /\ worker' = [worker EXCEPT ![w].pc = "sending"]
    /\ UNCHANGED <<source, window, formation, erasure, sent, bounds>>

Begin(w) ==
    LET k == worker[w].page.key
    IN /\ worker[w].pc = "authorized"
       /\ \/ /\ ledger[k] = "absent"
             /\ ledger' = [ledger EXCEPT ![k] = "started"]
             /\ worker' = [worker EXCEPT ![w].pc = "sending"]
             /\ UNCHANGED <<source, window, formation, erasure, sent, bounds>>
          \/ /\ ledger[k] \in {"started", "metered", "ambiguous"}
             /\ ledger' = [ledger EXCEPT ![k] = IF @ = "started" THEN "ambiguous" ELSE @]
             /\ worker' = [worker EXCEPT ![w].pc = "settle", ![w].answer = "keep"]
             /\ UNCHANGED <<source, window, formation, erasure, sent, bounds>>
          \/ /\ ledger[k] = "not_billed"
             /\ Release(w, TRUE) /\ UNCHANGED faults

Record(k, outcome) ==
    ledger' = [ledger EXCEPT ![k] = IF @ = "started" THEN outcome ELSE @]

\* The call, and the terminal usage record that follows it.  When the record
\* does not take the outcome, the attempt counts as ambiguous.
Answered(w, answer) ==
    LET k == worker[w].page.key
    IN /\ worker[w].pc = "sending"
       /\ sent' = [sent EXCEPT ![k] = @ + 1]
       /\ Record(k, "metered")
       /\ worker' = [worker EXCEPT
            ![w].pc = IF ledger[k] = "started" THEN "answered" ELSE "settle",
            ![w].answer = IF ledger[k] = "started" THEN answer ELSE "keep"]
       /\ UNCHANGED <<source, window, formation, erasure, bounds>>

NotBilled(w) ==
    LET k == worker[w].page.key
    IN /\ worker[w].pc = "sending" /\ ledger[k] = "started"
       /\ Fault
       /\ sent' = [sent EXCEPT ![k] = @ + 1]
       /\ Record(k, "not_billed")
       /\ Released(w, TRUE)
       /\ UNCHANGED <<source, window, rev, done, pages, declined, sealed, erasure, deletions>>

Ambiguous(w) ==
    LET k == worker[w].page.key
    IN /\ worker[w].pc = "sending"
       /\ Fault
       /\ sent' = [sent EXCEPT ![k] = @ + 1]
       /\ Record(k, "ambiguous")
       /\ worker' = [worker EXCEPT ![w].pc = "settle", ![w].answer = "keep"]
       /\ UNCHANGED <<source, window, formation, erasure, deletions>>

\* stage_capture_formation_response: a worker that has lost its claim stops
\* here without giving anything back.
Stage(w) ==
    /\ worker[w].pc = "answered"
    /\ IF /\ Token(w) /\ receipt.live /\ page.request /\ page.staged = None
          /\ Key(page) = worker[w].page.key /\ ledger[Key(page)] = "metered"
       THEN /\ page' = [page EXCEPT !.staged = worker[w].answer]
            /\ worker' = [worker EXCEPT ![w].pc = "settle"]
       ELSE /\ worker' = [worker EXCEPT ![w] = Idle]
            /\ UNCHANGED page
    /\ UNCHANGED <<source, window, rev, receipt, done, pages, declined, sealed, erasure,
                   usage, bounds>>

-----------------------------------------------------------------------------
(***************************************************************************)
(* The exact lane: settling a page.                                        *)
(***************************************************************************)
\* The memories of a settlement divide the page's open evidence exactly; no
\* memory at all needs an explicit answer, or nothing to remember.
AnySelection(provider, answer) == SUBSET {{e} : e \in provider}

Settlements(provider, answer) ==
    IF provider = {} \/ answer = "no_memory" THEN {{}}
    ELSE IF answer = "keep" THEN {{provider}}
    ELSE {parts \in SUBSET ((SUBSET provider) \ {{}}) :
            /\ UNION parts = provider
            /\ \A a, b \in parts : a = b \/ a \cap b = {}}

\* Without a staged response only a conservative keep is accepted.
Supported(w) ==
    worker[w].page.provider # {} /\ page.staged = None => worker[w].answer = "keep"

\* The complete pages cover the evidence exactly.
CoverageComplete(covered) == covered = present

Settleable(w) ==
    /\ Authoritative(w)
    /\ Key(page) = worker[w].page.key
    /\ Supported(w)
    /\ Available(worker[w].page.provider, {})
    /\ page.more \/ CoverageComplete(done \cup page.covered)

\* The receipt waits for its next page, or is complete with the fingerprint
\* the written memories give.
SettledReceiptHeld(m) ==
    IF page.more THEN receipt
    ELSE [Waiting EXCEPT !.state = "complete", !.print = Fingerprint(present, m, tombed, purged)]

SettledReceipt(m) ==
    IF page.more THEN Waiting
    ELSE [Waiting EXCEPT !.state = "complete", !.print = Fingerprint(present, m, tombed, purged)]

\* settle_capture_formation: all of it or, with the claim given back, nothing.
Settle(w) ==
    /\ worker[w].pc = "settle" /\ Settleable(w)
    /\ \E parts \in Settlements(worker[w].page.provider, worker[w].answer) :
         /\ memories' = memories \cup parts
         /\ declined' = IF worker[w].answer # "no_memory" THEN declined
                        ELSE declined \cup worker[w].page.provider
    /\ done' = done \cup page.covered
    /\ pages' = pages + 1
    /\ page' = None
    /\ receipt' = SettledReceipt(memories')
    /\ worker' = [worker EXCEPT ![w] = Idle]
    /\ UNCHANGED <<arrived, present, cursor, window, rev, sealed, erasure, usage, bounds>>

SettleRefused(w) ==
    /\ worker[w].pc = "settle" /\ ~Settleable(w)
    /\ Release(w, FALSE) /\ UNCHANGED faults

-----------------------------------------------------------------------------
(***************************************************************************)
(* Faults.                                                                 *)
(***************************************************************************)
LeaseLapses ==
    /\ receipt.live /\ Fault
    /\ receipt' = [receipt EXCEPT !.live = FALSE]
    /\ UNCHANGED <<source, window, rev, page, done, pages, declined, sealed, erasure, usage,
                   worker, deletions>>

WindowLapses ==
    /\ window.live /\ Fault
    /\ window' = [window EXCEPT !.live = FALSE]
    /\ UNCHANGED <<source, formation, erasure, usage, worker, deletions>>

\* A worker disappears, between any two of its steps or during its call; the
\* time of a lease it leaves behind runs out.
Crash(w) ==
    /\ worker[w].pc # "idle" /\ Fault
    /\ worker' = [worker EXCEPT ![w] = Idle]
    /\ \/ UNCHANGED sent
       \/ worker[w].pc = "sending" /\ sent' = [sent EXCEPT ![worker[w].page.key] = @ + 1]
    /\ UNCHANGED <<source, window, formation, erasure, ledger, deletions>>

Abandoned == \A w \in Workers : receipt.owner # w \/ worker[w].pc \in {"idle", "read", "skip", "forward"}
AbandonedWindow == \A w \in Workers : window.owner # w \/ worker[w].pc # "forward"

LeaseEnds ==
    /\ receipt.live /\ Abandoned
    /\ receipt' = [receipt EXCEPT !.live = FALSE]
    /\ UNCHANGED <<source, window, rev, page, done, pages, declined, sealed, erasure, usage,
                   worker, bounds>>

WindowEnds ==
    /\ window.live /\ AbandonedWindow
    /\ window' = [window EXCEPT !.live = FALSE]
    /\ UNCHANGED <<source, formation, erasure, usage, worker, bounds>>

-----------------------------------------------------------------------------
Keys == (1..Cardinality(Evidence) + MaxDeletions + 1) \X (0..Cardinality(Evidence) - 1)
          \X (1..MaxFaults + 1)

Init ==
    /\ arrived = {1} /\ present = {1}
    /\ memories = {} /\ cursor = 0 /\ window = NoWindow
    /\ rev = 1 /\ receipt = Waiting /\ page = None
    /\ done = {} /\ pages = 0 /\ declined = {} /\ sealed = None
    /\ doomed = {} /\ mode = "none" /\ tombed = {} /\ purged = {}
    /\ ledger = [k \in Keys |-> "absent"]
    /\ sent = [k \in Keys |-> 0]
    /\ worker = [w \in Workers |-> Idle]
    /\ faults = 0 /\ deletions = 0

Forward(w) ==
    \/ \E to \in Evidence : ForwardRead(w, to)
    \/ ForwardSkip(w) \/ ForwardClaim(w)
    \/ SettleWindow(w)
    \/ ForwardRelease(w)

Exact(w) ==
    \/ Claim(w)
    \/ Authorize(w) \/ AuthorizeRefused(w)
    \/ Begin(w)
    \/ \E answer \in Answers : Answered(w, answer)
    \/ NotBilled(w)
    \/ Stage(w)
    \/ Settle(w) \/ SettleRefused(w)

Next ==
    \/ \E e \in Evidence : Arrive(e)
    \/ \E m \in memories, kind \in {"whole", "begun"} : BeginDeletion(m, kind)
    \/ CompleteDeletion \/ InventoryFamily \/ RefreshSessions
    \/ \E e \in Evidence : PurgeMembers(e) \/ TombstoneEvents(e) \/ PurgeEvents(e)
    \/ \E w \in Workers : Forward(w) \/ Exact(w)
    \/ \E w \in Workers : LocalFailure(w) \/ TooLarge(w) \/ Ambiguous(w) \/ Crash(w)
    \/ SealOnly \/ LeaseLapses \/ WindowLapses \/ LeaseEnds \/ WindowEnds

Spec == Init /\ [][Next]_vars

\* The sweep runs every worker again and again, a window or a session that can
\* be claimed is claimed at some point, and leases run out.
Fairness ==
    /\ \A w \in Workers :
         /\ WF_vars(Authorize(w) \/ AuthorizeRefused(w) \/ Begin(w) \/ Stage(w)
                     \/ (\E answer \in Answers : Answered(w, answer))
                     \/ Settle(w) \/ SettleRefused(w))
         /\ WF_vars(ForwardSkip(w) \/ ForwardClaim(w) \/ ForwardRelease(w) \/ SettleWindow(w))
    /\ WF_vars(\E w \in Workers : ForwardRead(w, Cardinality(Evidence)))
    /\ WF_vars(\E w \in Workers : Claim(w))
    /\ WF_vars(CompleteDeletion) /\ WF_vars(InventoryFamily) /\ WF_vars(RefreshSessions)
    /\ \A e \in Evidence :
         WF_vars(PurgeMembers(e)) /\ WF_vars(TombstoneEvents(e)) /\ WF_vars(PurgeEvents(e))
    /\ WF_vars(LeaseEnds) /\ WF_vars(WindowEnds)

FairSpec == Spec /\ Fairness

-----------------------------------------------------------------------------
(***************************************************************************)
(* Properties.                                                             *)
(***************************************************************************)
ReceiptStates == {"pending", "processing", "retry_wait", "complete"}
PCs == {"idle", "read", "skip", "forward", "claimed", "authorized", "sending", "answered", "settle"}

\* Every row has one of its states, and the claim of a receipt and of its page
\* are held together.
TypeOK ==
    /\ present \subseteq arrived /\ arrived \subseteq Evidence
    /\ memories \subseteq SUBSET Evidence
    /\ cursor \in 0..Cardinality(Evidence)
    /\ window.owner \in Workers \cup {None}
    /\ receipt.state \in ReceiptStates
    /\ (receipt.state = "processing") = (receipt.owner # None)
    /\ receipt.live \/ receipt.state = "processing" => page # None
    /\ done \subseteq arrived /\ pages \in 0..Cardinality(Evidence)
    /\ doomed \cap present \in memories \cup {{}}
    /\ mode \in {"none", "whole", "begun", "paged"} /\ (mode = "none" => doomed = {})
    /\ tombed \subseteq arrived /\ purged \subseteq tombed
    /\ \A w \in Workers : worker[w].pc \in PCs
    /\ \A k \in Keys : sent[k] \in 0..2

\* No provider attempt is sent twice, and of the attempts of one page at most
\* one was sent without being confirmed unbilled: crashes, lapsed leases and
\* re-entries of begin_invocation_attempt never pay twice for the same page.
PaidOnce ==
    /\ \A k \in Keys : sent[k] <= 1
    /\ \A j, k \in {k \in Keys : sent[k] = 1} :
         j[1] = k[1] /\ j[2] = k[2] /\ j # k => "not_billed" \in {ledger[j], ledger[k]}

\* No two memories own the same evidence, whichever lanes and replicas formed
\* them from whatever they had read.
OneOwner == \A a, b \in memories : a = b \/ a \cap b = {}

\* When a receipt is complete, every piece of the session's evidence belongs to
\* a memory or the provider said explicitly that there is none in it: no page
\* boundary, conservative keep, forward window or retry drops evidence.
NothingLost == receipt.state = "complete" => present \subseteq Owned \cup declined

\* A complete receipt is about exactly the evidence, tombstones and events there
\* are, and everything it counted as owned still is: late events and deletions
\* of memories reopen it.  Only what a pending deletion is taking away page by
\* page may already have changed.  (Owners may be added: a forward window read
\* before the cursor passed the session can still be settled after the receipt
\* is complete.)
Describes(print, e) ==
    /\ e \in print[2] <=> e \in present
    /\ e \in print[3] => e \in Owned
    /\ e \in print[4] <=> e \in tombed
    /\ e \in print[5] <=> e \in purged

CompleteIsCurrent ==
    receipt.state = "complete" =>
        \A e \in Evidence :
            Describes(receipt.print, e) \/ (mode = "paged" /\ e \in doomed)

\* The states in which claim_capture_formation or settle_capture_formation
\* fails every time: evidence or its owners changed under a page that waits, or
\* under pages already complete, and the receipt kept its revision.  It happens
\* when a memory of the session is deleted while the receipt is neither complete
\* nor sealed, when a page is claimed between two pages of a deletion, and when
\* a forward window read before the cursor passed the session is settled while
\* a page waits.
Outdated ==
    receipt.state # "complete" /\ ~(done \subseteq present /\ Reclaimable)

\* The cursor is back behind the window settled last: when that very window is
\* read again, claim_summary_window refuses it every time.
CursorMovedBack == window.state = "succeeded" /\ cursor < window.span[2]

\* A session is formed completely, whatever workers crash and leases lapse; it
\* stays open only for one of these two reasons.
FormationCompletes == <>[](receipt.state = "complete" \/ Outdated \/ CursorMovedBack)
=============================================================================
