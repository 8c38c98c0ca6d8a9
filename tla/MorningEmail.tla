----------------------------- MODULE MorningEmail -----------------------------
(***************************************************************************)
(* The morning email of one account.  Finalization records which evidence  *)
(* a first brief covers; every morning a worker gathers the complete       *)
(* briefs of that evidence into one digest per local date, claims it under *)
(* the disclosure fence and the provider lane, sends it and settles it.    *)
(* Meanwhile memories are merged and split, briefs are written again, the  *)
(* owner saves preferences, changes address, deletes a memory or closes    *)
(* the account.                                                            *)
(*                                                                         *)
(* Every action is one PostgreSQL transaction or one step of a worker      *)
(* between two of them.  `db' holds the mail tables; an operator that      *)
(* takes a `t' is a statement of a transaction, and a transaction applies  *)
(* them in the order in which the code runs them.                          *)
(*                                                                         *)
(* The account's recordings lie within eight hours of each other, so its   *)
(* memories are one source component: a reconciliation takes all of them,  *)
(* and no brief is settled while one of them is a draft.                   *)
(***************************************************************************)
EXTENDS Naturals, FiniteSets, FiniteSetsExt

CONSTANTS
    Sources,        \* pieces of evidence
    SourceDay,      \* the local date on which each was recorded
    Workers,        \* replicas that deliver mail
    MAX_BRIEFS,     \* briefs per digest, and per page of its assembly
    MAX_ATTEMPTS,   \* sends of one digest
    MaxDay,         \* bound on local dates
    MaxMemory,      \* bound on memory ids
    MaxChange       \* bound on changes by the owner, new briefs and crashes

ASSUME MailAssumption ==
    /\ MAX_BRIEFS \in Nat \ {0} /\ MAX_ATTEMPTS \in Nat \ {0}
    /\ MaxDay \in Nat \ {0} /\ MaxMemory \in Nat /\ MaxChange \in Nat
    /\ Sources \subseteq Nat /\ IsFiniteSet(Sources) /\ SourceDay \in [Sources -> Nat]

Days == 1..MaxDay
Memories == 1..MaxMemory
Waiting == {"pending", "retry_wait"}
Unsent == Waiting \cup {"assembling"}
DeliveryState == Unsent \cup {"none", "processing", "delivered", "ambiguous",
                              "failed", "cancelled", "empty"}
\* "none": no row; "erased": the evidence was deleted with its memory.
SourceState == {"none", "pending", "delivered", "ambiguous", "withheld_update",
                "cancelled", "failed", "erased"}
\* A "pending" memory is organized and has no brief yet; a "claimed" one is
\* being finalized for the first time, a "rewriting" one again; "deferred": a
\* finalized memory whose new brief was put off.
MemoryState == {"none", "draft", "pending", "claimed", "complete", "rewriting",
                "deferred", "superseded", "deleted"}
Finalized == {"complete", "rewriting", "deferred"}
Active == Finalized \cup {"draft", "pending", "claimed"}
\* Preferences: no mail, a generic link, the full briefs.
Consent == {"off", "link", "content"}
PC == {"idle", "claim", "send", "settle"}
SendResult == {"accepted", "transient", "rejected", "lost"}
\* next_attempt_at lies ahead, has come, or the 23 hours since the first send
\* are over; the lease of a claim runs, or has lapsed.
Timer == {"wait", "ready", "stale", "lease", "lapsed"}

\* A claim token is drawn once per claim: its date and attempt number.
Token == Days \X (1..MAX_ATTEMPTS)
NoToken == <<0, 0>>
NoCandidate == [date |-> 0]

VARIABLES
    account,        \* accounts.status is 'active'
    pref,           \* episode_email_preferences: the consent and its updated_at
    recipient,      \* accounts.email
    mem,            \* finalization_status of a memory, and its handle
    members,        \* active_episode_members
    revision,       \* brief_revision, 0 before the first brief
    lineage,        \* memory_lineage_edges: the ancestors of a memory
    heir,           \* a finalized memory is among its ancestors
    asked,          \* the preference that a first finalization has read
    db,             \* the mail tables, see below
    pc, cand, wtoken, wresult,
    mailed,         \* history: <<date, evidence>> the provider may have mailed
    acted,          \* history: requests the provider may have accepted
    changes

topology == <<mem, members, lineage, revision, heir, asked>>
settings == <<account, pref, recipient>>
worker == <<pc, cand, wtoken, wresult>>
history == <<mailed, acted>>
vars == <<settings, topology, db, worker, history, changes>>

\* morning_email_sources and morning_email_deliveries.  Of the last digest that
\* considered a source only the open one matters, so it is kept there.
NoSource == [state |-> "none", content |-> FALSE, delivery |-> 0]
NoDelivery == [state |-> "none", consent |-> 0, to |-> 0, content |-> FALSE,
               snapshot |-> {}, considered |-> {}, attempts |-> 0, timer |-> "wait",
               token |-> NoToken]
\* With email_send_fences, the owner of the email lane, and whether the pace or
\* the circuit of the lane holds.
NoMail == [src |-> [s \in Sources |-> NoSource], dlv |-> [d \in Days |-> NoDelivery],
           fence |-> {}, lane |-> NoToken, cooling |-> FALSE]

Init ==
    /\ account = TRUE
    /\ pref = [consent |-> "content", at |-> 0]
    /\ recipient = 0
    /\ mem = [m \in Memories |-> "none"]
    /\ members = [m \in Memories |-> {}]
    /\ lineage = [m \in Memories |-> {}]
    /\ revision = [m \in Memories |-> 0]
    /\ heir = [m \in Memories |-> FALSE]
    /\ asked = [m \in Memories |-> "off"]
    /\ db = NoMail
    /\ pc = [w \in Workers |-> "idle"]
    /\ cand = [w \in Workers |-> NoCandidate]
    /\ wtoken = [w \in Workers |-> NoToken]
    /\ wresult = [w \in Workers |-> "lost"]
    /\ mailed = {}
    /\ acted = [d \in Days |-> 0]
    /\ changes = 0

-----------------------------------------------------------------------------
(* Statements of the mail transactions.                                    *)

InState(t, S) == {d \in Days : t.dlv[d].state \in S}

\* The pending evidence of the digests ds becomes row(its row).
ForEvidence(t, ds, row(_)) ==
    [t EXCEPT !.src = [s \in Sources |->
        IF t.src[s].state = "pending" /\ t.src[s].delivery \in ds
        THEN row(t.src[s]) ELSE t.src[s]]]
Detached(row) == [row EXCEPT !.delivery = 0]
\* Mutant: evidence loses its digest after the outcome is known, too.
DetachAll(t, ds) ==
    [t EXCEPT !.src = [s \in Sources |-> IF t.src[s].delivery \in ds THEN Detached(t.src[s])
                                         ELSE t.src[s]]]
Detach(t, ds) == ForEvidence(t, ds, Detached)
\* A settled digest leaves its outcome on its evidence as a receipt.
Cover(t, ds, st) == ForEvidence(t, ds, LAMBDA row : [row EXCEPT !.state = st])

ForDigests(t, ds, row(_)) ==
    [t EXCEPT !.dlv = [d \in Days |-> IF d \in ds THEN row(t.dlv[d]) ELSE t.dlv[d]]]
Cancelled(row) == [row EXCEPT !.state = "cancelled", !.snapshot = {},
                              !.considered = {}, !.timer = "wait"]

CancelSnapshot(t, ds) ==
    Detach(ForDigests(t, ds \cap InState(t, Unsent), Cancelled), ds)

\* A revoked consent gives up the evidence that was not submitted; any other
\* change of preferences lets it join a later morning.
CancelUnsent(t, revoked) ==
    LET ds == InState(t, Unsent) \cup {0}
        row(r) == [r EXCEPT !.delivery = 0,
                            !.state = IF revoked THEN "cancelled" ELSE @]
    IN ForDigests(ForEvidence(t, ds, row), ds, Cancelled)

ReleaseFence(t, tokens) ==
    [t EXCEPT !.fence = @ \ tokens,
              !.lane = IF @ \in tokens THEN NoToken ELSE @,
              !.cooling = @ \/ t.lane \in tokens]

\* Mutant: an expired claim is tried again.
RecoveredRetry(r) ==
    [r EXCEPT !.state = "retry_wait", !.token = NoToken, !.timer = "ready"]
RecoveredRow(r) ==
    [r EXCEPT !.state = "ambiguous", !.token = NoToken, !.timer = "wait"]
RecoverExpired(t) ==
    LET ds == {d \in InState(t, {"processing"}) : t.dlv[d].timer = "lapsed"}
    IN ReleaseFence(Cover(ForDigests(t, ds, RecoveredRow), ds, "ambiguous"),
                    {t.dlv[d].token : d \in ds})

\* A rejected digest may be sent again only within the provider's
\* idempotency window.
ExpireRetries(t) ==
    LET ds == {d \in InState(t, {"retry_wait"}) : t.dlv[d].timer = "stale"}
        row(r) == [r EXCEPT !.state = "failed", !.timer = "wait"]
    IN Cover(ForDigests(t, ds, row), ds, "failed")

-----------------------------------------------------------------------------
(* Briefs, and what a digest may contain.                                  *)

\* brief_sources_are_settled: no draft waits in the component.
BriefsSettled == \A m \in Memories : mem[m] # "draft"

Brief(m) == [id |-> m, members |-> members[m], revision |-> revision[m]]
\* load_episode, sources and brief_revision still say what the snapshot says.
Current(b) == mem[b.id] = "complete" /\ BriefsSettled /\ Brief(b.id) = b

Authorized(t, d) ==
    /\ account /\ pref.consent # "off" /\ t.dlv[d].consent = pref.at
    /\ t.dlv[d].to = recipient
    /\ t.dlv[d].content => pref.consent = "content"

\* The result of a transaction's reads and writes: its tables and a candidate.
Result(t, c) == [t |-> t, cand |-> c]
Candidate(t, d) ==
    [date |-> d, attempts |-> t.dlv[d].attempts, snapshot |-> t.dlv[d].snapshot,
     content |-> t.dlv[d].content, to |-> t.dlv[d].to]

\* Mutant: the evidence of a brief that is taken out keeps its digest.
TrimSnapshot(t, d, stale) ==
    ForDigests(t, {d}, LAMBDA r : [r EXCEPT !.snapshot = r.snapshot \ stale])
\* Briefs that have changed since leave the digest with their evidence.
Trim(t, d, stale) ==
    LET lost == UNION {b.members : b \in stale}
        kept(r) == [r EXCEPT !.snapshot = r.snapshot \ stale]
        src == [s \in Sources |->
                   IF s \in lost /\ t.src[s].state = "pending" /\ t.src[s].delivery = d
                   THEN Detached(t.src[s]) ELSE t.src[s]]
    IN ForDigests([t EXCEPT !.src = src], {d}, kept)
\* A digest that was submitted before is never rebuilt.
ReadDigest(t, d) ==
    LET stale == {b \in t.dlv[d].snapshot : ~Current(b)}
        trimmed == Trim(t, d, stale)
    IN IF \/ ~Authorized(t, d)
          \/ stale # {} /\ (t.dlv[d].attempts > 0 \/ stale = t.dlv[d].snapshot)
       THEN Result(CancelSnapshot(t, {d}), NoCandidate)
       ELSE Result(trimmed, Candidate(trimmed, d))
ReadCandidate(t) ==
    LET ds == {d \in InState(t, Waiting) : t.dlv[d].timer \in {"ready", "stale"}}
    IN IF ds = {} THEN Result(t, NoCandidate) ELSE ReadDigest(t, Min(ds))

-----------------------------------------------------------------------------
(* Scheduling and assembly.                                                *)

LastDay(m) == Max({SourceDay[s] : s \in members[m]})
Recorded(t, m) == {s \in members[m] : t.src[s].state # "none"}
Free(t, s) == t.src[s].state = "pending" /\ t.src[s].delivery = 0

Eligible(t, d) ==
    {m \in Memories :
        /\ mem[m] = "complete" /\ LastDay(m) < d
        /\ \E s \in Recorded(t, m) : Free(t, s) /\ s \notin t.dlv[d].considered
        /\ \A s \in Recorded(t, m) : Free(t, s)}

\* One page of the assembly; the order of the page is that of past updates and
\* is left open.
Assembled(t, d, page, take) ==
    LET considered == IF BriefsSettled THEN take ELSE page
        added == IF BriefsSettled THEN take ELSE {}
        snapshot == t.dlv[d].snapshot \cup {Brief(m) : m \in added}
        covered == UNION {b.members : b \in snapshot}
        marked == UNION {members[m] : m \in considered}
        joined == [s \in Sources |-> IF s \in covered /\ Free(t, s)
                                     THEN [t.src[s] EXCEPT !.delivery = d] ELSE t.src[s]]
        complete == Cardinality(snapshot) >= MAX_BRIEFS \/ Cardinality(page) < MAX_BRIEFS
        row(r) == [r EXCEPT
                      !.snapshot = snapshot,
                      !.considered = IF complete THEN {}
                                     ELSE r.considered \cup {s \in marked : Free(t, s)},
                      !.content = r.content /\ \A m \in added : \A s \in Recorded(t, m) :
                                                                t.src[s].content,
                      !.state = IF ~complete THEN "assembling"
                                ELSE IF snapshot = {} THEN "empty" ELSE "pending",
                      !.timer = "ready"]
    IN ForDigests([t EXCEPT !.src = joined], {d}, row)
ContinueAssembly(t, d) ==
    LET eligible == Eligible(t, d)
        pages == kSubset(Min({MAX_BRIEFS, Cardinality(eligible)}), eligible)
        room == MAX_BRIEFS - Cardinality(t.dlv[d].snapshot)
        after(page, take) ==
            LET u == Assembled(t, d, page, take)
            IN IF u.dlv[d].state = "pending" THEN ReadCandidate(u) ELSE Result(u, NoCandidate)
    IN IF ~Authorized(t, d) THEN {Result(CancelSnapshot(t, {d}), NoCandidate)}
       ELSE UNION {{after(page, take) : take \in kSubset(Min({room, Cardinality(page)}), page)} :
                      page \in pages}

\* Evidence beside a receipt is an update of what was mailed, and is withheld;
\* it is released when a split has taken it away from every receipt.
Receipts == {"delivered", "ambiguous", "cancelled", "failed"}
Beside(t, s, S) ==
    \E m \in Memories : s \in members[m] /\ \E q \in members[m] : t.src[q].state \in S
Owned(s) == \E m \in Memories : s \in members[m]
Restate(t, from, to, P(_)) ==
    [t EXCEPT !.src = [s \in Sources |->
        IF t.src[s].state = from /\ Owned(s) /\ P(s)
        THEN [t.src[s] EXCEPT !.state = to] ELSE t.src[s]]]
WithholdUpdates(t) ==
    LET u == Restate(t, "withheld_update", "pending", LAMBDA s : ~Beside(t, s, Receipts))
    IN Restate(u, "pending", "withheld_update",
               LAMBDA s : /\ u.src[s].delivery = 0
                          /\ Beside(u, s, Receipts \cup {"withheld_update"}))

OpenDigest(t, today) ==
    ForDigests(t, {today}, LAMBDA r : [r EXCEPT !.state = "assembling", !.consent = pref.at,
                                       !.to = recipient, !.content = pref.consent = "content"])
\* Travel never reopens a local date.
Schedule(t, today) ==
    IF t.dlv[today].state # "none" THEN {Result(t, NoCandidate)}
    ELSE ContinueAssembly(OpenDigest(WithholdUpdates(t), today), today)

\* Any sweep may find the schedule due, on any local date: travel repeats
\* dates, and mornings without a sweep are missed.
NextCandidate(w) ==
    LET read == ReadCandidate(ExpireRetries(RecoverExpired(db)))
        open == InState(read.t, {"assembling"})
        mornings == IF account /\ pref.consent # "off"
                    THEN UNION {Schedule(read.t, today) : today \in Days} ELSE {}
        results == CASE read.cand # NoCandidate -> {read}
                     [] read.cand = NoCandidate /\ open # {} -> ContinueAssembly(read.t, Min(open))
                     [] OTHER -> {read} \cup mornings
    IN /\ pc[w] = "idle"
       /\ \E r \in results :
             /\ db' = r.t
             /\ cand' = [cand EXCEPT ![w] = r.cand]
             /\ pc' = [pc EXCEPT ![w] = IF r.cand = NoCandidate THEN "idle" ELSE "claim"]
       /\ UNCHANGED <<settings, topology, wtoken, wresult, history, changes>>

-----------------------------------------------------------------------------
(* Claim, send and settle.                                                 *)

Stop(w) ==
    /\ pc' = [pc EXCEPT ![w] = "idle"]
    /\ cand' = [cand EXCEPT ![w] = NoCandidate]
    /\ wtoken' = [wtoken EXCEPT ![w] = NoToken]
    /\ wresult' = [wresult EXCEPT ![w] = "lost"]

\* Fence, lane and row are taken in one transaction.
Claimed(t, d, token) ==
    LET row(r) == [r EXCEPT !.state = "processing", !.attempts = @ + 1,
                            !.token = token, !.timer = "lease"]
    IN ForDigests([t EXCEPT !.fence = @ \cup {token}, !.lane = token], {d}, row)

\* The candidate is read again under the locks and must be the same; the code
\* that renders a retried digest may have changed with a release, and then its
\* frozen request no longer matches.  After a pause the worker tries again.
Claim(w) ==
    LET r == ReadCandidate(RecoverExpired(db))
        d == cand[w].date
        token == <<d, r.t.dlv[d].attempts + 1>>
        same == r.cand = cand[w]
        available == r.t.lane = NoToken /\ ~r.t.cooling
    IN /\ pc[w] = "claim"
       /\ \/ /\ same /\ available
             /\ db' = Claimed(r.t, d, token)
             /\ pc' = [pc EXCEPT ![w] = "send"]
             /\ wtoken' = [wtoken EXCEPT ![w] = token]
             /\ UNCHANGED <<cand, wresult>>
          \/ /\ \/ ~same \/ ~available
                \/ same /\ available /\ cand[w].attempts > 0
             /\ db' = IF same /\ available THEN CancelSnapshot(r.t, {d}) ELSE r.t
             /\ \/ UNCHANGED worker
                \/ Stop(w)
       /\ UNCHANGED <<settings, topology, history, changes>>

\* The provider may act on an answer that is lost.
Send(w) ==
    /\ pc[w] = "send"
    /\ pc' = [pc EXCEPT ![w] = "settle"]
    /\ \E result \in SendResult, acts \in BOOLEAN :
          /\ result = "accepted" => acts
          /\ result \in {"transient", "rejected"} => ~acts
          /\ wresult' = [wresult EXCEPT ![w] = result]
          /\ acted' = IF acts THEN [acted EXCEPT ![cand[w].date] = @ + 1] ELSE acted
          /\ mailed' = IF acts
                       THEN mailed \cup {<<cand[w].date, s>> :
                                            s \in UNION {b.members : b \in cand[w].snapshot}}
                       ELSE mailed
    /\ UNCHANGED <<settings, topology, db, cand, wtoken, changes>>

\* Mutant: the attempts are not capped.
OutcomeUncapped(result, attempts) ==
    CASE result = "accepted" -> "delivered"
      [] result = "lost" -> "ambiguous"
      [] result = "rejected" -> "failed"
      [] OTHER -> "retry_wait"
Outcome(result, attempts) ==
    CASE result = "accepted" -> "delivered"
      [] result = "lost" -> "ambiguous"
      [] result = "rejected" -> "failed"
      [] OTHER -> IF attempts >= MAX_ATTEMPTS THEN "failed" ELSE "retry_wait"

Change == changes < MaxChange /\ changes' = changes + 1

\* A claim that was recovered has its outcome already; the late answer is dropped.
Settle(w) ==
    LET d == cand[w].date
        row == db.dlv[d]
        st == Outcome(wresult[w], row.attempts)
        settled == ForDigests(db, {d}, LAMBDA r : [r EXCEPT !.state = st, !.token = NoToken,
                                                           !.timer = "wait"])
        covered == IF st = "retry_wait" THEN settled ELSE Cover(settled, {d}, st)
        current == /\ row.state = "processing" /\ row.token = wtoken[w]
                   /\ wtoken[w] \in db.fence
    IN /\ pc[w] = "settle"
       /\ db' = IF current THEN ReleaseFence(covered, {wtoken[w]}) ELSE db
       /\ Stop(w)
       /\ UNCHANGED <<settings, topology, history, changes>>

CrashW(w) ==
    /\ pc[w] # "idle" /\ Change
    /\ Stop(w)
    /\ UNCHANGED <<settings, topology, db, history>>

\* Time: a retry comes due and then leaves the idempotency window, a lease
\* lapses, the lane cools down.
Tick ==
    /\ \/ \E d \in InState(db, {"retry_wait"}) :
             /\ db.dlv[d].timer # "stale"
             /\ db' = [db EXCEPT !.dlv[d].timer = IF @ = "wait" THEN "ready" ELSE "stale"]
       \/ \E d \in InState(db, {"processing"}) :
             /\ db.dlv[d].timer = "lease"
             /\ db' = [db EXCEPT !.dlv[d].timer = "lapsed"]
       \/ /\ db.cooling
          /\ db' = [db EXCEPT !.cooling = FALSE]
    /\ UNCHANGED <<settings, topology, worker, history, changes>>

-----------------------------------------------------------------------------
(* The owner.                                                              *)

\* Mutant: preferences are saved while a digest is in flight.
MayChangeAlways == account
MayChange == account /\ db.fence = {}

SavePreference ==
    /\ MayChange /\ Change
    /\ \E c \in Consent :
          /\ pref' = [consent |-> c, at |-> pref.at + 1]
          /\ db' = CancelUnsent(db, c = "off")
    /\ UNCHANGED <<account, recipient, topology, worker, history>>

\* Identity refresh finds another verified address.
ChangeAddress ==
    /\ MayChange /\ Change
    /\ recipient' = recipient + 1
    /\ db' = LET ds == InState(db, Unsent) IN ForDigests(Detach(db, ds), ds, Cancelled)
    /\ UNCHANGED <<account, pref, topology, worker, history>>

CloseAccount ==
    /\ account /\ Change
    /\ account' = FALSE
    /\ UNCHANGED <<pref, recipient, topology, db, worker, history>>

\* Mutant: the digests that carried an ancestor of a deleted memory keep it.
AffectedItself(m) == {d \in Days : \E b \in db.dlv[d].snapshot : b.id = m}
\* A memory is deleted with the snapshots of its ancestors.
Line(m) == {m} \cup lineage[m]
Affected(m) == {d \in Days : \E b \in db.dlv[d].snapshot : b.id \in Line(m)}

\* A settled digest keeps its state, but not the deleted memory.  The ancestors
\* have no evidence of their own left; the edges outlive them.
DeleteMemory(m) ==
    LET ds == Affected(m)
        row(r) == IF r.state \in Unsent THEN Cancelled(r) ELSE [r EXCEPT !.snapshot = {}]
        cleared == ForDigests(Detach(db, ds), ds, row)
    IN /\ mem[m] \in Active /\ Change
       /\ ds \cap InState(db, {"processing"}) = {}
       /\ db' = [cleared EXCEPT !.src = [s \in Sources |->
                    IF s \in members[m]
                    THEN [cleared.src[s] EXCEPT !.state = "erased", !.content = FALSE,
                                                !.delivery = 0]
                    ELSE cleared.src[s]]]
       /\ mem' = [n \in Memories |-> IF n \in Line(m) THEN "deleted" ELSE mem[n]]
       /\ members' = [members EXCEPT ![m] = {}]
       /\ revision' = [revision EXCEPT ![m] = 0]
       /\ heir' = [heir EXCEPT ![m] = FALSE]
       /\ asked' = [asked EXCEPT ![m] = "off"]
       /\ UNCHANGED <<settings, lineage, worker, history>>

-----------------------------------------------------------------------------
(* Memories come, are reconciled, and are finalized.                       *)

Used == {m \in Memories : mem[m] # "none"}
NextMemory == Cardinality(Used) + 1

\* Formation writes a draft for new evidence; evidence is numbered as it comes.
Form(s) ==
    /\ account /\ ~Owned(s) /\ db.src[s].state # "erased"
    /\ \A q \in Sources : q < s => Owned(q) \/ db.src[q].state = "erased"
    /\ NextMemory \in Memories
    /\ mem' = [mem EXCEPT ![NextMemory] = "draft"]
    /\ members' = [members EXCEPT ![NextMemory] = {s}]
    /\ UNCHANGED <<settings, lineage, revision, heir, asked, db, worker, history, changes>>

\* Every way to divide S.
Partitions(S) == {{{s \in S : f[s] = i} : i \in {f[s] : s \in S}} : f \in [S -> S]}

\* Mutant: a publication does not look at the send fences.
MayReconcileAlways == ~BriefsSettled
MayReconcile == ~BriefsSettled /\ db.fence = {}

\* One publication: the model divides the evidence of all active memories
\* anew.  An output with the evidence of a predecessor keeps its id, and a
\* finalized one keeps its brief; the others are new memories.
Reconcile ==
    LET old == {m \in Memories : mem[m] \in Active}
        retains(O) == \E m \in old : members[m] = O
    IN /\ MayReconcile
       /\ \A m \in old : mem[m] \notin {"claimed", "rewriting"}
       /\ \E outputs \in Partitions(UNION {members[m] : m \in old}) :
          LET fresh == {O \in outputs : ~retains(O)}
              id(O) == NextMemory + Cardinality({P \in fresh : Min(P) < Min(O)})
              kept == {m \in old : members[m] \in outputs}
              new == {id(O) : O \in fresh}
              of(m) == CHOOSE O \in fresh : id(O) = m
              parents(O) == {p \in old : members[p] \cap O # {}}
              inherits(O) == \E p \in parents(O) : mem[p] \in Finalized \/ heir[p]
          IN /\ Cardinality(Used) + Cardinality(fresh) <= MaxMemory
             /\ mem' = [m \in Memories |->
                   CASE m \in new -> "pending"
                     [] m \in kept /\ mem[m] = "draft" -> "pending"
                     [] m \in old \ kept -> "superseded"
                     [] OTHER -> mem[m]]
             /\ members' = [m \in Memories |-> IF m \in new THEN of(m)
                                               ELSE IF m \in kept THEN members[m] ELSE {}]
             /\ lineage' = [m \in Memories |-> IF m \in new
                                               THEN UNION {Line(p) : p \in parents(of(m))}
                                               ELSE lineage[m]]
             /\ heir' = [m \in Memories |-> IF m \in new THEN inherits(of(m))
                                            ELSE m \in kept /\ heir[m]]
             /\ revision' = [m \in Memories |-> IF m \in kept THEN revision[m] ELSE 0]
       /\ UNCHANGED <<settings, asked, db, worker, history, changes>>

\* The finalizer takes a memory, asks the model for a brief and reads the email
\* preference; its settlement is a later transaction.
FinalizeClaim(m) ==
    /\ account /\ mem[m] = "pending" /\ BriefsSettled
    /\ mem' = [mem EXCEPT ![m] = "claimed"]
    /\ asked' = [asked EXCEPT ![m] = pref.consent]
    /\ UNCHANGED <<settings, members, lineage, revision, heir, db, worker, history, changes>>

EnqueueBrief(t, m) ==
    [t EXCEPT !.src = [s \in Sources |->
        IF s \in members[m] /\ pref.consent # "off" /\ t.src[s].state = "none"
        THEN [t.src[s] EXCEPT !.state = "pending", !.content = asked[m] = "content"]
        ELSE t.src[s]]]

\* Only the first brief of evidence without a finalized ancestor is mailed; a
\* component that is no longer settled, or a new identity, puts the brief off.
FinalizeSettle(m) ==
    /\ mem[m] = "claimed"
    /\ asked' = [asked EXCEPT ![m] = "off"]
    /\ \/ /\ BriefsSettled
          /\ mem' = [mem EXCEPT ![m] = "complete"]
          /\ revision' = [revision EXCEPT ![m] = 1]
          /\ db' = IF asked[m] # "off" /\ ~heir[m] THEN EnqueueBrief(db, m) ELSE db
       \/ /\ mem' = [mem EXCEPT ![m] = "pending"]
          /\ UNCHANGED <<revision, db>>
    /\ UNCHANGED <<settings, members, lineage, heir, worker, history, changes>>

\* A new identity or a new finalizer version writes a brief again.
RewriteClaim(m) ==
    /\ mem[m] \in {"complete", "deferred"} /\ account /\ BriefsSettled /\ Change
    /\ mem' = [mem EXCEPT ![m] = "rewriting"]
    /\ UNCHANGED <<settings, members, lineage, revision, heir, asked, db, worker, history>>
RewriteSettle(m) ==
    /\ mem[m] = "rewriting"
    /\ \/ /\ BriefsSettled
          /\ mem' = [mem EXCEPT ![m] = "complete"]
          /\ revision' = [revision EXCEPT ![m] = @ + 1]
       \/ /\ mem' = [mem EXCEPT ![m] = "deferred"]
          /\ UNCHANGED revision
    /\ UNCHANGED <<settings, members, lineage, heir, asked, db, worker, history, changes>>

Deliver(w) == NextCandidate(w) \/ Claim(w) \/ Send(w) \/ Settle(w)
Owner ==
    \/ SavePreference \/ ChangeAddress \/ CloseAccount
    \/ \E m \in Memories : DeleteMemory(m)
Pipeline ==
    \/ \E s \in Sources : Form(s)
    \/ Reconcile
    \/ \E m \in Memories : \/ FinalizeClaim(m) \/ FinalizeSettle(m)
                            \/ RewriteClaim(m) \/ RewriteSettle(m)
Next ==
    \/ \E w \in Workers : Deliver(w) \/ CrashW(w)
    \/ Tick \/ Owner \/ Pipeline
Spec == Init /\ [][Next]_vars

-----------------------------------------------------------------------------
(* Properties.                                                             *)

Briefs == [id : Memories, members : SUBSET Sources, revision : 0..(MaxChange + 1)]
TokenOrNone == Token \cup {NoToken}

\* Every table and variable keeps its type; in particular no digest is sent
\* more often than the attempt cap of the worker allows.
TypeOK ==
    /\ account \in BOOLEAN
    /\ pref \in [consent : Consent, at : 0..MaxChange]
    /\ recipient \in 0..MaxChange
    /\ mem \in [Memories -> MemoryState]
    /\ members \in [Memories -> SUBSET Sources] /\ lineage \in [Memories -> SUBSET Memories]
    /\ revision \in [Memories -> 0..(MaxChange + 1)]
    /\ heir \in [Memories -> BOOLEAN] /\ asked \in [Memories -> Consent]
    /\ db.src \in [Sources -> [state : SourceState, content : BOOLEAN,
                               delivery : Days \cup {0}]]
    /\ \A d \in Days :
          LET row == db.dlv[d]
          IN /\ row.state \in DeliveryState /\ row.timer \in Timer
             /\ row.snapshot \subseteq Briefs /\ row.considered \subseteq Sources
             /\ row.consent \in 0..MaxChange /\ row.to \in 0..MaxChange
             /\ row.attempts \in 0..MAX_ATTEMPTS /\ row.content \in BOOLEAN
             /\ row.token \in TokenOrNone
    /\ db.fence \subseteq Token /\ db.lane \in TokenOrNone /\ db.cooling \in BOOLEAN
    /\ pc \in [Workers -> PC] /\ wtoken \in [Workers -> TokenOrNone]
    /\ wresult \in [Workers -> SendResult]
    /\ mailed \subseteq Days \X Sources /\ acted \in [Days -> Nat]
    /\ changes \in 0..MaxChange

\* While a request is in flight (its fence is open) the owner's settings still
\* say what the request was made for: the same saved preference, the same
\* address, and the full briefs only with consent to them.
ConsentInFlight ==
    \A d \in InState(db, {"processing"}) :
        /\ db.dlv[d].token \in db.fence
        /\ pref.consent # "off" /\ db.dlv[d].consent = pref.at
        /\ db.dlv[d].to = recipient
        /\ db.dlv[d].content => pref.consent = "content"

\* The briefs in flight are the current ones when they are claimed, and the
\* organization of memories does not move under them.
InFlightIsOrganized ==
    \A d \in InState(db, {"processing"}) : \A b \in db.dlv[d].snapshot :
        mem[b.id] \in Finalized /\ members[b.id] = b.members

\* What was mailed is recorded as such: evidence with a coverage row that some
\* digest may have mailed stays with that digest, in flight or with a receipt
\* that says so.  Hence it is mailed in one digest only, however its memories
\* are merged, split, written again or moved to another morning.
CoverageIsTrue ==
    \A d \in Days, s \in Sources :
        <<d, s>> \in mailed /\ db.src[s].state \notin {"none", "erased"}
            => /\ db.src[s].delivery = d
               /\ db.src[s].state \in {"pending", "delivered", "ambiguous"}

\* A receipt is true: evidence is called delivered only when its digest went
\* out with it, so no brief is missed because the tables claim it was sent.
ReceiptIsTrue ==
    \A s \in Sources : db.src[s].state = "delivered" => <<db.src[s].delivery, s>> \in mailed

\* No stored snapshot names a deleted memory or carries deleted evidence, not
\* even that of a digest which mailed the evidence under an earlier memory,
\* before it was merged, split and merged again.
DeletedStaysOut ==
    \A d \in Days : \A b \in db.dlv[d].snapshot :
        mem[b.id] # "deleted" /\ \A s \in b.members : db.src[s].state # "erased"

\* The digests of the account implement the outbox contract, one row per date:
\* a date is never opened again, and once the provider may have accepted its
\* digest nothing more is sent for it.  An empty digest waits for ever.
ContractStatus ==
    [d \in Days |-> LET st == db.dlv[d].state
                    IN CASE st = "none" -> "absent"
                         [] st \in Unsent \cup {"empty"} -> "queued"
                         [] st = "processing" -> "disclosing"
                         [] OTHER -> st]
Contract == INSTANCE OutboxContract WITH Rows <- Days, status <- ContractStatus
ImplementsContract == Contract!Spec

\* What the API document says of all evidence: an automatic digest never sends
\* it twice.
SentOnce == \A s \in Sources : Cardinality({d \in Days : <<d, s>> \in mailed}) <= 1
=============================================================================
