--------------------------- MODULE WebhookDelivery ---------------------------
(***************************************************************************)
(* The webhook outbox of the enclave: finalization enqueues one row per    *)
(* memory and enabled destination, workers on several replicas select,     *)
(* claim, send and settle rows, users revoke destinations and delete       *)
(* memories, and account deletion drains what is in flight.                *)
(*                                                                         *)
(* Every action is one PostgreSQL transaction, or one step of a worker     *)
(* between two transactions.  A transaction holds the account advisory     *)
(* locks it names, so it is atomic; what a worker remembers between two    *)
(* transactions (its candidate, its claim, the provider's answer) is its   *)
(* own state and is lost when its process crashes.                         *)
(*                                                                         *)
(* Time is abstract: "due", "aged", "lapsed" and "cooling" say whether     *)
(* next_attempt_at, created_at + 24h, claim_until and the lane's           *)
(* next_send_at/circuit_until have passed.                                 *)
(***************************************************************************)
EXTENDS Integers, FiniteSets

CONSTANTS
    Accounts, Episodes, Subs, Workers,
    EpAccount,       \* the account a memory belongs to
    SubAccount,      \* the account a destination belongs to
    Deletable,       \* the memories their owner may delete
    Revocable,       \* the destinations their owner may delete
    Closable,        \* the accounts whose owner may delete them
    MAX_ATTEMPTS,    \* MAX_ATTEMPTS of the worker, and claim_webhook's cap
    MaxRevision,     \* bound on identity_revision
    MaxClock,        \* bound on the starts of finalization settlements
    NoRow            \* a worker that holds no candidate

ASSUME AccountAssumption ==
    /\ Accounts # {}
    /\ EpAccount \in [Episodes -> Accounts]
    /\ SubAccount \in [Subs -> Accounts]
ASSUME BoundAssumption ==
    /\ MAX_ATTEMPTS \in Nat \ {0}
    /\ MaxRevision \in Nat \ {0}
    /\ MaxClock \in Nat
    /\ Deletable \subseteq Episodes
    /\ Revocable \subseteq Subs
    /\ Closable \subseteq Accounts
    /\ NoRow \notin Episodes \X Subs

\* A delivery row is keyed by memory and destination: finalization enqueues
\* only on the first finalization, so there is one delivery_version.
Rows == {r \in Episodes \X Subs : EpAccount[r[1]] = SubAccount[r[2]]}
Ep(r) == r[1]
Sub(r) == r[2]
Acct(r) == EpAccount[r[1]]

Waiting == {"pending", "retry_wait"}
Open == Waiting \cup {"processing"}
Settled == {"delivered", "failed", "cancelled", "ambiguous"}
\* "absent": not enqueued yet; "erased": cascaded away with its memory.
RowState == {"absent", "erased"} \cup Open \cup Settled

AccountStatus == {"active", "deletion_requested", "deleting"}
SubStatus == {"absent", "enabled", "disabled", "deleted"}
EpisodeStatus ==
    {"draft", "finalizing", "complete", "refinalizing", "deleting", "gone"}
PC == {"idle", "next", "claim", "claim_again", "send", "settle"}
\* What a send can end with.  A preflight failure counts as transient and an
\* invalid endpoint as rejected: in both no request reached the receiver.
SendResult == {"accepted", "transient", "rejected", "lost"}

VARIABLES
    account,         \* accounts.status
    sub,             \* webhook_subscriptions
    route,           \* how far the DELETE handler of a destination has come
    episode,         \* episodes.finalization_status and its final brief
    revision,        \* episodes.identity_revision
    finalized,       \* finalized_identity_revision, 0 before the first brief
    dest,            \* destinations snapshotted by a running finalization
    born,            \* created_at of a memory's rows: start of its transaction
    clock,           \* logical time: starts and commits of settlements
    enqueued,        \* history: when a memory's rows were committed
    state, attempt_count, claim_token, completed_claim_token,
    frozen,          \* revision the frozen body was rendered from, 0 if NULL
    due, aged, lapsed,
    fence,           \* webhook_send_fences.claim_id, 0 if there is none
    owner_token,     \* provider_send_lanes.owner_token, 0 if NULL
    cooling,         \* the lane's pace or circuit has not passed yet
    issued,          \* claim tokens drawn so far (fresh UUIDs)
    pc, wacct, wrow, wattempt, wrev, wtoken, wresult,
    acted            \* history: requests the receiver may have acted on

config == <<account, sub, route>>
memory == <<episode, revision, finalized, dest, born, clock, enqueued>>
claims == <<state, claim_token, completed_claim_token, lapsed, fence, owner_token>>
rest   == <<attempt_count, frozen, due, aged>>
worker == <<pc, wacct, wrow, wattempt, wrev, wtoken, wresult>>
vars == <<config, memory, claims, rest, cooling, issued, worker, acted>>

Init ==
    /\ account = [a \in Accounts |-> "active"]
    /\ sub = [s \in Subs |-> "absent"]
    /\ route = [s \in Subs |-> "idle"]
    /\ episode = [p \in Episodes |-> "draft"]
    /\ revision = [p \in Episodes |-> 1]
    /\ finalized = [p \in Episodes |-> 0]
    /\ dest = [p \in Episodes |-> {}]
    /\ born = [p \in Episodes |-> 0]
    /\ clock = 0
    /\ enqueued = [p \in Episodes |-> 0]
    /\ state = [r \in Rows |-> "absent"]
    /\ attempt_count = [r \in Rows |-> 0]
    /\ claim_token = [r \in Rows |-> 0]
    /\ completed_claim_token = [r \in Rows |-> 0]
    /\ frozen = [r \in Rows |-> 0]
    /\ due = [r \in Rows |-> FALSE]
    /\ aged = [r \in Rows |-> FALSE]
    /\ lapsed = [r \in Rows |-> FALSE]
    /\ fence = [r \in Rows |-> 0]
    /\ owner_token = 0
    /\ cooling = FALSE
    /\ issued = 0
    /\ pc = [w \in Workers |-> "idle"]
    /\ wacct = [w \in Workers |-> CHOOSE a \in Accounts : TRUE]
    /\ wrow = [w \in Workers |-> NoRow]
    /\ wattempt = [w \in Workers |-> 0]
    /\ wrev = [w \in Workers |-> 0]
    /\ wtoken = [w \in Workers |-> 0]
    /\ wresult = [w \in Workers |-> "lost"]
    /\ acted = [r \in Rows |-> 0]

-----------------------------------------------------------------------------
(* Recovery of expired claims, the first step of several transactions.     *)

\* Mutant: recovery looks only at claims without a fence.
ExpiredUndisclosed(a, r) ==
    Acct(r) = a /\ state[r] = "processing" /\ lapsed[r] /\ fence[r] # claim_token[r]
Expired(a, r) == Acct(r) = a /\ state[r] = "processing" /\ lapsed[r]

\* Mutant: recovery does not look for the fence.
DisclosedNever(r) == FALSE
\* The fence row of exactly this claim exists: the request may have left.
Disclosed(r) == fence[r] = claim_token[r]

RecoveredState(a) ==
    [r \in Rows |-> IF ~Expired(a, r) THEN state[r]
                    ELSE IF Disclosed(r) THEN "ambiguous" ELSE "retry_wait"]
\* Mutant: recovery leaves the fence of the claim it gives up.
RecoveredFenceKept(a) == [r \in Rows |-> fence[r]]
RecoveredFence(a) ==
    [r \in Rows |-> IF Expired(a, r) /\ Disclosed(r) THEN 0 ELSE fence[r]]
\* Mutant: recovery forgets the lane.
RecoveredOwnerKept(a) == owner_token
RecoveredOwner(a) ==
    IF \E r \in Rows : Expired(a, r) /\ claim_token[r] = owner_token
    THEN 0 ELSE owner_token

\* What recovery does to every column but the state, which the transactions
\* that start with it go on to change.
recover_expired_webhook_claims(a) ==
    /\ claim_token' = [r \in Rows |-> IF Expired(a, r) THEN 0 ELSE claim_token[r]]
    /\ completed_claim_token' =
         [r \in Rows |-> IF Expired(a, r) THEN claim_token[r]
                         ELSE completed_claim_token[r]]
    /\ lapsed' = [r \in Rows |-> lapsed[r] /\ ~Expired(a, r)]
    /\ fence' = RecoveredFence(a)
    /\ owner_token' = RecoveredOwner(a)

-----------------------------------------------------------------------------
(* The worker: deliver_postgres_user_webhooks.                             *)

ResetWorker(w) ==
    /\ pc' = [pc EXCEPT ![w] = "idle"]
    /\ wrow' = [wrow EXCEPT ![w] = NoRow]
    /\ wattempt' = [wattempt EXCEPT ![w] = 0]
    /\ wrev' = [wrev EXCEPT ![w] = 0]
    /\ wtoken' = [wtoken EXCEPT ![w] = 0]
    /\ wresult' = [wresult EXCEPT ![w] = "lost"]
    /\ UNCHANGED wacct

\* A sweep reads the active accounts and turns to one of them; by the time it
\* runs the next transaction the account may no longer be active.
sweep(w, a) ==
    /\ pc[w] = "idle"
    /\ account[a] = "active"
    /\ pc' = [pc EXCEPT ![w] = "next"]
    /\ wacct' = [wacct EXCEPT ![w] = a]
    /\ UNCHANGED <<config, memory, claims, rest, cooling, issued, wrow,
                   wattempt, wrev, wtoken, wresult, acted>>

Authorized(r) == account[Acct(r)] = "active" /\ sub[Sub(r)] = "enabled"

\* Mutant: housekeeping withdraws claimed rows as well.
SweptStateOpen(a) ==
    [r \in Rows |->
        IF Acct(r) = a /\ RecoveredState(a)[r] \in Open /\ (aged[r] \/ ~Authorized(r))
        THEN "cancelled" ELSE RecoveredState(a)[r]]
\* The waiting rows of the account after the three housekeeping updates:
\* expired by age, no longer authorized, and without a complete final brief.
SweptState(a) ==
    LET rec == RecoveredState(a) IN
    [r \in Rows |->
        IF Acct(r) # a \/ rec[r] \notin Waiting THEN rec[r]
        ELSE IF aged[r] \/ ~Authorized(r) THEN "cancelled"
        ELSE IF episode[Ep(r)] # "complete" THEN "failed"
        ELSE rec[r]]

Earlier(q, r) == Sub(q) = Sub(r) /\ born[Ep(q)] < born[Ep(r)]

\* Mutant: an earlier row does not block a later one.
CandidatesUnordered(a, st) ==
    {r \in Rows : Acct(r) = a /\ st[r] \in Waiting /\ due[r]}
\* Due waiting rows with nothing open before them on their destination.
Candidates(a, st) ==
    {r \in Rows : /\ Acct(r) = a
                  /\ st[r] \in Waiting
                  /\ due[r]
                  /\ ~\E q \in Rows : st[q] \in Open /\ Earlier(q, r)}

\* ORDER BY created_at, subscription_id: the oldest candidate, whichever
\* destination it goes to.
Selected(a, st) ==
    {r \in Candidates(a, st) :
        \A q \in Candidates(a, st) : born[Ep(r)] <= born[Ep(q)]}

next_webhook_candidate(w) ==
    LET a == wacct[w]
        st == SweptState(a) IN
    /\ pc[w] = "next"
    /\ recover_expired_webhook_claims(a)
    /\ state' = st
    /\ \/ /\ Selected(a, st) = {}
          /\ ResetWorker(w)
       \/ \E r \in Selected(a, st) :
             /\ pc' = [pc EXCEPT ![w] = "claim"]
             /\ wrow' = [wrow EXCEPT ![w] = r]
             /\ wattempt' = [wattempt EXCEPT ![w] = attempt_count[r]]
             /\ wrev' = [wrev EXCEPT ![w] = revision[Ep(r)]]
             /\ UNCHANGED <<wacct, wtoken, wresult>>
    /\ UNCHANGED <<config, memory, rest, cooling, issued, acted>>

\* The conditions under which claim_webhook takes the row: the lane is free
\* once this account's expired claims are recovered, the row still waits and
\* is due, and nothing the candidate was rendered from has changed.
\* Mutant of LaneAvailable: only the pace is looked at.
LaneAvailableWhenPaced(a) == ~cooling
LaneAvailable(a) == RecoveredOwner(a) = 0 /\ ~cooling
Claimable(w) ==
    LET r == wrow[w] IN
    /\ LaneAvailable(Acct(r))
    /\ RecoveredState(Acct(r))[r] \in Waiting
    /\ due[r]
    /\ Authorized(r)
    /\ attempt_count[r] = wattempt[w]
    /\ revision[Ep(r)] = wrev[w]

\* A candidate at the attempt cap is an error that ends the sweep before any
\* transaction; AttemptCap shows that no candidate ever is.
claim_webhook(w) ==
    LET r == wrow[w]
        a == Acct(r)
        token == issued + 1 IN
    /\ pc[w] \in {"claim", "claim_again"}
    /\ wattempt[w] < MAX_ATTEMPTS
    /\ Claimable(w)
    /\ issued' = token
    /\ state' = [RecoveredState(a) EXCEPT ![r] = "processing"]
    /\ attempt_count' = [attempt_count EXCEPT ![r] = wattempt[w] + 1]
    /\ claim_token' = [q \in Rows |-> IF q = r THEN token
                         ELSE IF Expired(a, q) THEN 0 ELSE claim_token[q]]
    /\ completed_claim_token' = [q \in Rows |-> IF q = r THEN 0
                         ELSE IF Expired(a, q) THEN claim_token[q]
                         ELSE completed_claim_token[q]]
    /\ lapsed' = [q \in Rows |-> IF q = r THEN FALSE
                                 ELSE lapsed[q] /\ ~Expired(a, q)]
    /\ frozen' = [frozen EXCEPT ![r] = wrev[w]]
    /\ fence' = [RecoveredFence(a) EXCEPT ![r] = token]
    /\ owner_token' = token
    /\ pc' = [pc EXCEPT ![w] = "send"]
    /\ wtoken' = [wtoken EXCEPT ![w] = token]
    /\ UNCHANGED <<config, memory, due, aged, cooling, wacct, wrow,
                   wattempt, wrev, wresult, acted>>

\* The claim is refused: the transaction rolls back.  After the first refusal
\* the worker sleeps out the lane's pace and tries the same candidate once
\* more; after the second it leaves the account.
claim_refused(w) ==
    /\ pc[w] \in {"claim", "claim_again"}
    /\ wattempt[w] < MAX_ATTEMPTS
    /\ ~Claimable(w)
    /\ \/ /\ pc[w] = "claim"
          /\ pc' = [pc EXCEPT ![w] = "claim_again"]
          /\ UNCHANGED <<wacct, wrow, wattempt, wrev, wtoken, wresult>>
       \/ /\ pc[w] = "claim_again"
          /\ ResetWorker(w)
    /\ UNCHANGED <<config, memory, claims, rest, cooling, issued, acted>>

\* The provider call.  The receiver may act on the request unless it answers
\* with a rejection.
send(w, result) ==
    /\ pc[w] = "send"
    /\ wresult' = [wresult EXCEPT ![w] = result]
    /\ pc' = [pc EXCEPT ![w] = "settle"]
    /\ acted' = IF result \in {"accepted", "lost"}
                THEN [acted EXCEPT ![wrow[w]] = @ + 1] ELSE acted
    /\ UNCHANGED <<config, memory, claims, rest, cooling, issued, wacct,
                   wrow, wattempt, wrev, wtoken>>

\* Mutants: an unmapped outcome, a retry of a lost request.
classify_unmapped(result, attempt) ==
    IF result = "accepted" THEN "delivered" ELSE result
classify_lost_retries(result, attempt) ==
    CASE result = "accepted" -> "delivered"
      [] result = "rejected" -> "failed"
      [] result \in {"lost", "transient"} ->
            IF attempt >= MAX_ATTEMPTS THEN "failed" ELSE "retry_wait"

classify_webhook_transport_result(result, attempt) ==
    CASE result = "accepted"  -> "delivered"
      [] result = "lost"      -> "ambiguous"
      [] result = "rejected"  -> "failed"
      [] result = "transient" ->
            IF attempt >= MAX_ATTEMPTS THEN "failed" ELSE "retry_wait"

\* Mutant: a settlement does not ask whose claim the row is under.
AuthoritativeAlways(w) == TRUE
\* This worker's claim is still the row's claim, and its fence stands.
Authoritative(w) ==
    LET r == wrow[w] IN
    /\ state[r] = "processing"
    /\ claim_token[r] = wtoken[w]
    /\ fence[r] = wtoken[w]

settle_webhook(w) ==
    LET r == wrow[w]
        outcome == classify_webhook_transport_result(wresult[w], wattempt[w] + 1) IN
    /\ pc[w] = "settle"
    /\ Authoritative(w)
    /\ state' = [state EXCEPT ![r] = outcome]
    /\ completed_claim_token' = [completed_claim_token EXCEPT ![r] = wtoken[w]]
    /\ claim_token' = [claim_token EXCEPT ![r] = 0]
    /\ lapsed' = [lapsed EXCEPT ![r] = FALSE]
    /\ due' = [due EXCEPT ![r] = outcome # "retry_wait"]
    /\ fence' = [fence EXCEPT ![r] = 0]
    /\ owner_token' = IF owner_token = wtoken[w] THEN 0 ELSE owner_token
    /\ cooling' = IF owner_token = wtoken[w] THEN TRUE ELSE cooling
    /\ ResetWorker(w)
    /\ UNCHANGED <<config, memory, attempt_count, frozen, aged, issued, acted>>

\* The row is gone, was settled for this claim already, or belongs to another
\* claim: nothing is written, and the sweep of this account ends or goes on.
settle_refused(w) ==
    /\ pc[w] = "settle"
    /\ ~Authoritative(w)
    /\ ResetWorker(w)
    /\ UNCHANGED <<config, memory, claims, rest, cooling, issued, acted>>

\* A replica dies.  If it was sending, the request may or may not have left.
crash(w) ==
    /\ pc[w] # "idle"
    /\ ResetWorker(w)
    /\ \/ acted' = acted
       \/ /\ pc[w] = "send"
          /\ acted' = [acted EXCEPT ![wrow[w]] = @ + 1]
    /\ UNCHANGED <<config, memory, claims, rest, cooling, issued>>

-----------------------------------------------------------------------------
(* Time.                                                                   *)

retry_comes_due(r) ==
    /\ state[r] \in Waiting /\ ~due[r]
    /\ due' = [due EXCEPT ![r] = TRUE]
    /\ UNCHANGED <<config, memory, claims, attempt_count, frozen, aged,
                   cooling, issued, worker, acted>>

delivery_expires(r) ==
    /\ state[r] \in Open /\ ~aged[r]
    /\ aged' = [aged EXCEPT ![r] = TRUE]
    /\ UNCHANGED <<config, memory, claims, attempt_count, frozen, due,
                   cooling, issued, worker, acted>>

\* claim_until passes.  Every wait inside a send is bounded well below the
\* lease, but a worker stalled by its platform outlasts it.
lease_lapses(r) ==
    /\ state[r] = "processing" /\ ~lapsed[r]
    /\ lapsed' = [lapsed EXCEPT ![r] = TRUE]
    /\ UNCHANGED <<config, memory, state, claim_token, completed_claim_token,
                   fence, owner_token, rest, cooling, issued, worker, acted>>

lane_cools_down ==
    /\ cooling
    /\ cooling' = FALSE
    /\ UNCHANGED <<config, memory, claims, rest, issued, worker, acted>>

-----------------------------------------------------------------------------
(* Destinations: the registry and the DELETE handler's three transactions. *)

\* Mutant: revocation does not look at fences.
FencesOfNone(s) == {}
FencesOf(s) == {r \in Rows : Sub(r) = s /\ fence[r] # 0}

Registered(a) == {s \in Subs : SubAccount[s] = a /\ sub[s] \in {"enabled", "disabled"}}

create_webhook_subscription(s) ==
    /\ sub[s] = "absent"
    /\ account[SubAccount[s]] = "active"
    /\ Cardinality(Registered(SubAccount[s])) < 5
    /\ sub' = [sub EXCEPT ![s] = "enabled"]
    /\ UNCHANGED <<account, route, memory, claims, rest, cooling, issued,
                   worker, acted>>

disable_webhook_subscription(s) ==
    /\ s \in Revocable
    /\ route[s] = "idle"
    /\ sub[s] \in {"enabled", "disabled"}
    /\ FencesOf(s) = {}
    /\ sub' = [sub EXCEPT ![s] = "disabled"]
    /\ route' = [route EXCEPT ![s] = "disabled"]
    /\ UNCHANGED <<account, memory, claims, rest, cooling, issued, worker, acted>>

cancel_webhook_deliveries(s) ==
    LET a == SubAccount[s]
        rec == RecoveredState(a) IN
    /\ route[s] = "disabled"
    /\ \A r \in Rows : Sub(r) = s =>
          rec[r] # "processing" /\ RecoveredFence(a)[r] = 0
    /\ recover_expired_webhook_claims(a)
    /\ state' = [r \in Rows |-> IF Sub(r) = s /\ rec[r] \in Waiting
                                THEN "cancelled" ELSE rec[r]]
    /\ route' = [route EXCEPT ![s] = "cancelled"]
    /\ UNCHANGED <<account, sub, memory, rest, cooling, issued, worker, acted>>

delete_webhook_subscription(s) ==
    /\ route[s] = "cancelled"
    /\ FencesOf(s) = {}
    /\ sub' = [sub EXCEPT ![s] = "deleted"]
    /\ route' = [route EXCEPT ![s] = "idle"]
    /\ UNCHANGED <<account, memory, claims, rest, cooling, issued, worker, acted>>

-----------------------------------------------------------------------------
(* Memories: finalization, identity refresh and deletion.                  *)

\* The finalizer lists the enabled destinations, then opens the settlement
\* transaction, whose start time becomes created_at of the rows it inserts.
\* A later attempt on the same memory replaces an abandoned one.
finalization_snapshot(p) ==
    /\ episode[p] \in {"draft", "finalizing"}
    /\ account[EpAccount[p]] = "active"
    /\ clock < MaxClock
    /\ episode' = [episode EXCEPT ![p] = "finalizing"]
    /\ dest' = [dest EXCEPT ![p] =
                   {s \in Subs : SubAccount[s] = EpAccount[p] /\ sub[s] = "enabled"}]
    /\ clock' = clock + 1
    /\ born' = [born EXCEPT ![p] = clock + 1]
    /\ UNCHANGED <<config, revision, finalized, enqueued, claims, rest, cooling, issued,
                   worker, acted>>

settle_finalization(p) ==
    LET fresh == {r \in Rows : Ep(r) = p /\ Sub(r) \in dest[p]} IN
    /\ episode[p] = "finalizing"
    /\ episode' = [episode EXCEPT ![p] = "complete"]
    /\ dest' = [dest EXCEPT ![p] = {}]
    /\ finalized' = [finalized EXCEPT ![p] = revision[p]]
    /\ enqueued' = [enqueued EXCEPT ![p] = clock + 1]
    /\ clock' = clock + 1
    /\ state' = [r \in Rows |-> IF r \in fresh THEN "pending" ELSE state[r]]
    /\ due' = [r \in Rows |-> r \in fresh \/ due[r]]
    /\ UNCHANGED <<config, revision, born, claim_token,
                   completed_claim_token, lapsed, fence, owner_token,
                   attempt_count, frozen, aged, cooling, issued, worker, acted>>

\* A participant's meaning changes: the revision moves on.  A finalization
\* already running will find another revision than the one it claimed and
\* only queue the memory again, so its snapshot of destinations is dead.
refresh_semantic_revision(p) ==
    /\ episode[p] # "gone"
    /\ revision[p] < MaxRevision
    /\ revision' = [revision EXCEPT ![p] = @ + 1]
    /\ episode' = [episode EXCEPT ![p] = IF @ = "finalizing" THEN "draft" ELSE @]
    /\ dest' = [dest EXCEPT ![p] = {}]
    /\ UNCHANGED <<config, finalized, born, clock, enqueued, claims, rest,
                   cooling, issued, worker, acted>>

\* A finalized memory is claimed again for a newer identity; its brief stays
\* where it is while the status is not 'complete'.
claim_refinalization(p) ==
    /\ episode[p] = "complete"
    /\ finalized[p] < revision[p]
    /\ account[EpAccount[p]] = "active"
    /\ episode' = [episode EXCEPT ![p] = "refinalizing"]
    /\ UNCHANGED <<config, revision, finalized, dest, born, clock, enqueued, claims, rest,
                   cooling, issued, worker, acted>>

settle_refinalization(p) ==
    /\ episode[p] = "refinalizing"
    /\ episode' = [episode EXCEPT ![p] = "complete"]
    /\ finalized' = [finalized EXCEPT ![p] = revision[p]]
    /\ UNCHANGED <<config, revision, dest, born, clock, enqueued, claims, rest,
                   cooling, issued, worker, acted>>

\* Marks the memory; it looks at reconciliation, summary, finalization and
\* media claims, never at the outboxes.
begin_episode_deletion(p) ==
    /\ p \in Deletable
    /\ episode[p] \notin {"deleting", "gone"}
    /\ episode' = [episode EXCEPT ![p] = "deleting"]
    /\ dest' = [dest EXCEPT ![p] = {}]
    /\ UNCHANGED <<config, revision, finalized, born, clock, enqueued, claims, rest, cooling,
                   issued, worker, acted>>

\* The memory row is deleted and its delivery rows cascade; send fences and
\* the lane have no foreign key and stay.
complete_episode_deletion(p) ==
    /\ episode[p] = "deleting"
    /\ episode' = [episode EXCEPT ![p] = "gone"]
    /\ state' = [r \in Rows |-> IF Ep(r) = p THEN "erased" ELSE state[r]]
    /\ claim_token' = [r \in Rows |-> IF Ep(r) = p THEN 0 ELSE claim_token[r]]
    /\ completed_claim_token' =
         [r \in Rows |-> IF Ep(r) = p THEN 0 ELSE completed_claim_token[r]]
    /\ lapsed' = [r \in Rows |-> lapsed[r] /\ Ep(r) # p]
    /\ attempt_count' = [r \in Rows |-> IF Ep(r) = p THEN 0 ELSE attempt_count[r]]
    /\ frozen' = [r \in Rows |-> IF Ep(r) = p THEN 0 ELSE frozen[r]]
    /\ due' = [r \in Rows |-> due[r] /\ Ep(r) # p]
    /\ aged' = [r \in Rows |-> aged[r] /\ Ep(r) # p]
    /\ UNCHANGED <<config, revision, finalized, dest, born, clock, enqueued, fence, owner_token,
                   cooling, issued, worker, acted>>

-----------------------------------------------------------------------------
(* Account deletion, as far as the outbox takes part in it.                *)

request_account_deletion(a) ==
    /\ a \in Closable
    /\ account[a] = "active"
    /\ account' = [account EXCEPT ![a] = "deletion_requested"]
    /\ UNCHANGED <<sub, route, memory, claims, rest, cooling, issued, worker,
                   acted>>

account_deletion_preflight_complete(a) ==
    /\ account[a] \in {"deletion_requested", "deleting"}
    /\ \E r \in Rows : Expired(a, r)
    /\ recover_expired_webhook_claims(a)
    /\ state' = RecoveredState(a)
    /\ UNCHANGED <<config, memory, rest, cooling, issued, worker, acted>>

begin_account_deletion(a) ==
    /\ account[a] = "deletion_requested"
    /\ \A r \in Rows : Acct(r) = a => fence[r] = 0
    /\ account' = [account EXCEPT ![a] = "deleting"]
    /\ sub' = [s \in Subs |-> IF SubAccount[s] = a /\ sub[s] = "enabled"
                              THEN "disabled" ELSE sub[s]]
    /\ UNCHANGED <<route, memory, claims, rest, cooling, issued, worker, acted>>

-----------------------------------------------------------------------------
WorkerStep(w) ==
    \/ \E a \in Accounts : sweep(w, a)
    \/ next_webhook_candidate(w)
    \/ claim_webhook(w) \/ claim_refused(w)
    \/ \E result \in SendResult : send(w, result)
    \/ settle_webhook(w) \/ settle_refused(w)
    \/ crash(w)

RowTime(r) == retry_comes_due(r) \/ delivery_expires(r) \/ lease_lapses(r)

SubStep(s) ==
    \/ create_webhook_subscription(s)
    \/ disable_webhook_subscription(s)
    \/ cancel_webhook_deliveries(s)
    \/ delete_webhook_subscription(s)

MemoryStep(p) ==
    \/ finalization_snapshot(p) \/ settle_finalization(p)
    \/ refresh_semantic_revision(p)
    \/ claim_refinalization(p) \/ settle_refinalization(p)
    \/ begin_episode_deletion(p) \/ complete_episode_deletion(p)

AccountStep(a) ==
    \/ request_account_deletion(a)
    \/ account_deletion_preflight_complete(a)
    \/ begin_account_deletion(a)

Next ==
    \/ \E w \in Workers : WorkerStep(w)
    \/ \E r \in Rows : RowTime(r)
    \/ lane_cools_down
    \/ \E s \in Subs : SubStep(s)
    \/ \E p \in Episodes : MemoryStep(p)
    \/ \E a \in Accounts : AccountStep(a)

Spec == Init /\ [][Next]_vars

\* Every replica keeps sweeping every active account, and a step a worker
\* keeps reaching is not crashed away for ever; clocks advance; the deletion
\* reconciler keeps retrying its preflight and its begin.
Fairness ==
    /\ \A w \in Workers :
         /\ \A a \in Accounts : SF_vars(sweep(w, a))
         /\ SF_vars(next_webhook_candidate(w))
         /\ SF_vars(claim_webhook(w)) /\ SF_vars(claim_refused(w))
         /\ SF_vars(\E result \in SendResult : send(w, result))
         /\ SF_vars(settle_webhook(w)) /\ SF_vars(settle_refused(w))
    /\ \A r \in Rows :
         /\ WF_vars(retry_comes_due(r))
         /\ WF_vars(delivery_expires(r))
         /\ WF_vars(lease_lapses(r))
    /\ WF_vars(lane_cools_down)
    /\ \A a \in Accounts :
         /\ WF_vars(account_deletion_preflight_complete(a))
         /\ WF_vars(begin_account_deletion(a))

FairSpec == Spec /\ Fairness

-----------------------------------------------------------------------------
(* Properties.                                                             *)

ConfigType ==
    /\ account \in [Accounts -> AccountStatus]
    /\ sub \in [Subs -> SubStatus]
    /\ route \in [Subs -> {"idle", "disabled", "cancelled"}]
MemoryType ==
    /\ episode \in [Episodes -> EpisodeStatus]
    /\ revision \in [Episodes -> 1..MaxRevision]
    /\ finalized \in [Episodes -> 0..MaxRevision]
    /\ dest \in [Episodes -> SUBSET Subs]
    /\ born \in [Episodes -> Nat] /\ clock \in Nat
    /\ enqueued \in [Episodes -> Nat]
ClaimsType ==
    /\ state \in [Rows -> RowState]
    /\ claim_token \in [Rows -> Nat]
    /\ completed_claim_token \in [Rows -> Nat]
    /\ lapsed \in [Rows -> BOOLEAN]
    /\ fence \in [Rows -> Nat]
    /\ owner_token \in Nat /\ issued \in Nat
RestType ==
    /\ attempt_count \in [Rows -> 0..MAX_ATTEMPTS]
    /\ frozen \in [Rows -> 0..MaxRevision]
    /\ due \in [Rows -> BOOLEAN]
    /\ aged \in [Rows -> BOOLEAN]
    /\ cooling \in BOOLEAN
WorkerType ==
    /\ pc \in [Workers -> PC]
    /\ wacct \in [Workers -> Accounts]
    /\ wrow \in [Workers -> Rows \cup {NoRow}]
    /\ wattempt \in [Workers -> 0..MAX_ATTEMPTS]
    /\ wrev \in [Workers -> 0..MaxRevision]
    /\ wtoken \in [Workers -> Nat]
    /\ wresult \in [Workers -> SendResult]
ActedType == acted \in [Rows -> Nat]
\* Every variable keeps its type; attempts stay within the cap of the worker.
TypeOK ==
    ConfigType /\ MemoryType /\ ClaimsType /\ RestType /\ WorkerType /\ ActedType

\* A receiver is never asked twice for an event it may have acted on: across
\* retries, crashed workers, expired leases and late answers, at most one
\* request per delivery is accepted or lost.
AtMostOnce == \A r \in Rows : acted[r] <= 1

\* A recorded outcome is the truth.  'delivered' means the receiver accepted;
\* a delivery that waits for another attempt, failed or was cancelled never
\* reached a receiver that may have acted on it.
HonestOutcome ==
    \A r \in Rows :
        /\ state[r] = "delivered" => acted[r] = 1
        /\ state[r] \in Waiting \cup {"failed", "cancelled"} => acted[r] = 0

\* The webhook lane serializes disclosure across the fleet: one delivery is in
\* processing at a time, and the lane and the fence both name its claim.
LaneSerializes ==
    \A r \in Rows : state[r] = "processing" =>
        /\ claim_token[r] # 0
        /\ owner_token = claim_token[r]
        /\ fence[r] = claim_token[r]
        /\ \A q \in Rows : state[q] = "processing" => q = r

\* Revocation waits for disclosure: while a destination is disabled or
\* deleted, or its account is being erased, no fence stands for it.
RevocationDrains ==
    \A r \in Rows :
        (sub[Sub(r)] \in {"disabled", "deleted"} \/ account[Acct(r)] = "deleting")
            => fence[r] = 0 /\ state[r] # "processing"

\* A row that waits can always be claimed again: the worker gives up at the
\* cap before claim_webhook would refuse the row for ever.
AttemptCap ==
    \A r \in Rows : state[r] \in Waiting => attempt_count[r] < MAX_ATTEMPTS

\* No later transaction rewrites a settled outcome: a late worker, a retry of
\* the settlement or recovery leave it alone; only its memory's erasure
\* removes the row.
SettledIsFinal ==
    [][\A r \in Rows : state[r] \in Settled => state'[r] \in {state[r], "erased"}]_vars

\* A claim never overtakes an open delivery of the same destination that is
\* older and was already in the outbox when the claimed one came in.
NoOvertaking ==
    [][\A q, r \in Rows :
        /\ state[r] \in Waiting /\ state'[r] = "processing"
        /\ Earlier(q, r) /\ enqueued[Ep(q)] < enqueued[Ep(r)]
        => state[q] \notin Open]_vars

\* The implementation of the outbox contract: a waiting row is queued and a
\* row in processing is being disclosed.
ContractStatus ==
    [r \in Rows |-> IF state[r] \in Waiting THEN "queued"
                    ELSE IF state[r] = "processing" THEN "disclosing"
                    ELSE state[r]]
Contract == INSTANCE OutboxContract WITH status <- ContractStatus
ImplementsContract == Contract!Spec

\* A claim that outlived its row: erasing a memory cascades to a delivery in
\* flight, and its fence and its hold on the lane, which no foreign key ties
\* to it, stay.  Recovery starts from delivery rows and never finds it again.
Orphaned == \E r \in Rows : state[r] = "erased" /\ fence[r] # 0

\* An account whose deletion was requested gets past its webhooks: whatever is
\* in flight settles or is recovered, and the reconciler finds no fence left,
\* unless a memory was erased under its claim.
AccountDrains ==
    \A a \in Accounts :
        account[a] = "deletion_requested" ~> (account[a] = "deleting" \/ Orphaned)

\* The lane is never kept for ever: every claim on it ends in a settlement or
\* in the recovery of its lease.  The one exception is an orphaned claim.
LaneReleased == owner_token # 0 ~> (owner_token = 0 \/ Orphaned)

\* Every delivery of an account that stays active is settled, expires or is
\* erased with its memory.
RowSettles ==
    \A r \in Rows :
        state[r] \in Open ~> (state[r] \notin Open \/ account[Acct(r)] # "active")

-----------------------------------------------------------------------------
(* The inductive invariant behind the safety properties.                   *)

\* A row in processing is exactly a row with a claim.
ClaimShape ==
    \A r \in Rows :
        /\ state[r] = "processing" <=> claim_token[r] # 0
        /\ state[r] = "processing" => fence[r] = claim_token[r]

\* The only fence that stands is the one of the lane's owner, and its row is
\* in processing or was erased under it.
FenceShape ==
    /\ owner_token <= issued
    /\ \A r \in Rows : fence[r] # 0 =>
          fence[r] = owner_token /\ state[r] \in {"processing", "erased"}
    /\ \A q, r \in Rows : fence[q] # 0 /\ fence[r] # 0 => q = r

\* A worker past its claim holds a row no other worker holds, and the row can
\* only be in processing under that very claim, given up, or erased.
HolderShape ==
    /\ \A w \in Workers : pc[w] \in {"claim", "claim_again", "send", "settle"}
          => wrow[w] \in Rows
    /\ \A w \in Workers : pc[w] \in {"send", "settle"} =>
          /\ wattempt[w] < MAX_ATTEMPTS
          /\ state[wrow[w]] \in {"processing", "ambiguous", "erased"}
          /\ state[wrow[w]] = "processing" =>
                /\ claim_token[wrow[w]] = wtoken[w]
                /\ attempt_count[wrow[w]] = wattempt[w] + 1
    /\ \A v, w \in Workers :
          /\ pc[v] \in {"send", "settle"} /\ pc[w] \in {"send", "settle"}
          /\ wrow[v] = wrow[w]
          => v = w

\* What a holder knows of its request: before the send the receiver has seen
\* nothing, after it the answer tells whether it may have acted.
ActedShape ==
    /\ \A r \in Rows : state[r] = "absent" => acted[r] = 0
    /\ \A w \in Workers : pc[w] = "send" => acted[wrow[w]] = 0
    /\ \A w \in Workers : pc[w] = "settle" =>
          acted[wrow[w]] = IF wresult[w] \in {"accepted", "lost"} THEN 1 ELSE 0

\* Rows come into being with the first settlement of their memory.
EnqueueShape ==
    \A r \in Rows :
        /\ episode[Ep(r)] \in {"draft", "finalizing"} => state[r] = "absent"
        /\ state[r] = "absent" => attempt_count[r] = 0

\* The inductive invariant of the outbox.
OutboxInv ==
    /\ TypeOK
    /\ ClaimShape /\ FenceShape /\ HolderShape /\ ActedShape /\ EnqueueShape
    /\ AtMostOnce /\ HonestOutcome /\ RevocationDrains /\ AttemptCap

\* What a selected candidate knows: no delivery of its destination that was
\* in the outbox before it is older and still open.
OrderShape ==
    /\ \A p \in Episodes :
          /\ enqueued[p] <= clock
          /\ episode[p] \in {"draft", "finalizing"} => enqueued[p] = 0
    /\ \A r \in Rows : state[r] \in Open => enqueued[Ep(r)] # 0
    /\ \A w \in Workers : pc[w] \in {"claim", "claim_again"} =>
          /\ enqueued[Ep(wrow[w])] # 0
          /\ \A q \in Rows :
                /\ Earlier(q, wrow[w])
                /\ enqueued[Ep(q)] # 0
                /\ enqueued[Ep(q)] < enqueued[Ep(wrow[w])]
                => state[q] \notin Open
=============================================================================
