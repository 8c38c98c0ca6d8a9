--------------------------- MODULE AccountDeletion ---------------------------
(***************************************************************************)
(* The end of one account.  DELETE /api/account and the reconciler of every *)
(* replica drive the same durable operation: close admission, wait for     *)
(* what was admitted, settle and fence billing, begin, revoke Apple        *)
(* credentials, purge media, finalize.  Each call on the way is its own    *)
(* transaction or provider call; any number of drivers may be at any of    *)
(* them, and each may crash.                                               *)
(*                                                                         *)
(* Around them: provider sends with their fences, model invocations, the   *)
(* requests that upload one capture event, and sign-ins.                   *)
(***************************************************************************)
CONSTANTS
    Handlers,     \* requests of DELETE /api/account
    Reconcilers,  \* the reconcilers of the replicas
    Channels,     \* provider sends: email, webhook, push
    Calls,        \* model invocations
    Clients,      \* Apple client ids
    Requests,     \* HTTP requests that upload the same capture event
    Rejoinable,   \* may the user sign in while the account is deleted?
    SoftDelete    \* does the bucket keep deleted generations for a while?

ASSUME FlagAssumption == Rejoinable \in BOOLEAN /\ SoftDelete \in BOOLEAN
ASSUME DriverAssumption == Handlers \cap Reconcilers = {}

Drivers == Handlers \cup Reconcilers

AccountStatus == {"active", "deletion_requested", "deleting", "none"}
OpStatus == {"none", "pending", "physical_complete"}
Reason == {"none", "billing_fence_in_progress", "content_deletion_in_progress",
           "content_deletion_attempt_unconfirmed", "soft_delete_retention",
           "content_store_unavailable", "identity_cleanup_in_progress",
           "content_deleted"}
PC == {"idle", "request", "preflight", "settle", "begin", "update", "revoke",
       "purge", "finalize", "persist"}

VARIABLES
    account,          \* accounts.status, "none" without a row
    tombstoned,       \* deleted_accounts and deleted_identities
    op_status, op_reason,
    send,             \* provider fences
    vertex,           \* model invocations in the usage ledger
    apple,            \* apple_credentials
    tokens,           \* Apple's side: clients whose token it still honours
    billing_fenced,   \* the billing service's side
    intent, holders,  \* the upload intent and the requests that know its token
    committed,        \* the capture event is committed
    live, soft,       \* its media object in the bucket, and a deleted version
    qpc,              \* upload requests
    signing,          \* a sign-in has checked the tombstones
    rejoined,         \* history: a sign-in recreated the account
    pc, reason        \* drivers; reason is what a driver holds or will write

operation == <<op_status, op_reason>>
work   == <<send, vertex>>
grants == <<apple, tokens>>
upload == <<intent, holders, committed, qpc>>
media  == <<live, soft>>
identity == <<tombstoned, signing, rejoined>>
driver == <<pc, reason>>
vars == <<account, operation, work, grants, billing_fenced, upload, media,
          identity, driver>>

Init ==
    /\ account = "active"
    /\ tombstoned = FALSE
    /\ op_status = "none" /\ op_reason = "none"
    /\ send = [c \in Channels |-> "none"]
    /\ vertex = [v \in Calls |-> "none"]
    /\ apple = [c \in Clients |-> "none"]
    /\ tokens = {}
    /\ billing_fenced = FALSE
    /\ intent = "none" /\ holders = {} /\ committed = FALSE
    /\ live = FALSE /\ soft = FALSE
    /\ qpc = [q \in Requests |-> "idle"]
    /\ signing = FALSE /\ rejoined = FALSE
    /\ pc = [d \in Drivers |-> "idle"]
    /\ reason = [d \in Drivers |-> "none"]

-----------------------------------------------------------------------------
(* Work admitted while the account is active.                              *)

\* A claim with its fence: email, webhook and push alike.
claim_send(c) ==
    /\ account = "active"
    /\ send[c] = "none"
    /\ send' = [send EXCEPT ![c] = "open"]
    /\ UNCHANGED <<account, operation, vertex, grants, billing_fenced, upload,
                   media, identity, driver>>

settle_send(c) ==
    /\ send[c] # "none"
    /\ send' = [send EXCEPT ![c] = "none"]
    /\ UNCHANGED <<account, operation, vertex, grants, billing_fenced, upload,
                   media, identity, driver>>

send_lapses(c) ==
    /\ send[c] = "open"
    /\ send' = [send EXCEPT ![c] = "lapsed"]
    /\ UNCHANGED <<account, operation, vertex, grants, billing_fenced, upload,
                   media, identity, driver>>

begin_invocation(v) ==
    /\ account = "active"
    /\ vertex[v] = "none"
    /\ vertex' = [vertex EXCEPT ![v] = "started"]
    /\ UNCHANGED <<account, operation, send, grants, billing_fenced, upload,
                   media, identity, driver>>

settle_invocation(v) ==
    /\ vertex[v] = "started"
    /\ vertex' = [vertex EXCEPT ![v] = "ended"]
    /\ UNCHANGED <<account, operation, send, grants, billing_fenced, upload,
                   media, identity, driver>>

\* The credential is stored with a token Apple has just issued.
link_apple_identity(c) ==
    /\ account = "active"
    /\ apple' = [apple EXCEPT ![c] = "granted"]
    /\ tokens' = tokens \cup {c}
    /\ UNCHANGED <<account, operation, work, billing_fenced, upload, media,
                   identity, driver>>

-----------------------------------------------------------------------------
(* The capture handler.  Requests retry one event; they share its intent.  *)

StepTo(q, next) == qpc' = [qpc EXCEPT ![q] = next]

\* preflight_event: a committed event is answered without an upload.
capture_event(q) ==
    /\ qpc[q] = "idle"
    /\ account = "active"
    /\ ~committed
    /\ StepTo(q, "reserve")
    /\ UNCHANGED <<account, operation, work, grants, billing_fenced, intent,
                   holders, committed, media, identity, driver>>

\* A live intent is extended under the same token; an expired one is replaced.
reserve_media_upload(q) ==
    /\ qpc[q] = "reserve"
    /\ \/ /\ account = "active"
          /\ intent' = "live"
          /\ holders' = IF intent = "live" THEN holders \cup {q} ELSE {q}
          /\ StepTo(q, "put")
       \/ /\ account # "active"
          /\ StepTo(q, "idle")
          /\ UNCHANGED <<intent, holders>>
    /\ UNCHANGED <<account, operation, work, grants, billing_fenced, committed,
                   media, identity, driver>>

\* The PUT carries ifGenerationMatch=0.  It lands, or finds the object there,
\* and the request goes on to its commit; the HTTP future may be gone by then,
\* or the answer and the readback lost.  Or nothing lands.
put_current(q) ==
    /\ qpc[q] = "put"
    /\ \/ /\ live' = TRUE
          /\ StepTo(q, "commit") \/ StepTo(q, "idle")
       \/ /\ StepTo(q, "idle")
          /\ UNCHANGED live
    /\ UNCHANGED <<account, operation, work, grants, billing_fenced, intent,
                   holders, committed, soft, identity, driver>>

commit_event(q) ==
    /\ qpc[q] = "commit"
    /\ \/ /\ account = "active"
          /\ committed \/ (intent = "live" /\ q \in holders)
          /\ committed' = TRUE
          /\ intent' = IF q \in holders THEN "none" ELSE intent
          /\ holders' = IF q \in holders THEN {} ELSE holders
       \/ /\ ~(account = "active" /\ (committed \/ (intent = "live" /\ q \in holders)))
          /\ UNCHANGED <<intent, holders, committed>>
    /\ StepTo(q, "idle")
    /\ UNCHANGED <<account, operation, work, grants, billing_fenced, media,
                   identity, driver>>

\* A request dies between its transactions; put_current covers the PUT.
request_crash(q) ==
    /\ qpc[q] \in {"reserve", "commit"}
    /\ StepTo(q, "idle")
    /\ UNCHANGED <<account, operation, work, grants, billing_fenced, intent,
                   holders, committed, media, identity, driver>>

Putting == \E q \in Requests : qpc[q] = "put"

\* Ten minutes, against the 300 seconds a PUT can take.
intent_expires ==
    /\ intent = "live"
    /\ ~Putting
    /\ intent' = "expired"
    /\ UNCHANGED <<account, operation, work, grants, billing_fenced, holders,
                   committed, qpc, media, identity, driver>>

\* The bucket's retention is days.
soft_delete_expires ==
    /\ soft
    /\ ~Putting
    /\ soft' = FALSE
    /\ UNCHANGED <<account, operation, work, grants, billing_fenced, upload,
                   live, identity, driver>>

-----------------------------------------------------------------------------
(* Sign-in: two statements of a READ COMMITTED transaction that holds the  *)
(* lock of its subject and none that deletion takes.                       *)

deleted_account_or_identity ==
    /\ Rejoinable
    /\ ~signing
    /\ ~tombstoned
    /\ signing' = TRUE
    /\ UNCHANGED <<account, operation, work, grants, billing_fenced, upload,
                   media, tombstoned, rejoined, driver>>

\* The account found is active, or there is none and a new one is inserted;
\* an account that is being deleted is refused.  A new account gets a billing
\* mapping of its own, which nobody has fenced.
upsert_account ==
    /\ signing
    /\ signing' = FALSE
    /\ account' = IF account = "none" THEN "active" ELSE account
    /\ rejoined' = (rejoined \/ account = "none")
    /\ billing_fenced' = (billing_fenced /\ account # "none")
    /\ \/ UNCHANGED grants
       \/ /\ account \in {"active", "none"}
          /\ \E c \in Clients :
                /\ apple' = [apple EXCEPT ![c] = "granted"]
                /\ tokens' = tokens \cup {c}
    /\ UNCHANGED <<operation, work, upload, media, tombstoned, driver>>

-----------------------------------------------------------------------------
(* The drivers.                                                            *)

Goto(d, next) == pc' = [pc EXCEPT ![d] = next] /\ UNCHANGED reason
Hold(d, next, why) ==
    /\ pc' = [pc EXCEPT ![d] = next]
    /\ reason' = [reason EXCEPT ![d] = why]
\* The handler answers with the operation, or the sweep turns to the next
\* account.
Done(d) ==
    /\ pc' = [pc EXCEPT ![d] = "idle"]
    /\ reason' = [reason EXCEPT ![d] = "none"]

deleting_account_ids ==
    account \in {"deletion_requested", "deleting"} /\ op_status \in {"none", "pending"}

\* A DELETE on an account that still has a row.
delete_account(d) ==
    /\ d \in Handlers
    /\ pc[d] = "idle"
    /\ account # "none"
    /\ Goto(d, "request")
    /\ UNCHANGED <<account, operation, work, grants, billing_fenced, upload,
                   media, identity>>

\* A sweep of the reconciler comes to the account.
reconcile(d) ==
    /\ d \in Reconcilers
    /\ pc[d] = "idle"
    /\ deleting_account_ids
    /\ Goto(d, "request")
    /\ UNCHANGED <<account, operation, work, grants, billing_fenced, upload,
                   media, identity>>

\* Mutant: the request forgets its reason.
RequestReasonDropped == IF op_status = "none" THEN "requested" ELSE op_reason
RequestReason == IF op_status = "none" THEN "billing_fence_in_progress" ELSE op_reason

request_account_deletion(d) ==
    /\ pc[d] = "request"
    /\ \/ /\ account = "none"
          /\ IF tombstoned /\ op_status = "pending" THEN Goto(d, "preflight") ELSE Done(d)
          /\ UNCHANGED <<account, operation>>
       \/ /\ account # "none" /\ op_status = "physical_complete"
          /\ Done(d)
          /\ UNCHANGED <<account, operation>>
       \/ /\ account # "none" /\ op_status # "physical_complete"
          /\ op_status' = "pending"
          /\ op_reason' = RequestReason
          /\ account' = IF account = "active" THEN "deletion_requested" ELSE account
          /\ Goto(d, "preflight")
    /\ UNCHANGED <<work, grants, billing_fenced, upload, media, identity>>

\* Mutant: an expired claim is left to a worker that no longer comes.
recover_none == send
recover_expired_provider_claims ==
    [c \in Channels |-> IF send[c] = "lapsed" THEN "none" ELSE send[c]]

\* Mutant: the fences are not looked at.
FencesIgnored(st) == TRUE
refuse_open_provider_fences(st) == \A c \in Channels : st[c] = "none"
refuse_started_vertex_invocations == \A v \in Calls : vertex[v] # "started"
\* Expired intents are deleted first, so only a live one refuses.
refuse_active_media_uploads == intent # "live"

CleanIntents ==
    /\ intent' = IF intent = "expired" THEN "none" ELSE intent
    /\ holders' = IF intent = "expired" THEN {} ELSE holders

account_deletion_preflight_complete(d) ==
    /\ pc[d] = "preflight"
    /\ \/ /\ account \notin {"deletion_requested", "deleting"}
          /\ Done(d)
          /\ UNCHANGED <<send, intent, holders>>
       \/ /\ account \in {"deletion_requested", "deleting"}
          /\ send' = recover_expired_provider_claims
          /\ CleanIntents
          /\ IF refuse_open_provider_fences(send') /\ refuse_active_media_uploads
             THEN Goto(d, "settle") ELSE Done(d)
    /\ UNCHANGED <<account, operation, vertex, grants, billing_fenced,
                   committed, qpc, media, identity>>

\* Begun invocations become ambiguous, usage is reported, billing fenced.
settle_before_deletion(d) ==
    /\ pc[d] = "settle"
    /\ account # "none"
    /\ vertex' = [v \in Calls |-> IF vertex[v] = "started" THEN "ended" ELSE vertex[v]]
    /\ billing_fenced' = TRUE
    /\ Goto(d, "begin")
    /\ UNCHANGED <<account, operation, send, grants, upload, media, identity>>

\* Some of that failed, or the fence was set and its answer lost.
settle_failed(d) ==
    /\ pc[d] = "settle"
    /\ UNCHANGED billing_fenced \/ (account # "none" /\ billing_fenced' = TRUE)
    /\ vertex' \in {vertex, [v \in Calls |-> IF vertex[v] = "started" THEN "ended"
                                             ELSE vertex[v]]}
    /\ Done(d)
    /\ UNCHANGED <<account, operation, send, grants, upload, media, identity>>

\* Admission to physical deletion, on a row or on a tombstone.
Beginnable ==
    /\ refuse_open_provider_fences(send)
    /\ refuse_started_vertex_invocations
    /\ refuse_active_media_uploads
    /\ account # "active"
    /\ account # "none" => op_status # "physical_complete"

begin_account_deletion(d) ==
    /\ pc[d] = "begin"
    /\ \/ /\ Beginnable
          /\ account' = IF account = "none" THEN "none" ELSE "deleting"
          /\ op_reason' = IF op_reason = "billing_fence_in_progress" /\ op_status = "pending"
                          THEN "content_deletion_in_progress" ELSE op_reason
          /\ CleanIntents
          /\ IF d \in Reconcilers THEN Hold(d, "revoke", op_reason')
             ELSE IF op_status = "physical_complete" THEN Done(d)
             ELSE Hold(d, "update", op_reason')
       \/ /\ ~Beginnable
          /\ Done(d)
          /\ UNCHANGED <<account, op_reason, intent, holders>>
    /\ UNCHANGED <<op_status, work, grants, billing_fenced, committed, qpc,
                   media, identity>>

\* The attempt is recorded; nothing is asked of the operation's status.
update_account_deletion_status(d) ==
    /\ pc[d] = "update"
    /\ op_status' = "pending"
    /\ op_reason' = "content_deletion_attempt_unconfirmed"
    /\ Goto(d, IF d \in Handlers THEN "revoke" ELSE "purge")
    /\ UNCHANGED <<account, work, grants, billing_fenced, upload, media, identity>>

\* Mutant: any earlier attempt is taken for a finished purge.
AfterRevokeEager(d) ==
    IF d \in Handlers THEN "purge"
    ELSE IF reason[d] # "content_deletion_in_progress" THEN "finalize"
    ELSE "update"
\* The reconciler purges unless an earlier driver has and only its
\* finalization failed; the handler always purges.
AfterRevoke(d) ==
    IF d \in Handlers THEN "purge"
    ELSE IF reason[d] = "identity_cleanup_in_progress" THEN "finalize"
    ELSE "update"

\* One credential after the other: Apple first, then the row.
revoke_apple_before_content_delete(d) ==
    /\ pc[d] = "revoke"
    /\ \/ /\ \A c \in Clients : apple[c] # "granted"
          /\ Goto(d, AfterRevoke(d))
          /\ UNCHANGED grants
       \/ \E c \in Clients :
             /\ apple[c] = "granted"
             /\ tokens' = tokens \ {c}
             /\ apple' = [apple EXCEPT ![c] = "revoked"]
             /\ UNCHANGED driver
    /\ UNCHANGED <<account, operation, work, billing_fenced, upload, media, identity>>

\* Apple has answered and the mark fails; a refusal of Apple's is a crash.
revoke_failed(d) ==
    /\ pc[d] = "revoke"
    /\ \E c \in Clients : apple[c] = "granted" /\ tokens' = tokens \ {c}
    /\ Done(d)
    /\ UNCHANGED <<account, operation, work, apple, billing_fenced, upload,
                   media, identity>>

Purged == ~soft /\ ~(live /\ SoftDelete)

\* Every generation is deleted; it is over when none is left under retention.
purge_account(d) ==
    /\ pc[d] = "purge"
    /\ live' = FALSE
    /\ soft' = (soft \/ (live /\ SoftDelete))
    /\ IF Purged THEN Hold(d, "finalize", "none")
                 ELSE Hold(d, "persist", "soft_delete_retention")
    /\ UNCHANGED <<account, operation, work, grants, billing_fenced, upload, identity>>

purge_failed(d) ==
    /\ pc[d] = "purge"
    /\ Hold(d, "persist", "content_store_unavailable")
    /\ UNCHANGED <<account, operation, work, grants, billing_fenced, upload,
                   media, identity>>

persist_deletion_status(d) ==
    /\ pc[d] = "persist"
    /\ op_status' = "pending"
    /\ op_reason' = reason[d]
    /\ Done(d)
    /\ UNCHANGED <<account, work, grants, billing_fenced, upload, media, identity>>

Finalizable ==
    /\ refuse_open_provider_fences(send)
    /\ refuse_active_media_uploads
    /\ \/ account = "none" /\ tombstoned
       \/ account = "deleting" /\ \A c \in Clients : apple[c] # "granted"

\* Tombstones, the row with everything that cascades from it, and the status.
finalize_account_deletion(d) ==
    /\ pc[d] = "finalize"
    /\ Finalizable
    /\ account' = "none"
    /\ tombstoned' = TRUE
    /\ op_status' = "physical_complete" /\ op_reason' = "content_deleted"
    /\ vertex' = [v \in Calls |-> "none"]
    /\ apple' = [c \in Clients |-> "none"]
    /\ intent' = "none" /\ holders' = {} /\ committed' = FALSE
    /\ Done(d)
    /\ UNCHANGED <<send, tokens, billing_fenced, qpc, media, signing, rejoined>>

\* It is refused, or the database fails.
finalize_failed(d) ==
    /\ pc[d] = "finalize"
    /\ IF reason[d] = "identity_cleanup_in_progress" THEN Done(d)
       ELSE Hold(d, "persist", "identity_cleanup_in_progress")
    /\ UNCHANGED <<account, operation, work, grants, billing_fenced, upload,
                   media, identity>>

\* A replica dies, or a call of its fails.
driver_crash(d) ==
    /\ pc[d] # "idle"
    /\ Done(d)
    /\ UNCHANGED <<account, operation, work, grants, billing_fenced, upload,
                   media, identity>>

-----------------------------------------------------------------------------
WorkStep ==
    \/ \E c \in Channels : claim_send(c) \/ settle_send(c) \/ send_lapses(c)
    \/ \E v \in Calls : begin_invocation(v) \/ settle_invocation(v)
    \/ \E c \in Clients : link_apple_identity(c)

UploadStep ==
    \/ \E q \in Requests :
          \/ capture_event(q) \/ reserve_media_upload(q) \/ put_current(q)
          \/ commit_event(q) \/ request_crash(q)
    \/ intent_expires
    \/ soft_delete_expires

SignInStep == deleted_account_or_identity \/ upsert_account

DriverStep(d) ==
    \/ delete_account(d) \/ reconcile(d)
    \/ request_account_deletion(d)
    \/ account_deletion_preflight_complete(d)
    \/ settle_before_deletion(d) \/ settle_failed(d)
    \/ begin_account_deletion(d)
    \/ update_account_deletion_status(d)
    \/ revoke_apple_before_content_delete(d) \/ revoke_failed(d)
    \/ purge_account(d) \/ purge_failed(d)
    \/ persist_deletion_status(d)
    \/ finalize_account_deletion(d) \/ finalize_failed(d)
    \/ driver_crash(d)

Next == WorkStep \/ UploadStep \/ SignInStep \/ \E d \in Drivers : DriverStep(d)

Spec == Init /\ [][Next]_vars

\* Every replica's reconciler comes back every five minutes, a call that it
\* makes again and again succeeds at last, clocks advance, a PUT ends.  Nothing
\* is asked of handlers.
Fairness ==
    /\ \A d \in Reconcilers :
         /\ SF_vars(reconcile(d))
         /\ SF_vars(request_account_deletion(d))
         /\ SF_vars(account_deletion_preflight_complete(d))
         /\ SF_vars(settle_before_deletion(d))
         /\ SF_vars(begin_account_deletion(d))
         /\ SF_vars(update_account_deletion_status(d))
         /\ SF_vars(revoke_apple_before_content_delete(d))
         /\ SF_vars(purge_account(d))
         /\ SF_vars(persist_deletion_status(d))
         /\ SF_vars(finalize_account_deletion(d))
    /\ \A c \in Channels : WF_vars(send_lapses(c))
    /\ \A q \in Requests : WF_vars(put_current(q))
    /\ WF_vars(intent_expires)
    /\ WF_vars(soft_delete_expires)

FairSpec == Spec /\ Fairness

-----------------------------------------------------------------------------
(* Properties.                                                             *)

\* Every variable keeps its type.
TypeOK ==
    /\ account \in AccountStatus
    /\ tombstoned \in BOOLEAN /\ signing \in BOOLEAN /\ rejoined \in BOOLEAN
    /\ op_status \in OpStatus /\ op_reason \in Reason
    /\ send \in [Channels -> {"none", "open", "lapsed"}]
    /\ vertex \in [Calls -> {"none", "started", "ended"}]
    /\ apple \in [Clients -> {"none", "granted", "revoked"}]
    /\ tokens \in SUBSET Clients
    /\ billing_fenced \in BOOLEAN
    /\ intent \in {"none", "live", "expired"}
    /\ holders \in SUBSET Requests
    /\ committed \in BOOLEAN /\ live \in BOOLEAN /\ soft \in BOOLEAN
    /\ qpc \in [Requests -> {"idle", "reserve", "put", "commit"}]
    /\ pc \in [Drivers -> PC]
    /\ reason \in [Drivers -> Reason]

\* Physical deletion begins only behind the gate: once the account is being
\* deleted no request to a provider is in flight, no invocation is open, no
\* upload is admitted, and billing has acknowledged its fence.  A driver that
\* settled an account which was finalized and recreated meanwhile may begin on
\* the new one, whose billing it has not fenced.
DrainedBeforeErasure ==
    account = "deleting" =>
        /\ \A c \in Channels : send[c] = "none"
        /\ \A v \in Calls : vertex[v] # "started"
        /\ intent # "live"
        /\ billing_fenced \/ rejoined

\* Deletion is never falsely complete: when the row is gone, or the operation
\* says so, Apple honours none of the account's tokens and the bucket holds,
\* and will hold, nothing of it.  As long as no sign-in recreated the account,
\* and for a bucket that keeps deleted generations: in another one, a retry's
\* commit takes the intent away from a first PUT that may land after the scan.
NothingLeftBehind ==
    ~rejoined /\ (account = "none" \/ op_status = "physical_complete") =>
        /\ account = "none"
        /\ tokens = {}
        /\ SoftDelete => ~live /\ ~soft /\ ~Putting

\* A requested deletion comes to its end, whatever drivers crash and whatever
\* was in flight when it was requested.
DeletionCompletes == account = "deletion_requested" ~> account = "none"

-----------------------------------------------------------------------------
(* The inductive invariant, as long as nobody recreates the account.       *)

\* Drivers past a step know what that step established.
DriverShape ==
    \A d \in Drivers :
        /\ pc[d] \in {"begin", "update", "revoke", "purge", "finalize", "persist"}
              => billing_fenced
        /\ pc[d] # "idle" /\ pc[d] # "request" => account # "active"
        /\ pc[d] \in {"update", "revoke", "purge", "finalize", "persist"}
              => account \in {"deleting", "none"}

\* The operation exists once deletion is requested and completes with the row.
OperationShape ==
    /\ tombstoned <=> account = "none"
    /\ account = "active" <=> op_status = "none"
    /\ op_status = "physical_complete" => account = "none"
    /\ op_status = "none" => op_reason = "none"

\* A credential is marked only after Apple forgot its token.
GrantShape ==
    \A c \in tokens : account # "none" /\ apple[c] = "granted"

\* A PUT in flight has its live intent, or an object that purging will find.
UploadShape ==
    /\ \A q \in Requests : qpc[q] = "commit" /\ account = "active" => live
    /\ committed /\ account = "active" => live
    /\ SoftDelete /\ Putting => intent = "live" \/ live \/ soft

\* Who skips the purge, or has done it, relies on an empty bucket.
MediaGone == ~live /\ ~soft /\ ~Putting
PurgeShape ==
    SoftDelete =>
        /\ \A d \in Drivers :
              /\ pc[d] = "finalize" => MediaGone
              /\ pc[d] \in {"update", "revoke", "persist"} /\ reason[d] = "identity_cleanup_in_progress"
                    => MediaGone
        /\ op_reason = "identity_cleanup_in_progress" => MediaGone

DeletionInv ==
    /\ TypeOK
    /\ ~rejoined =>
          /\ DriverShape /\ OperationShape /\ GrantShape /\ UploadShape /\ PurgeShape
          /\ DrainedBeforeErasure /\ NothingLeftBehind
=============================================================================
