------------------------ MODULE AccountDeletionProofs ------------------------
(***************************************************************************)
(* Proofs about account deletion, for any number of handlers, reconcilers, *)
(* upload requests, sends, invocations and credentials.                    *)
(***************************************************************************)
EXTENDS AccountDeletion, TLAPS

\* What the invariant says of an account nobody recreated.
Shapes ==
    /\ DriverShape /\ OperationShape /\ GrantShape /\ UploadShape /\ PurgeShape
    /\ DrainedBeforeErasure /\ NothingLeftBehind

\* The first state satisfies the invariant.
LEMMA InitInv == Init => DeletionInv
<1> SUFFICES ASSUME Init PROVE DeletionInv
    OBVIOUS
<1>1. TypeOK
    BY DEF Init, TypeOK, AccountStatus, OpStatus, Reason, PC
<1>2. DriverShape /\ OperationShape /\ GrantShape
    BY DEF Init, DriverShape, OperationShape, GrantShape
<1>3. UploadShape /\ PurgeShape
    BY DEF Init, UploadShape, PurgeShape, Putting
<1>4. DrainedBeforeErasure /\ NothingLeftBehind
    BY DEF Init, DrainedBeforeErasure, NothingLeftBehind
<1> QED BY <1>1, <1>2, <1>3, <1>4 DEF DeletionInv

\* Work and uploads keep the types.
LEMMA TypeWork == TypeOK /\ (WorkStep \/ UploadStep \/ SignInStep) => TypeOK'
<1> SUFFICES ASSUME TypeOK, WorkStep \/ UploadStep \/ SignInStep PROVE TypeOK'
    OBVIOUS
<1> USE DEF operation, work, grants, upload, media, identity, driver, StepTo
<1>1. CASE WorkStep
    BY <1>1 DEF TypeOK, WorkStep, claim_send, settle_send, send_lapses,
       begin_invocation, settle_invocation, link_apple_identity
<1>2. CASE UploadStep
  <2>1. ASSUME NEW q \in Requests, capture_event(q) \/ reserve_media_upload(q) \/ request_crash(q)
        PROVE TypeOK'
      BY <2>1 DEF TypeOK, capture_event, reserve_media_upload, request_crash
  <2>2. ASSUME NEW q \in Requests, put_current(q) \/ commit_event(q)
        PROVE TypeOK'
      BY <2>2 DEF TypeOK, put_current, commit_event
  <2>3. CASE intent_expires \/ soft_delete_expires
      BY <2>3 DEF TypeOK, intent_expires, soft_delete_expires
  <2> QED BY <1>2, <2>1, <2>2, <2>3 DEF UploadStep
<1>3. CASE SignInStep
    BY <1>3 DEF TypeOK, SignInStep, deleted_account_or_identity, upsert_account,
       AccountStatus
<1> QED BY <1>1, <1>2, <1>3

\* So do the drivers.
LEMMA TypeDriver ==
    ASSUME TypeOK, NEW d \in Drivers, DriverStep(d) PROVE TypeOK'
<1> USE DEF operation, work, grants, upload, media, identity, driver, Goto, Hold, Done,
            AccountStatus, OpStatus, Reason, PC
<1>1. CASE delete_account(d) \/ reconcile(d) \/ driver_crash(d)
    BY <1>1 DEF TypeOK, delete_account, reconcile, driver_crash
<1>2. CASE request_account_deletion(d)
    BY <1>2 DEF TypeOK, request_account_deletion, RequestReason
<1>3. CASE account_deletion_preflight_complete(d)
    BY <1>3 DEF TypeOK, account_deletion_preflight_complete, CleanIntents,
       recover_expired_provider_claims
<1>4. CASE settle_before_deletion(d) \/ settle_failed(d)
  <2>1. billing_fenced' \in BOOLEAN
    <3>1. billing_fenced' = billing_fenced \/ billing_fenced' = TRUE
        BY <1>4, Zenon DEF settle_before_deletion, settle_failed
    <3> QED BY <3>1 DEF TypeOK
  <2>2. vertex' \in [Calls -> {"none", "started", "ended"}]
      BY <1>4 DEF TypeOK, settle_before_deletion, settle_failed
  <2>3. pc' \in [Drivers -> PC] /\ reason' \in [Drivers -> Reason]
      BY <1>4 DEF TypeOK, settle_before_deletion, settle_failed
  <2>4. CASE settle_before_deletion(d)
      BY <2>4, <2>1, <2>2, <2>3 DEF TypeOK, settle_before_deletion
  <2>5. CASE settle_failed(d)
      BY <2>5, <2>1, <2>2, <2>3 DEF TypeOK, settle_failed
  <2> QED BY <1>4, <2>4, <2>5
<1>5. CASE begin_account_deletion(d)
  <2>1. /\ account' \in AccountStatus /\ op_reason' \in Reason
        /\ intent' \in {"none", "live", "expired"} /\ holders' \in SUBSET Requests
      BY <1>5 DEF TypeOK, begin_account_deletion, CleanIntents
  <2>2. pc' \in [Drivers -> PC] /\ reason' \in [Drivers -> Reason]
      BY <1>5, <2>1 DEF TypeOK, begin_account_deletion
  <2> QED BY <1>5, <2>1, <2>2 DEF TypeOK, begin_account_deletion
<1>6. CASE update_account_deletion_status(d) \/ persist_deletion_status(d)
    BY <1>6 DEF TypeOK, update_account_deletion_status, persist_deletion_status
<1>7. CASE revoke_apple_before_content_delete(d) \/ revoke_failed(d)
    BY <1>7 DEF TypeOK, revoke_apple_before_content_delete, revoke_failed, AfterRevoke
<1>8. CASE purge_account(d)
  <2>1. pc' \in [Drivers -> PC] /\ reason' \in [Drivers -> Reason]
      BY <1>8 DEF TypeOK, purge_account
  <2>2. live' \in BOOLEAN /\ soft' \in BOOLEAN
      BY <1>8 DEF purge_account
  <2> QED BY <1>8, <2>1, <2>2 DEF TypeOK, purge_account
<1>9. CASE purge_failed(d)
    BY <1>9 DEF TypeOK, purge_failed
<1>10. CASE finalize_account_deletion(d)
    BY <1>10 DEF TypeOK, finalize_account_deletion
<1>11. CASE finalize_failed(d)
    BY <1>11 DEF TypeOK, finalize_failed
<1> QED BY <1>1, <1>2, <1>3, <1>4, <1>5, <1>6, <1>7, <1>8, <1>9, <1>10, <1>11
        DEF DriverStep

\* Work admitted while the account is active keeps the shapes.
LEMMA WorkShapes ==
    ASSUME TypeOK, Shapes, ~rejoined, WorkStep PROVE Shapes'
<1> USE DEF operation, work, grants, upload, media, identity, driver
<1>1. ASSUME NEW c \in Channels, claim_send(c) \/ settle_send(c) \/ send_lapses(c)
      PROVE Shapes'
  <2>1. DrainedBeforeErasure'
      BY <1>1 DEF Shapes, DrainedBeforeErasure, TypeOK, claim_send, settle_send, send_lapses
  <2> QED BY <1>1, <2>1 DEF Shapes, DriverShape, OperationShape, GrantShape, UploadShape,
             PurgeShape, MediaGone, Putting, NothingLeftBehind, claim_send,
             settle_send, send_lapses
<1>2. ASSUME NEW v \in Calls, begin_invocation(v) \/ settle_invocation(v)
      PROVE Shapes'
  <2>1. DrainedBeforeErasure'
      BY <1>2 DEF Shapes, DrainedBeforeErasure, TypeOK, begin_invocation, settle_invocation
  <2> QED BY <1>2, <2>1 DEF Shapes, DriverShape, OperationShape, GrantShape, UploadShape,
             PurgeShape, MediaGone, Putting, NothingLeftBehind, begin_invocation,
             settle_invocation
<1>3. ASSUME NEW c \in Clients, link_apple_identity(c)
      PROVE Shapes'
  <2>1. GrantShape' /\ NothingLeftBehind'
      BY <1>3 DEF Shapes, GrantShape, NothingLeftBehind, OperationShape, Putting, TypeOK,
         link_apple_identity
  <2> QED BY <1>3, <2>1 DEF Shapes, DriverShape, OperationShape, UploadShape,
             PurgeShape, MediaGone, Putting, DrainedBeforeErasure, link_apple_identity
<1> QED BY <1>1, <1>2, <1>3 DEF WorkStep

\* A bucket that is relied on to be empty stays empty: no upload is admitted
\* any more.
LEMMA UploadShapes ==
    ASSUME TypeOK, Shapes, ~rejoined, UploadStep PROVE Shapes'
<1> USE DEF operation, work, grants, upload, media, identity, driver, StepTo
<1>1. ASSUME NEW q \in Requests, capture_event(q) \/ request_crash(q)
      PROVE Shapes'
  <2>1. Putting' = Putting
      BY <1>1 DEF Putting, TypeOK, capture_event, request_crash
  <2>2. UploadShape'
      BY <1>1, <2>1 DEF Shapes, UploadShape, TypeOK, capture_event, request_crash
  <2> QED BY <1>1, <2>1, <2>2 DEF Shapes, DriverShape, OperationShape, GrantShape,
             PurgeShape, MediaGone, NothingLeftBehind, DrainedBeforeErasure,
             capture_event, request_crash
<1>2. ASSUME NEW q \in Requests, reserve_media_upload(q)
      PROVE Shapes'
  <2>1. CASE account = "active"
    <3>1. UploadShape'
        BY <1>2, <2>1 DEF Shapes, UploadShape, TypeOK, reserve_media_upload
    <3>2. PurgeShape'
        BY <1>2, <2>1 DEF Shapes, PurgeShape, DriverShape, OperationShape, TypeOK,
           reserve_media_upload
    <3> QED BY <1>2, <2>1, <3>1, <3>2 DEF Shapes, DriverShape, OperationShape, GrantShape,
               NothingLeftBehind, DrainedBeforeErasure, reserve_media_upload
  <2>2. CASE account # "active"
    <3>1. Putting' = Putting
        BY <1>2, <2>2 DEF Putting, TypeOK, reserve_media_upload
    <3>2. UploadShape'
        BY <1>2, <2>2, <3>1 DEF Shapes, UploadShape, TypeOK, reserve_media_upload
    <3> QED BY <1>2, <2>2, <3>1, <3>2 DEF Shapes, DriverShape, OperationShape, GrantShape,
               PurgeShape, MediaGone, NothingLeftBehind, DrainedBeforeErasure,
               reserve_media_upload
  <2> QED BY <2>1, <2>2
<1>3. ASSUME NEW q \in Requests, put_current(q)
      PROVE Shapes'
  <2>1. Putting /\ (Putting' => Putting)
      BY <1>3 DEF Putting, TypeOK, put_current
  <2>2. UploadShape'
      BY <1>3, <2>1 DEF Shapes, UploadShape, TypeOK, put_current
  <2> QED BY <1>3, <2>1, <2>2 DEF Shapes, DriverShape, OperationShape, GrantShape,
             PurgeShape, MediaGone, NothingLeftBehind, DrainedBeforeErasure, put_current
<1>4. ASSUME NEW q \in Requests, commit_event(q)
      PROVE Shapes'
  <2>1. Putting' = Putting
      BY <1>4 DEF Putting, TypeOK, commit_event
  <2>2. UploadShape'
      BY <1>4, <2>1 DEF Shapes, UploadShape, TypeOK, commit_event
  <2> QED BY <1>4, <2>1, <2>2 DEF Shapes, DriverShape, OperationShape, GrantShape,
             PurgeShape, MediaGone, NothingLeftBehind, DrainedBeforeErasure, commit_event
<1>5. CASE intent_expires \/ soft_delete_expires
  <2>1. Putting' = Putting /\ ~Putting
      BY <1>5 DEF Putting, intent_expires, soft_delete_expires
  <2> QED BY <1>5, <2>1 DEF Shapes, DriverShape, OperationShape, GrantShape, UploadShape,
             PurgeShape, MediaGone, NothingLeftBehind, DrainedBeforeErasure,
             intent_expires, soft_delete_expires
<1> QED BY <1>1, <1>2, <1>3, <1>4, <1>5 DEF UploadStep

\* A sign-in keeps them, or recreates the account.
LEMMA SignInShapes ==
    ASSUME TypeOK, Shapes, ~rejoined', SignInStep PROVE Shapes'
<1> USE DEF operation, work, grants, upload, media, identity, driver
<1>1. CASE deleted_account_or_identity
    BY <1>1 DEF deleted_account_or_identity, Shapes, DriverShape, OperationShape, GrantShape,
       UploadShape, PurgeShape, MediaGone, Putting, NothingLeftBehind, DrainedBeforeErasure
<1>2. CASE upsert_account
  <2>1. account # "none" /\ account' = account /\ ~rejoined
      BY <1>2 DEF upsert_account, TypeOK
  <2>2. GrantShape' /\ NothingLeftBehind'
      BY <1>2, <2>1 DEF upsert_account, Shapes, GrantShape, NothingLeftBehind,
         OperationShape, TypeOK
  <2> QED BY <1>2, <2>1, <2>2 DEF upsert_account, Shapes, DriverShape, OperationShape,
             UploadShape, PurgeShape, MediaGone, Putting, DrainedBeforeErasure
<1> QED BY <1>1, <1>2 DEF SignInStep

\* The steps of a driver before physical deletion begins keep the shapes.
LEMMA GateShapes ==
    ASSUME TypeOK, Shapes, ~rejoined, NEW d \in Drivers,
           \/ delete_account(d) \/ reconcile(d) \/ driver_crash(d)
           \/ request_account_deletion(d)
           \/ account_deletion_preflight_complete(d)
           \/ settle_before_deletion(d) \/ settle_failed(d)
           \/ begin_account_deletion(d)
    PROVE  Shapes'
<1> USE DEF operation, work, grants, upload, media, identity, driver, Goto, Hold, Done
<1>1. CASE delete_account(d) \/ reconcile(d) \/ driver_crash(d)
  <2>1. DriverShape' /\ PurgeShape'
      BY <1>1 DEF Shapes, DriverShape, PurgeShape, MediaGone, Putting, TypeOK,
         delete_account, reconcile, driver_crash
  <2> QED BY <1>1, <2>1 DEF Shapes, OperationShape, GrantShape, UploadShape, Putting,
             NothingLeftBehind, DrainedBeforeErasure, delete_account, reconcile, driver_crash
<1>2. CASE request_account_deletion(d)
  <2>1. OperationShape'
      BY <1>2 DEF Shapes, OperationShape, RequestReason, request_account_deletion
  <2>2. DriverShape'
      BY <1>2 DEF Shapes, DriverShape, OperationShape, TypeOK, AccountStatus,
         request_account_deletion
  <2>3. PurgeShape'
      BY <1>2 DEF Shapes, PurgeShape, MediaGone, Putting, TypeOK, RequestReason,
         request_account_deletion
  <2> QED BY <1>2, <2>1, <2>2, <2>3 DEF Shapes, OperationShape, GrantShape, UploadShape,
             Putting, NothingLeftBehind, DrainedBeforeErasure, request_account_deletion
<1>3. CASE account_deletion_preflight_complete(d)
  <2>1. DriverShape' /\ PurgeShape'
      BY <1>3 DEF Shapes, DriverShape, PurgeShape, MediaGone, Putting, TypeOK,
         account_deletion_preflight_complete
  <2>2. DrainedBeforeErasure' /\ UploadShape'
      BY <1>3 DEF Shapes, DrainedBeforeErasure, UploadShape, Putting, CleanIntents,
         recover_expired_provider_claims, account_deletion_preflight_complete
  <2> QED BY <1>3, <2>1, <2>2 DEF Shapes, OperationShape, GrantShape, Putting,
             NothingLeftBehind, account_deletion_preflight_complete
<1>4. CASE settle_before_deletion(d) \/ settle_failed(d)
  <2>1. (billing_fenced => billing_fenced') /\ (settle_before_deletion(d) => billing_fenced')
    <3>1. CASE settle_before_deletion(d)
        BY <3>1 DEF settle_before_deletion
    <3>2. CASE settle_failed(d)
        BY <3>2, <1>4 DEF settle_before_deletion, settle_failed
    <3> QED BY <1>4, <3>1, <3>2
  <2>2. \A v \in Calls : vertex[v] # "started" => vertex'[v] # "started"
      BY <1>4 DEF settle_before_deletion, settle_failed
  <2>3. DriverShape'
      BY <1>4, <2>1 DEF Shapes, DriverShape, TypeOK, settle_before_deletion, settle_failed
  <2>4. PurgeShape'
      BY <1>4 DEF Shapes, PurgeShape, MediaGone, Putting, TypeOK,
         settle_before_deletion, settle_failed
  <2>5. DrainedBeforeErasure'
      BY <1>4, <2>1, <2>2 DEF Shapes, DrainedBeforeErasure, settle_before_deletion,
         settle_failed
  <2> QED BY <1>4, <2>3, <2>4, <2>5 DEF Shapes, OperationShape, GrantShape, UploadShape,
             Putting, NothingLeftBehind, settle_before_deletion, settle_failed
<1>5. CASE begin_account_deletion(d)
  <2>1. billing_fenced /\ account # "active"
      BY <1>5 DEF Shapes, DriverShape, begin_account_deletion
  <2>2. OperationShape'
      BY <1>5, <2>1 DEF Shapes, OperationShape, TypeOK, AccountStatus, begin_account_deletion
  <2>3. DriverShape'
      BY <1>5, <2>1 DEF Shapes, DriverShape, TypeOK, AccountStatus, begin_account_deletion
  <2>4. PurgeShape'
      BY <1>5, <2>1 DEF Shapes, PurgeShape, MediaGone, Putting, TypeOK, begin_account_deletion
  <2>5. DrainedBeforeErasure'
      BY <1>5, <2>1 DEF Shapes, DrainedBeforeErasure, Beginnable, CleanIntents,
         refuse_open_provider_fences, refuse_started_vertex_invocations,
         refuse_active_media_uploads, begin_account_deletion
  <2>6. GrantShape' /\ UploadShape'
      BY <1>5, <2>1 DEF Shapes, GrantShape, UploadShape, Putting, Beginnable, CleanIntents,
         begin_account_deletion
  <2>7. NothingLeftBehind'
      BY <1>5, <2>1 DEF Shapes, NothingLeftBehind, Putting, begin_account_deletion
  <2> QED BY <2>2, <2>3, <2>4, <2>5, <2>6, <2>7 DEF Shapes
<1> QED BY <1>1, <1>2, <1>3, <1>4, <1>5

\* So do its steps afterwards.
LEMMA ErasureShapes ==
    ASSUME TypeOK, Shapes, ~rejoined, NEW d \in Drivers,
           \/ update_account_deletion_status(d) \/ persist_deletion_status(d)
           \/ revoke_apple_before_content_delete(d) \/ revoke_failed(d)
           \/ purge_account(d) \/ purge_failed(d)
           \/ finalize_account_deletion(d) \/ finalize_failed(d)
    PROVE  Shapes'
<1> USE DEF operation, work, grants, upload, media, identity, driver, Goto, Hold, Done
<1>1. CASE update_account_deletion_status(d) \/ persist_deletion_status(d)
  <2>1. account \in {"deleting", "none"} /\ account' = account
      BY <1>1 DEF Shapes, DriverShape, update_account_deletion_status, persist_deletion_status
  <2>2. OperationShape'
      BY <1>1, <2>1 DEF Shapes, OperationShape, update_account_deletion_status,
         persist_deletion_status
  <2>3. DriverShape'
      BY <1>1, <2>1 DEF Shapes, DriverShape, TypeOK, update_account_deletion_status,
         persist_deletion_status
  <2>4. PurgeShape'
      BY <1>1 DEF Shapes, PurgeShape, MediaGone, Putting, TypeOK,
         update_account_deletion_status, persist_deletion_status
  <2>5. NothingLeftBehind'
      BY <1>1, <2>1 DEF Shapes, NothingLeftBehind, Putting, update_account_deletion_status,
         persist_deletion_status
  <2> QED BY <1>1, <2>1, <2>2, <2>3, <2>4, <2>5 DEF Shapes, GrantShape, UploadShape, Putting,
             DrainedBeforeErasure, update_account_deletion_status, persist_deletion_status
<1>2. CASE revoke_apple_before_content_delete(d) \/ revoke_failed(d)
  <2>1. account \in {"deleting", "none"} /\ account' = account
      BY <1>2 DEF Shapes, DriverShape, revoke_apple_before_content_delete, revoke_failed
  <2>2. DriverShape'
      BY <1>2, <2>1 DEF Shapes, DriverShape, TypeOK, AfterRevoke,
         revoke_apple_before_content_delete, revoke_failed
  <2>3. PurgeShape'
      BY <1>2 DEF Shapes, PurgeShape, MediaGone, Putting, TypeOK, AfterRevoke,
         revoke_apple_before_content_delete, revoke_failed
  <2>4. GrantShape' /\ tokens' \subseteq tokens
      BY <1>2, <2>1 DEF Shapes, GrantShape, TypeOK, revoke_apple_before_content_delete,
         revoke_failed
  <2>5. NothingLeftBehind'
      BY <1>2, <2>1, <2>4 DEF Shapes, NothingLeftBehind, Putting,
         revoke_apple_before_content_delete, revoke_failed
  <2> QED BY <1>2, <2>1, <2>2, <2>3, <2>4, <2>5 DEF Shapes, OperationShape, UploadShape,
             Putting, DrainedBeforeErasure, revoke_apple_before_content_delete, revoke_failed
<1>3. CASE purge_account(d)
  <2>1. account \in {"deleting", "none"} /\ account' = account /\ Putting' = Putting
      BY <1>3 DEF Shapes, DriverShape, Putting, purge_account
  <2>2. DriverShape'
      BY <1>3, <2>1 DEF Shapes, DriverShape, TypeOK, purge_account
  <2>3. UploadShape'
      BY <1>3, <2>1 DEF Shapes, UploadShape, purge_account
  \* An upload in flight has lost its intent, so its object was found.
  <2>4. SoftDelete /\ Purged => MediaGone'
    <3>1. SUFFICES ASSUME SoftDelete, Purged PROVE MediaGone'
        OBVIOUS
    <3>2. ~soft /\ ~live
        BY <3>1 DEF Purged
    <3>3. ~Putting
        BY <2>1, <3>1, <3>2 DEF Shapes, UploadShape, DrainedBeforeErasure, NothingLeftBehind
    <3> QED BY <1>3, <2>1, <3>2, <3>3 DEF MediaGone, purge_account
  <2>5. MediaGone => MediaGone'
      BY <1>3, <2>1 DEF MediaGone, purge_account
  <2>6. PurgeShape'
      BY <1>3, <2>4, <2>5 DEF Shapes, PurgeShape, TypeOK, purge_account
  <2>7. NothingLeftBehind'
      BY <1>3, <2>1 DEF Shapes, NothingLeftBehind, purge_account
  <2> QED BY <1>3, <2>1, <2>2, <2>3, <2>6, <2>7 DEF Shapes, OperationShape, GrantShape,
             DrainedBeforeErasure, purge_account
<1>4. CASE purge_failed(d)
  <2>1. DriverShape' /\ PurgeShape'
      BY <1>4 DEF Shapes, DriverShape, PurgeShape, MediaGone, Putting, TypeOK, purge_failed
  <2> QED BY <1>4, <2>1 DEF Shapes, OperationShape, GrantShape, UploadShape, Putting,
             NothingLeftBehind, DrainedBeforeErasure, purge_failed
<1>5. CASE finalize_account_deletion(d)
  <2>1. /\ billing_fenced
        /\ SoftDelete => MediaGone
        /\ tokens = {}
    <3>1. \A c \in tokens : FALSE
        BY <1>5 DEF Shapes, GrantShape, Finalizable, TypeOK, finalize_account_deletion
    <3> QED BY <1>5, <3>1 DEF Shapes, DriverShape, PurgeShape, TypeOK,
               finalize_account_deletion
  <2>2. DriverShape'
      BY <1>5, <2>1 DEF Shapes, DriverShape, TypeOK, finalize_account_deletion
  <2>3. OperationShape' /\ GrantShape' /\ DrainedBeforeErasure'
      BY <1>5, <2>1 DEF OperationShape, GrantShape, DrainedBeforeErasure,
         finalize_account_deletion
  <2>4. MediaGone => MediaGone'
      BY <1>5 DEF MediaGone, Putting, finalize_account_deletion
  <2>5. PurgeShape'
      BY <1>5, <2>4 DEF Shapes, PurgeShape, TypeOK, finalize_account_deletion
  <2>6. UploadShape' /\ NothingLeftBehind'
      BY <1>5, <2>1 DEF Shapes, UploadShape, MediaGone, NothingLeftBehind, Putting,
         finalize_account_deletion
  <2> QED BY <2>2, <2>3, <2>5, <2>6 DEF Shapes
<1>6. CASE finalize_failed(d)
  <2>1. DriverShape' /\ PurgeShape'
      BY <1>6 DEF Shapes, DriverShape, PurgeShape, MediaGone, Putting, TypeOK, finalize_failed
  <2> QED BY <1>6, <2>1 DEF Shapes, OperationShape, GrantShape, UploadShape, Putting,
             NothingLeftBehind, DrainedBeforeErasure, finalize_failed
<1> QED BY <1>1, <1>2, <1>3, <1>4, <1>5, <1>6

\* Only a sign-in recreates the account.
LEMMA RejoinedKept ==
    ASSUME WorkStep \/ UploadStep \/ (\E d \in Drivers : DriverStep(d)) PROVE rejoined' = rejoined
<1> USE DEF identity
<1>1. CASE WorkStep
    BY <1>1 DEF WorkStep, claim_send, settle_send, send_lapses, begin_invocation,
       settle_invocation, link_apple_identity
<1>2. CASE UploadStep
    BY <1>2 DEF UploadStep, capture_event, reserve_media_upload, put_current, commit_event,
       request_crash, intent_expires, soft_delete_expires
<1>3. ASSUME NEW d \in Drivers, DriverStep(d) PROVE rejoined' = rejoined
  <2>1. CASE delete_account(d) \/ reconcile(d) \/ driver_crash(d) \/ request_account_deletion(d)
             \/ account_deletion_preflight_complete(d) \/ settle_before_deletion(d)
             \/ settle_failed(d) \/ begin_account_deletion(d)
      BY <2>1 DEF delete_account, reconcile, driver_crash, request_account_deletion,
         account_deletion_preflight_complete, settle_before_deletion, settle_failed,
         begin_account_deletion
  <2>2. CASE update_account_deletion_status(d) \/ persist_deletion_status(d)
             \/ revoke_apple_before_content_delete(d) \/ revoke_failed(d)
             \/ purge_account(d) \/ purge_failed(d)
             \/ finalize_account_deletion(d) \/ finalize_failed(d)
      BY <2>2 DEF update_account_deletion_status, persist_deletion_status,
         revoke_apple_before_content_delete, revoke_failed, purge_account, purge_failed,
         finalize_account_deletion, finalize_failed
  <2> QED BY <1>3, <2>1, <2>2 DEF DriverStep
<1> QED BY <1>1, <1>2, <1>3

\* Every step keeps the invariant.
LEMMA NextInv == DeletionInv /\ [Next]_vars => DeletionInv'
<1> SUFFICES ASSUME DeletionInv, [Next]_vars PROVE DeletionInv'
    OBVIOUS
<1>1. TypeOK /\ (~rejoined => Shapes)
    BY DEF DeletionInv, Shapes
<1>2. TypeOK'
  <2>1. CASE UNCHANGED vars
      BY <1>1, <2>1 DEF TypeOK, vars, operation, work, grants, upload, media, identity, driver
  <2> QED BY <1>1, <2>1, TypeWork, TypeDriver DEF Next
<1>3. ASSUME ~rejoined' PROVE Shapes'
  <2>1. CASE WorkStep
      BY <1>1, <1>3, <2>1, RejoinedKept, WorkShapes
  <2>2. CASE UploadStep
      BY <1>1, <1>3, <2>2, RejoinedKept, UploadShapes
  <2>3. CASE SignInStep
    <3>1. ~rejoined
        BY <1>1, <1>3, <2>3 DEF TypeOK, SignInStep, deleted_account_or_identity, upsert_account
    <3> QED BY <1>1, <1>3, <2>3, <3>1, SignInShapes
  <2>4. ASSUME NEW d \in Drivers, DriverStep(d) PROVE Shapes'
    <3>1. ~rejoined
        BY <1>3, <2>4, RejoinedKept
    <3> QED BY <1>1, <2>4, <3>1, GateShapes, ErasureShapes DEF DriverStep
  <2>5. CASE UNCHANGED vars
      BY <1>1, <1>3, <2>5 DEF Shapes, DriverShape, OperationShape, GrantShape, UploadShape,
         PurgeShape, MediaGone, Putting, NothingLeftBehind, DrainedBeforeErasure, vars,
         operation, work, grants, upload, media, identity, driver
  <2> QED BY <2>1, <2>2, <2>3, <2>4, <2>5 DEF Next
<1> QED BY <1>2, <1>3 DEF DeletionInv, Shapes

\* The invariant of account deletion holds whatever handlers, reconcilers,
\* uploads and sign-ins do and wherever they crash.
THEOREM DeletionCorrect == Spec => []DeletionInv
<1> QED BY InitInv, NextInv, PTL DEF Spec

\* Every variable keeps its type: the rows hold the statuses and reasons the
\* drivers write, and no other.
THEOREM TypeCorrect == Spec => []TypeOK
<1>1. DeletionInv => TypeOK
    BY DEF DeletionInv
<1> QED BY <1>1, DeletionCorrect, PTL

\* finalize_account_deletion is never falsely complete: no token at Apple, and
\* nothing in a bucket that keeps deleted generations, survives the account.
THEOREM NeverFalselyComplete == Spec => []NothingLeftBehind
<1>1. DeletionInv => NothingLeftBehind
    BY DEF DeletionInv, NothingLeftBehind
<1> QED BY <1>1, DeletionCorrect, PTL

\* The gate by itself, whoever signs in: a driver past the settlement knows
\* that billing is fenced unless the account is a new one, and an account being
\* deleted is drained.
GateInv ==
    /\ \A d \in Drivers :
          pc[d] \in {"begin", "update", "revoke", "purge", "finalize", "persist"}
              => billing_fenced \/ rejoined
    /\ DrainedBeforeErasure

\* Steps outside the drivers admit nothing to an account that is being
\* deleted, and never lift the fence.
LEMMA GateWork ==
    ASSUME TypeOK, GateInv, WorkStep \/ UploadStep \/ SignInStep PROVE GateInv'
<1> USE DEF operation, work, grants, upload, media, identity, driver
<1>1. CASE WorkStep
    BY <1>1 DEF TypeOK, GateInv, DrainedBeforeErasure, WorkStep, claim_send, settle_send,
       send_lapses, begin_invocation, settle_invocation, link_apple_identity
<1>2. CASE UploadStep
    BY <1>2 DEF GateInv, DrainedBeforeErasure, UploadStep, capture_event,
       reserve_media_upload, put_current, commit_event, request_crash, intent_expires,
       soft_delete_expires
<1>3. CASE SignInStep
    BY <1>3 DEF GateInv, DrainedBeforeErasure, SignInStep, deleted_account_or_identity,
       upsert_account
<1> QED BY <1>1, <1>2, <1>3

\* A driver enters physical deletion only through begin_account_deletion.
LEMMA GateDriver ==
    ASSUME TypeOK, GateInv, NEW d \in Drivers, DriverStep(d) PROVE GateInv'
<1> USE DEF operation, work, grants, upload, media, identity, driver, Goto, Hold, Done
<1>1. CASE delete_account(d) \/ reconcile(d) \/ driver_crash(d) \/ request_account_deletion(d)
    BY <1>1 DEF TypeOK, GateInv, DrainedBeforeErasure, delete_account, reconcile,
       driver_crash, request_account_deletion
<1>2. CASE account_deletion_preflight_complete(d)
    BY <1>2 DEF TypeOK, GateInv, DrainedBeforeErasure, CleanIntents,
       recover_expired_provider_claims, account_deletion_preflight_complete
<1>3. CASE settle_before_deletion(d)
    BY <1>3 DEF TypeOK, GateInv, DrainedBeforeErasure, settle_before_deletion
<1>4. CASE settle_failed(d)
  <2>1. billing_fenced => billing_fenced'
      BY <1>4 DEF settle_failed
  <2>2. \A v \in Calls : vertex[v] # "started" => vertex'[v] # "started"
      BY <1>4 DEF settle_failed
  <2> QED BY <1>4, <2>1, <2>2 DEF TypeOK, GateInv, DrainedBeforeErasure, settle_failed
<1>5. CASE begin_account_deletion(d)
    BY <1>5 DEF TypeOK, GateInv, DrainedBeforeErasure, Beginnable, CleanIntents,
       refuse_open_provider_fences, refuse_started_vertex_invocations,
       refuse_active_media_uploads, begin_account_deletion
<1>6. CASE update_account_deletion_status(d) \/ persist_deletion_status(d)
           \/ revoke_apple_before_content_delete(d) \/ revoke_failed(d)
    BY <1>6 DEF TypeOK, GateInv, DrainedBeforeErasure, update_account_deletion_status,
       persist_deletion_status, revoke_apple_before_content_delete, revoke_failed, AfterRevoke
<1>7. CASE purge_account(d) \/ purge_failed(d)
    BY <1>7 DEF TypeOK, GateInv, DrainedBeforeErasure, purge_account, purge_failed
<1>8. CASE finalize_account_deletion(d) \/ finalize_failed(d)
    BY <1>8 DEF TypeOK, GateInv, DrainedBeforeErasure, finalize_account_deletion,
       finalize_failed
<1> QED BY <1>1, <1>2, <1>3, <1>4, <1>5, <1>6, <1>7, <1>8 DEF DriverStep

\* begin_account_deletion admits an account to physical deletion only drained
\* and fenced, and nothing is admitted afterwards; a sign-in changes nothing of it but
\* the billing fence, which an account created anew does not have.
THEOREM ErasureWaits == Spec => []DrainedBeforeErasure
<1>1. Init => GateInv
    BY DEF Init, GateInv, DrainedBeforeErasure
<1>2. TypeOK /\ GateInv /\ [Next]_vars => GateInv'
  <2> SUFFICES ASSUME TypeOK, GateInv, [Next]_vars PROVE GateInv'
      OBVIOUS
  <2>1. CASE UNCHANGED vars
      BY <2>1 DEF GateInv, DrainedBeforeErasure, vars, operation, work, grants, upload,
         media, identity, driver
  <2> QED BY <2>1, GateWork, GateDriver DEF Next
<1>3. GateInv => DrainedBeforeErasure
    BY DEF GateInv
<1> QED BY <1>1, <1>2, <1>3, TypeCorrect, PTL DEF Spec
=============================================================================
