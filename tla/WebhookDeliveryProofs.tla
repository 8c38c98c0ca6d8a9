----------------------- MODULE WebhookDeliveryProofs -----------------------
(***************************************************************************)
(* Proofs about the webhook outbox, for every set of accounts, memories,   *)
(* destinations and workers.                                               *)
(***************************************************************************)
EXTENDS WebhookDelivery, TLAPS

USE DEF Waiting, Open, Settled, RowState

\* A row belongs to one account, through its memory and its destination.
LEMMA RowFacts ==
    ASSUME NEW r \in Rows
    PROVE  /\ Ep(r) \in Episodes /\ Sub(r) \in Subs
           /\ Acct(r) \in Accounts /\ SubAccount[Sub(r)] = Acct(r)
BY AccountAssumption DEF Rows, Ep, Sub, Acct

\* The first state satisfies the invariant.
LEMMA InitInv == Init => OutboxInv
<1> SUFFICES ASSUME Init PROVE OutboxInv
    OBVIOUS
<1>1. TypeOK
  <2>1. wacct \in [Workers -> Accounts]
    <3> DEFINE first == CHOOSE a \in Accounts : TRUE
    <3>1. first \in Accounts
        BY AccountAssumption
    <3>2. wacct = [w \in Workers |-> first]
        BY DEF Init
    <3> HIDE DEF first
    <3> QED BY <3>1, <3>2
  <2>2. /\ account \in [Accounts -> AccountStatus]
        /\ sub \in [Subs -> SubStatus]
        /\ route \in [Subs -> {"idle", "disabled", "cancelled"}]
        /\ episode \in [Episodes -> EpisodeStatus]
        /\ pc \in [Workers -> PC]
        /\ wresult \in [Workers -> SendResult]
        /\ state \in [Rows -> RowState]
        /\ dest \in [Episodes -> SUBSET Subs]
        /\ wrow \in [Workers -> Rows \cup {NoRow}]
      BY DEF Init, AccountStatus, SubStatus, EpisodeStatus, PC, SendResult
  <2>3. /\ revision \in [Episodes -> 1..MaxRevision]
        /\ finalized \in [Episodes -> 0..MaxRevision]
        /\ born \in [Episodes -> Nat] /\ clock \in Nat
        /\ enqueued \in [Episodes -> Nat]
        /\ attempt_count \in [Rows -> 0..MAX_ATTEMPTS]
        /\ claim_token \in [Rows -> Nat]
        /\ completed_claim_token \in [Rows -> Nat]
        /\ frozen \in [Rows -> 0..MaxRevision]
        /\ fence \in [Rows -> Nat]
        /\ owner_token \in Nat /\ issued \in Nat
        /\ wattempt \in [Workers -> 0..MAX_ATTEMPTS]
        /\ wrev \in [Workers -> 0..MaxRevision]
        /\ wtoken \in [Workers -> Nat]
        /\ acted \in [Rows -> Nat]
      BY BoundAssumption DEF Init
  <2>4. /\ due \in [Rows -> BOOLEAN]
        /\ aged \in [Rows -> BOOLEAN]
        /\ lapsed \in [Rows -> BOOLEAN]
        /\ cooling \in BOOLEAN
      BY DEF Init
  <2> QED BY <2>1, <2>2, <2>3, <2>4
        DEF TypeOK, ConfigType, MemoryType, ClaimsType, RestType, WorkerType, ActedType
<1> USE DEF Init
<1>2. ClaimShape /\ FenceShape /\ HolderShape /\ ActedShape /\ EnqueueShape
    BY RowFacts DEF ClaimShape, FenceShape, HolderShape, ActedShape, EnqueueShape
<1>3. AtMostOnce /\ HonestOutcome /\ RevocationDrains /\ AttemptCap
    BY RowFacts DEF AtMostOnce, HonestOutcome, RevocationDrains, AttemptCap
<1> QED BY <1>1, <1>2, <1>3 DEF OutboxInv

\* Recovery finds the fence of every expired claim: it gives the row up and
\* never puts it back in the queue.
LEMMA RecoveryGivesUp ==
    ASSUME OutboxInv, NEW a \in Accounts
    PROVE  /\ \A r \in Rows : Expired(a, r) => Disclosed(r)
           /\ RecoveredState(a) = [r \in Rows |-> IF Expired(a, r) THEN "ambiguous" ELSE state[r]]
           /\ RecoveredFence(a) = [r \in Rows |-> IF Expired(a, r) THEN 0 ELSE fence[r]]
           /\ RecoveredState(a) \in [Rows -> RowState]
           /\ RecoveredFence(a) \in [Rows -> Nat]
           /\ RecoveredOwner(a) \in Nat /\ RecoveredOwner(a) <= issued
           /\ \A r \in Rows : RecoveredFence(a)[r] # 0 =>
                 /\ RecoveredFence(a)[r] = RecoveredOwner(a)
                 /\ RecoveredState(a)[r] \in {"processing", "erased"}
<1>1. \A r \in Rows : Expired(a, r) => Disclosed(r)
    BY DEF OutboxInv, ClaimShape, Expired, Disclosed
<1>2. RecoveredState(a) = [r \in Rows |-> IF Expired(a, r) THEN "ambiguous" ELSE state[r]]
    BY <1>1 DEF RecoveredState
<1>3. RecoveredFence(a) = [r \in Rows |-> IF Expired(a, r) THEN 0 ELSE fence[r]]
    BY <1>1 DEF RecoveredFence
<1>4. RecoveredState(a) \in [Rows -> RowState]
    BY <1>2 DEF OutboxInv, TypeOK, ClaimsType
<1>5. RecoveredFence(a) \in [Rows -> Nat]
    BY <1>3 DEF OutboxInv, TypeOK, ClaimsType
<1>6. RecoveredOwner(a) \in Nat /\ RecoveredOwner(a) <= issued
    BY DEF RecoveredOwner, OutboxInv, TypeOK, ClaimsType, FenceShape
<1>7. ASSUME NEW r \in Rows, RecoveredFence(a)[r] # 0
      PROVE  /\ RecoveredFence(a)[r] = RecoveredOwner(a)
             /\ RecoveredState(a)[r] \in {"processing", "erased"}
  <2>1. ~Expired(a, r) /\ fence[r] # 0
      BY <1>3, <1>7
  <2>2. ASSUME NEW q \in Rows, Expired(a, q), claim_token[q] = owner_token
        PROVE FALSE
    <3>1. fence[q] = claim_token[q] /\ fence[q] # 0
        BY <2>2 DEF OutboxInv, ClaimShape, Expired
    <3>2. q = r
        BY <3>1, <2>1 DEF OutboxInv, FenceShape
    <3> QED BY <3>2, <2>1, <2>2
  <2> QED BY <2>1, <2>2, <1>2, <1>3 DEF RecoveredOwner, OutboxInv, FenceShape
<1> QED BY <1>1, <1>2, <1>3, <1>4, <1>5, <1>6, <1>7

\* The columns a worker step may leave alone keep their part of the invariant.
LEMMA WorkerOnly ==
    ASSUME OutboxInv, UNCHANGED <<config, memory, claims, rest, cooling, issued, acted>>
    PROVE  /\ ConfigType' /\ MemoryType' /\ ClaimsType' /\ RestType' /\ ActedType'
           /\ ClaimShape' /\ FenceShape' /\ EnqueueShape'
           /\ (\A r \in Rows : state[r] = "absent" => acted[r] = 0)'
           /\ AtMostOnce' /\ HonestOutcome' /\ RevocationDrains' /\ AttemptCap'
<1> USE DEF config, memory, claims, rest
<1>1. ConfigType' /\ MemoryType' /\ ClaimsType' /\ RestType' /\ ActedType'
    BY DEF OutboxInv, TypeOK, ConfigType, MemoryType, ClaimsType, RestType, ActedType
<1>2. ClaimShape' /\ FenceShape' /\ EnqueueShape' /\ (\A r \in Rows : state[r] = "absent" => acted[r] = 0)'
    BY DEF OutboxInv, ClaimShape, FenceShape, EnqueueShape, ActedShape
<1>3. AtMostOnce' /\ HonestOutcome' /\ RevocationDrains' /\ AttemptCap'
    BY DEF OutboxInv, AtMostOnce, HonestOutcome, RevocationDrains, AttemptCap
<1> QED BY <1>1, <1>2, <1>3

\* An idle worker holds nothing.
LEMMA ResetFacts ==
    ASSUME OutboxInv, NEW w \in Workers, ResetWorker(w)
    PROVE  /\ WorkerType'
           /\ pc'[w] = "idle"
           /\ \A v \in Workers \ {w} : /\ pc'[v] = pc[v] /\ wrow'[v] = wrow[v]
                                       /\ wattempt'[v] = wattempt[v]
                                       /\ wtoken'[v] = wtoken[v]
                                       /\ wresult'[v] = wresult[v]
BY BoundAssumption
DEF OutboxInv, TypeOK, WorkerType, ResetWorker, PC, SendResult

\* What a worker past its claim knows.
LEMMA HolderFacts ==
    ASSUME OutboxInv, NEW w \in Workers, pc[w] \in {"send", "settle"}
    PROVE  /\ wrow[w] \in Rows
           /\ wattempt[w] \in Nat /\ wattempt[w] < MAX_ATTEMPTS
           /\ wresult[w] \in SendResult
           /\ acted[wrow[w]] \in Nat
           /\ state[wrow[w]] \in {"processing", "ambiguous", "erased"}
           /\ \A v \in Workers \ {w} : pc[v] \in {"send", "settle"} => wrow[v] # wrow[w]
BY DEF OutboxInv, TypeOK, WorkerType, ActedType, HolderShape

\* A sweep only moves the worker.
LEMMA SweepInv ==
    ASSUME OutboxInv, NEW w \in Workers, NEW a \in Accounts, sweep(w, a)
    PROVE  OutboxInv'
<1> USE DEF sweep
<1>1. WorkerType'
    BY DEF OutboxInv, TypeOK, WorkerType, PC
<1>2. HolderShape' /\ ActedShape'
    BY WorkerOnly DEF OutboxInv, TypeOK, WorkerType, HolderShape, ActedShape, claims, rest
<1> QED BY <1>1, <1>2, WorkerOnly DEF OutboxInv, TypeOK

\* A refused claim or settlement, like a crash before the send, loses only
\* what the worker remembered.
LEMMA ForgetInv ==
    ASSUME OutboxInv, NEW w \in Workers, ResetWorker(w),
           UNCHANGED <<config, memory, claims, rest, cooling, issued, acted>>
    PROVE  OutboxInv'
<1>1. WorkerType'
    BY ResetFacts
<1>2. HolderShape' /\ ActedShape'
    BY ResetFacts, WorkerOnly DEF OutboxInv, HolderShape, ActedShape, claims, rest
<1> QED BY <1>1, <1>2, WorkerOnly DEF OutboxInv, TypeOK

\* A refused claim: the worker waits out the pace, or forgets the candidate.
LEMMA ClaimRefusedInv ==
    ASSUME OutboxInv, NEW w \in Workers, claim_refused(w)
    PROVE  OutboxInv'
<1> USE DEF claim_refused
<1>1. CASE ResetWorker(w)
    BY <1>1, ForgetInv
<1>2. CASE /\ pc[w] = "claim"
           /\ pc' = [pc EXCEPT ![w] = "claim_again"]
           /\ UNCHANGED <<wacct, wrow, wattempt, wrev, wtoken, wresult>>
  <2>1. WorkerType'
      BY <1>2 DEF OutboxInv, TypeOK, WorkerType, PC
  <2>2. HolderShape' /\ ActedShape'
      BY <1>2, WorkerOnly DEF OutboxInv, TypeOK, WorkerType, HolderShape, ActedShape, claims, rest
  <2> QED BY <2>1, <2>2, WorkerOnly DEF OutboxInv, TypeOK
<1> QED BY <1>1, <1>2

\* The receiver may act once on the request of the row's only holder.
LEMMA ActsOnce ==
    ASSUME OutboxInv, NEW w \in Workers, pc[w] = "send",
           acted' = [acted EXCEPT ![wrow[w]] = @ + 1],
           UNCHANGED <<config, memory, claims, rest, cooling, issued>>
    PROVE  /\ ConfigType' /\ MemoryType' /\ ClaimsType' /\ RestType' /\ ActedType'
           /\ ClaimShape' /\ FenceShape' /\ EnqueueShape'
           /\ acted'[wrow[w]] = 1
           /\ \A r \in Rows \ {wrow[w]} : acted'[r] = acted[r]
           /\ (\A r \in Rows : state[r] = "absent" => acted[r] = 0)'
           /\ AtMostOnce' /\ HonestOutcome' /\ RevocationDrains' /\ AttemptCap'
<1> USE DEF config, memory, claims, rest
<1>0. /\ acted[wrow[w]] = 0 /\ wrow[w] \in Rows
      /\ acted \in [Rows -> Nat]
      /\ state[wrow[w]] \in {"processing", "ambiguous", "erased"}
    BY HolderFacts DEF OutboxInv, ActedShape, TypeOK, ActedType
<1>1. ActedType' /\ acted'[wrow[w]] = 1 /\ \A r \in Rows \ {wrow[w]} : acted'[r] = acted[r]
    BY <1>0 DEF ActedType
<1>2. ConfigType' /\ MemoryType' /\ ClaimsType' /\ RestType'
    BY DEF OutboxInv, TypeOK, ConfigType, MemoryType, ClaimsType, RestType
<1>3. ClaimShape' /\ FenceShape' /\ EnqueueShape'
    BY DEF OutboxInv, ClaimShape, FenceShape, EnqueueShape
<1>4. (\A r \in Rows : state[r] = "absent" => acted[r] = 0)'
    BY <1>0, <1>1 DEF OutboxInv, ActedShape
<1>5. AtMostOnce' /\ HonestOutcome'
    BY <1>0, <1>1 DEF OutboxInv, AtMostOnce, HonestOutcome
<1>6. RevocationDrains' /\ AttemptCap'
    BY DEF OutboxInv, RevocationDrains, AttemptCap
<1> QED BY <1>1, <1>2, <1>3, <1>4, <1>5, <1>6

\* A crash during the send loses the answer, never the count.
LEMMA CrashInv ==
    ASSUME OutboxInv, NEW w \in Workers, crash(w)
    PROVE  OutboxInv'
<1> USE DEF crash
<1>1. CASE acted' = acted
    BY <1>1, ForgetInv
<1>2. CASE pc[w] = "send" /\ acted' = [acted EXCEPT ![wrow[w]] = @ + 1]
  <2>1. WorkerType'
      BY ResetFacts
  <2>2. HolderShape'
      BY ResetFacts DEF OutboxInv, HolderShape, claims, rest
  <2>3. ActedShape'
    <3>1. \A v \in Workers : pc'[v] \in {"send", "settle"} =>
             wrow'[v] \in Rows \ {wrow[w]} /\ acted'[wrow'[v]] = acted[wrow[v]]
        BY <1>2, ResetFacts, HolderFacts, ActsOnce DEF OutboxInv, HolderShape
    <3>2. (\A r \in Rows : state[r] = "absent" => acted[r] = 0)'
        BY <1>2, ActsOnce
    <3>3. \A v \in Workers : pc'[v] \in {"send", "settle"} =>
             pc'[v] = pc[v] /\ wresult'[v] = wresult[v]
        BY ResetFacts
    <3> QED BY <3>1, <3>2, <3>3 DEF OutboxInv, ActedShape
  <2> QED BY <1>2, <2>1, <2>2, <2>3, ActsOnce DEF OutboxInv, TypeOK
<1> QED BY <1>1, <1>2

\* A send moves the worker and what the receiver may have done.
LEMMA SendInv ==
    ASSUME OutboxInv, NEW w \in Workers, NEW result \in SendResult, send(w, result)
    PROVE  OutboxInv'
<1> USE DEF send
<1>0. /\ WorkerType' /\ wrow' = wrow /\ wattempt' = wattempt /\ wtoken' = wtoken
      /\ pc'[w] = "settle" /\ wresult'[w] = result
      /\ \A v \in Workers \ {w} : pc'[v] = pc[v] /\ wresult'[v] = wresult[v]
    BY DEF OutboxInv, TypeOK, WorkerType, PC
<1>1. HolderShape'
    BY <1>0 DEF OutboxInv, HolderShape, claims, rest
<1>2. CASE result \in {"accepted", "lost"}
  <2>1. ActedShape'
    <3>1. \A v \in Workers \ {w} : pc'[v] \in {"send", "settle"} =>
             wrow'[v] \in Rows \ {wrow[w]} /\ acted'[wrow'[v]] = acted[wrow[v]]
        BY <1>0, <1>2, HolderFacts, ActsOnce DEF OutboxInv, HolderShape
    <3> QED BY <1>0, <1>2, <3>1, ActsOnce DEF OutboxInv, ActedShape
  <2> QED BY <1>0, <1>1, <1>2, <2>1, ActsOnce DEF OutboxInv, TypeOK
<1>3. CASE result \notin {"accepted", "lost"}
  <2>1. ActedShape'
      BY <1>0, <1>3, WorkerOnly DEF OutboxInv, ActedShape
  <2> QED BY <1>0, <1>1, <1>3, <2>1, WorkerOnly DEF OutboxInv, TypeOK
<1> QED BY <1>2, <1>3

\* A settlement is written under the claim that owns the lane, and the row
\* then shows what the receiver answered.
LEMMA SettleInv ==
    ASSUME OutboxInv, NEW w \in Workers, settle_webhook(w)
    PROVE  OutboxInv'
<1> DEFINE r == wrow[w]
           outcome == classify_webhook_transport_result(wresult[w], wattempt[w] + 1)
<1> USE DEF settle_webhook
<1>1. /\ r \in Rows /\ state[r] = "processing" /\ state \in [Rows -> RowState]
      /\ claim_token[r] = wtoken[w] /\ fence[r] = wtoken[w] /\ wtoken[w] # 0
      /\ owner_token = wtoken[w] /\ attempt_count[r] = wattempt[w] + 1
      /\ wattempt[w] \in Nat /\ wattempt[w] < MAX_ATTEMPTS
    BY HolderFacts DEF OutboxInv, TypeOK, ClaimsType, WorkerType, Authoritative,
       ClaimShape, FenceShape, HolderShape
<1>2. /\ outcome \in {"delivered", "ambiguous", "failed", "retry_wait"}
      /\ outcome = "delivered" => acted[r] = 1
      /\ outcome \in {"failed", "retry_wait"} => acted[r] = 0
      /\ outcome = "retry_wait" => attempt_count[r] < MAX_ATTEMPTS
  <2>1. acted[r] = IF wresult[w] \in {"accepted", "lost"} THEN 1 ELSE 0
      BY DEF OutboxInv, ActedShape
  <2>2. wresult[w] \in {"accepted", "transient", "rejected", "lost"}
      BY HolderFacts DEF SendResult
  <2> QED BY <1>1, <2>1, <2>2, BoundAssumption DEF classify_webhook_transport_result
<1>3. /\ state' = [state EXCEPT ![r] = outcome] /\ state'[r] = outcome
      /\ \A q \in Rows \ {r} : state'[q] = state[q]
    BY <1>1 DEF settle_webhook
<1> HIDE DEF r, outcome
<1>4. /\ claim_token' = [claim_token EXCEPT ![r] = 0]
      /\ completed_claim_token' = [completed_claim_token EXCEPT ![r] = wtoken[w]]
      /\ lapsed' = [lapsed EXCEPT ![r] = FALSE]
      /\ due' = [due EXCEPT ![r] = outcome # "retry_wait"]
      /\ fence' = [fence EXCEPT ![r] = 0]
      /\ owner_token' = 0 /\ cooling' = TRUE
      /\ ResetWorker(w)
      /\ UNCHANGED <<config, memory, attempt_count, frozen, aged, issued, acted>>
    BY <1>1 DEF r, outcome
<1>5. TypeOK'
  <2>1. ConfigType' /\ MemoryType' /\ ActedType'
      BY <1>4 DEF OutboxInv, TypeOK, ConfigType, MemoryType, ActedType, config, memory
  <2>2. ClaimsType'
      BY <1>1, <1>2, <1>3, <1>4 DEF OutboxInv, TypeOK, ClaimsType, WorkerType
  <2>3. RestType'
      BY <1>4 DEF OutboxInv, TypeOK, RestType
  <2>4. WorkerType'
      BY <1>4, ResetFacts
  <2> QED BY <2>1, <2>2, <2>3, <2>4 DEF TypeOK
<1>6. ClaimShape'
    BY <1>1, <1>2, <1>3, <1>4 DEF OutboxInv, TypeOK, ClaimsType, ClaimShape
<1>7. FenceShape'
    BY <1>1, <1>2, <1>3, <1>4 DEF OutboxInv, TypeOK, ClaimsType, FenceShape
<1>8. \A v \in Workers : pc'[v] \in {"send", "settle"} =>
          v # w /\ wrow[v] # r /\ wrow[v] \in Rows /\ wrow'[v] = wrow[v]
    BY <1>4, ResetFacts, HolderFacts DEF OutboxInv, HolderShape, r
<1>9. HolderShape'
    BY <1>3, <1>4, <1>8, ResetFacts DEF OutboxInv, HolderShape, TypeOK, ClaimsType
<1>10. ActedShape'
    BY <1>2, <1>3, <1>4, <1>8, ResetFacts DEF OutboxInv, ActedShape
<1>11. EnqueueShape'
    BY <1>1, <1>2, <1>3, <1>4 DEF OutboxInv, EnqueueShape, memory
<1>12. AtMostOnce' /\ HonestOutcome' /\ AttemptCap'
    BY <1>1, <1>2, <1>3, <1>4 DEF OutboxInv, AtMostOnce, HonestOutcome, AttemptCap
<1>13. RevocationDrains'
    BY <1>1, <1>2, <1>3, <1>4 DEF OutboxInv, RevocationDrains, TypeOK, ClaimsType, config
<1> QED BY <1>5, <1>6, <1>7, <1>9, <1>10, <1>11, <1>12, <1>13 DEF OutboxInv

\* A refused settlement changes nothing but the worker.
LEMMA SettleRefusedInv ==
    ASSUME OutboxInv, NEW w \in Workers, settle_refused(w)
    PROVE  OutboxInv'
BY ForgetInv DEF settle_refused

\* A transaction that recovers expired claims and withdraws waiting rows, and
\* does nothing else to the outbox, keeps the outbox in shape.
LEMMA RecoveryInv ==
    ASSUME OutboxInv, NEW a \in Accounts, recover_expired_webhook_claims(a),
           state' \in [Rows -> RowState],
           \A r \in Rows :
              IF Expired(a, r) THEN state'[r] = "ambiguous"
              ELSE \/ state'[r] = state[r]
                   \/ state[r] \in Waiting /\ state'[r] \in {"cancelled", "failed"},
           UNCHANGED <<account, sub, memory, rest, cooling, issued, acted>>
    PROVE  /\ MemoryType' /\ ClaimsType' /\ RestType' /\ ActedType'
           /\ ClaimShape' /\ FenceShape' /\ EnqueueShape'
           /\ (\A r \in Rows : state[r] = "absent" => acted[r] = 0)'
           /\ AtMostOnce' /\ HonestOutcome' /\ RevocationDrains' /\ AttemptCap'
           /\ \A r \in Rows : state[r] \in {"processing", "ambiguous", "erased"} =>
                 /\ state'[r] \in {"processing", "ambiguous", "erased"}
                 /\ state'[r] = "processing" =>
                       state[r] = "processing" /\ claim_token'[r] = claim_token[r]
<1>1. MemoryType' /\ RestType' /\ ActedType'
    BY DEF OutboxInv, TypeOK, MemoryType, RestType, ActedType, memory, rest
<1>2. /\ claim_token' = [r \in Rows |-> IF Expired(a, r) THEN 0 ELSE claim_token[r]]
      /\ completed_claim_token' =
           [r \in Rows |-> IF Expired(a, r) THEN claim_token[r] ELSE completed_claim_token[r]]
      /\ lapsed' = [r \in Rows |-> lapsed[r] /\ ~Expired(a, r)]
      /\ fence' = RecoveredFence(a) /\ owner_token' = RecoveredOwner(a)
    BY DEF recover_expired_webhook_claims
<1>3. /\ state \in [Rows -> RowState] /\ claim_token \in [Rows -> Nat]
      /\ completed_claim_token \in [Rows -> Nat] /\ fence \in [Rows -> Nat]
      /\ owner_token \in Nat /\ issued \in Nat
    BY DEF OutboxInv, TypeOK, ClaimsType
<1>4. ClaimsType'
  <2>1. lapsed' \in [Rows -> BOOLEAN]
      BY <1>2
  <2> QED BY <1>2, <1>3, <2>1, RecoveryGivesUp DEF ClaimsType
<1>5. ASSUME NEW r \in Rows
      PROVE  /\ claim_token'[r] = IF Expired(a, r) THEN 0 ELSE claim_token[r]
             /\ fence'[r] = IF Expired(a, r) THEN 0 ELSE fence[r]
             /\ Expired(a, r) => state[r] = "processing"
    BY <1>2, RecoveryGivesUp DEF Expired
<1>6. ClaimShape'
    BY <1>3, <1>5 DEF OutboxInv, ClaimShape
<1>7. FenceShape'
  <2>1. owner_token' <= issued'
      BY <1>2, RecoveryGivesUp
  <2>2. ASSUME NEW r \in Rows, fence'[r] # 0
        PROVE  fence'[r] = owner_token' /\ state'[r] \in {"processing", "erased"}
    <3>1. ~Expired(a, r) /\ fence[r] # 0
        BY <2>2, <1>5
    <3>2. state[r] \in {"processing", "erased"}
        BY <3>1 DEF OutboxInv, FenceShape
    <3> QED BY <1>2, <2>2, <3>1, <3>2, RecoveryGivesUp
  <2>3. \A q, r \in Rows : fence'[q] # 0 /\ fence'[r] # 0 => q = r
      BY <1>5 DEF OutboxInv, FenceShape
  <2> QED BY <2>1, <2>2, <2>3 DEF FenceShape
<1>8. EnqueueShape'
    BY <1>3, <1>5, RowFacts DEF OutboxInv, EnqueueShape, memory, rest
<1>9. (\A r \in Rows : state[r] = "absent" => acted[r] = 0)'
    BY <1>5 DEF OutboxInv, ActedShape
<1>10. AtMostOnce' /\ HonestOutcome' /\ AttemptCap'
    BY <1>5 DEF OutboxInv, AtMostOnce, HonestOutcome, AttemptCap, rest
<1>11. RevocationDrains'
    BY <1>5 DEF OutboxInv, RevocationDrains
<1>12. \A r \in Rows : state[r] \in {"processing", "ambiguous", "erased"} =>
          /\ state'[r] \in {"processing", "ambiguous", "erased"}
          /\ state'[r] = "processing" =>
                state[r] = "processing" /\ claim_token'[r] = claim_token[r]
    BY <1>5
<1> QED BY <1>1, <1>4, <1>6, <1>7, <1>8, <1>9, <1>10, <1>11, <1>12

\* The housekeeping of a sweep withdraws only waiting rows.
LEMMA SweptFacts ==
    ASSUME OutboxInv, NEW a \in Accounts
    PROVE  /\ SweptState(a) \in [Rows -> RowState]
           /\ \A r \in Rows :
                 IF Expired(a, r) THEN SweptState(a)[r] = "ambiguous"
                 ELSE \/ SweptState(a)[r] = state[r]
                      \/ state[r] \in Waiting /\ SweptState(a)[r] \in {"cancelled", "failed"}
<1>1. \A r \in Rows : RecoveredState(a)[r] = IF Expired(a, r) THEN "ambiguous" ELSE state[r]
    BY RecoveryGivesUp
<1>2. RecoveredState(a) \in [Rows -> RowState]
    BY RecoveryGivesUp
<1> QED BY <1>1, <1>2 DEF SweptState

\* Choosing a candidate.
LEMMA NextCandidateInv ==
    ASSUME OutboxInv, NEW w \in Workers, next_webhook_candidate(w)
    PROVE  OutboxInv'
<1> DEFINE a == wacct[w]
<1>1. a \in Accounts
    BY DEF OutboxInv, TypeOK, WorkerType
<1> HIDE DEF a
<1>2. /\ recover_expired_webhook_claims(a) /\ state' = SweptState(a)
      /\ UNCHANGED <<config, memory, rest, cooling, issued, acted>>
      /\ \/ ResetWorker(w)
         \/ \E r \in Selected(a, SweptState(a)) :
             /\ pc' = [pc EXCEPT ![w] = "claim"]
             /\ wrow' = [wrow EXCEPT ![w] = r]
             /\ wattempt' = [wattempt EXCEPT ![w] = attempt_count[r]]
             /\ wrev' = [wrev EXCEPT ![w] = revision[Ep(r)]]
             /\ UNCHANGED <<wacct, wtoken, wresult>>
    BY DEF next_webhook_candidate, a
<1>3. UNCHANGED <<account, sub, memory, rest, cooling, issued, acted>>
    BY <1>2 DEF config
<1>4. ConfigType'
    BY <1>2 DEF OutboxInv, TypeOK, ConfigType, config
<1> DEFINE Moved ==
      /\ WorkerType'
      /\ pc'[w] \in {"idle", "claim"} /\ (pc'[w] = "claim" => wrow'[w] \in Rows)
      /\ \A v \in Workers \ {w} : /\ pc'[v] = pc[v] /\ wrow'[v] = wrow[v]
                                  /\ wattempt'[v] = wattempt[v]
                                  /\ wtoken'[v] = wtoken[v]
                                  /\ wresult'[v] = wresult[v]
<1>5. Moved
  <2>1. CASE ResetWorker(w)
      BY <2>1, ResetFacts
  <2>2. ASSUME NEW r \in Selected(a, SweptState(a)),
               /\ pc' = [pc EXCEPT ![w] = "claim"]
               /\ wrow' = [wrow EXCEPT ![w] = r]
               /\ wattempt' = [wattempt EXCEPT ![w] = attempt_count[r]]
               /\ wrev' = [wrev EXCEPT ![w] = revision[Ep(r)]]
               /\ UNCHANGED <<wacct, wtoken, wresult>>
        PROVE  Moved
    <3>1. r \in Rows
        BY DEF Selected, Candidates
    <3>2. attempt_count[r] \in 0..MAX_ATTEMPTS
        BY <3>1 DEF OutboxInv, TypeOK, RestType
    <3>3. revision[Ep(r)] \in 0..MaxRevision
        BY <3>1, RowFacts, BoundAssumption DEF OutboxInv, TypeOK, MemoryType
    <3> QED BY <2>2, <3>1, <3>2, <3>3 DEF OutboxInv, TypeOK, WorkerType, PC
  <2> QED BY <1>2, <2>1, <2>2
<1>6. HolderShape'
  <2>1. \A v \in Workers : pc'[v] \in {"send", "settle"} => v # w
      BY <1>5
  <2> QED BY <1>1, <1>2, <1>3, <1>5, <2>1, RecoveryInv, SweptFacts
          DEF OutboxInv, HolderShape, rest
<1>7. ActedShape'
    BY <1>1, <1>2, <1>3, <1>5, RecoveryInv, SweptFacts DEF OutboxInv, ActedShape
<1> QED BY <1>1, <1>2, <1>3, <1>4, <1>5, <1>6, <1>7, RecoveryInv, SweptFacts DEF OutboxInv, TypeOK

\* Claiming a row: the lane was free, so nothing else was in processing once
\* the account's expired claims were recovered, and no worker holds the row.
LEMMA ClaimInv ==
    ASSUME OutboxInv, NEW w \in Workers, claim_webhook(w)
    PROVE  OutboxInv'
<1> DEFINE r == wrow[w]
           a == Acct(r)
           token == issued + 1
<1>1. r \in Rows
    BY DEF claim_webhook, OutboxInv, HolderShape
<1>2. a \in Accounts /\ token \in Nat \ {0} /\ issued \in Nat
    BY <1>1, RowFacts DEF OutboxInv, TypeOK, ClaimsType
<1> HIDE DEF r, a, token
<1>3. /\ pc[w] \in {"claim", "claim_again"} /\ wattempt[w] < MAX_ATTEMPTS
      /\ RecoveredOwner(a) = 0 /\ RecoveredState(a)[r] \in Waiting
      /\ account[a] = "active" /\ sub[Sub(r)] = "enabled" /\ Acct(r) = a
      /\ attempt_count[r] = wattempt[w]
      /\ issued' = token
      /\ state' = [RecoveredState(a) EXCEPT ![r] = "processing"]
      /\ attempt_count' = [attempt_count EXCEPT ![r] = wattempt[w] + 1]
      /\ claim_token' = [q \in Rows |-> IF q = r THEN token
                           ELSE IF Expired(a, q) THEN 0 ELSE claim_token[q]]
      /\ completed_claim_token' = [q \in Rows |-> IF q = r THEN 0
                           ELSE IF Expired(a, q) THEN claim_token[q]
                           ELSE completed_claim_token[q]]
      /\ lapsed' = [q \in Rows |-> IF q = r THEN FALSE
                                   ELSE lapsed[q] /\ ~Expired(a, q)]
      /\ frozen' = [frozen EXCEPT ![r] = wrev[w]]
      /\ fence' = [RecoveredFence(a) EXCEPT ![r] = token]
      /\ owner_token' = token
      /\ pc' = [pc EXCEPT ![w] = "send"]
      /\ wtoken' = [wtoken EXCEPT ![w] = token]
      /\ UNCHANGED <<config, memory, due, aged, cooling, wacct, wrow,
                     wattempt, wrev, wresult, acted>>
    BY DEF claim_webhook, Claimable, LaneAvailable, Authorized, r, a, token
<1>4. \A q \in Rows : /\ RecoveredFence(a)[q] = 0
                      /\ RecoveredState(a)[q] = IF Expired(a, q) THEN "ambiguous" ELSE state[q]
                      /\ RecoveredState(a)[q] # "processing"
                      /\ Expired(a, q) => state[q] = "processing"
  <2>1. \A q \in Rows : RecoveredFence(a)[q] = 0
      BY <1>2, <1>3, RecoveryGivesUp
  <2>2. \A q \in Rows : RecoveredFence(a)[q] = IF Expired(a, q) THEN 0 ELSE fence[q]
      BY <1>2, RecoveryGivesUp
  <2>3. \A q \in Rows : RecoveredState(a)[q] = IF Expired(a, q) THEN "ambiguous" ELSE state[q]
      BY <1>2, RecoveryGivesUp
  <2> QED BY <2>1, <2>2, <2>3 DEF OutboxInv, ClaimShape, Expired
<1>5. RecoveredState(a) \in [Rows -> RowState] /\ RecoveredFence(a) \in [Rows -> Nat]
    BY <1>2, RecoveryGivesUp
<1>6. /\ state[r] \in Waiting /\ ~Expired(a, r) /\ acted[r] = 0
    BY <1>1, <1>3, <1>4 DEF OutboxInv, HonestOutcome
<1>7. /\ state'[r] = "processing" /\ fence'[r] = token /\ claim_token'[r] = token
      /\ \A q \in Rows \ {r} :
            /\ state'[q] = IF Expired(a, q) THEN "ambiguous" ELSE state[q]
            /\ state'[q] # "processing" /\ fence'[q] = 0
            /\ claim_token'[q] = IF Expired(a, q) THEN 0 ELSE claim_token[q]
    BY <1>1, <1>3, <1>4, <1>5
<1>8. /\ attempt_count \in [Rows -> 0..MAX_ATTEMPTS] /\ wattempt[w] \in 0..MAX_ATTEMPTS
      /\ wrev[w] \in 0..MaxRevision /\ MAX_ATTEMPTS \in Nat
    BY BoundAssumption DEF OutboxInv, TypeOK, RestType, WorkerType
<1>9. TypeOK'
  <2>1. ConfigType' /\ MemoryType' /\ ActedType'
      BY <1>3 DEF OutboxInv, TypeOK, ConfigType, MemoryType, ActedType, config, memory
  <2>2. ClaimsType'
    <3>1. lapsed' \in [Rows -> BOOLEAN]
      <4>1. lapsed' = [q \in Rows |-> q # r /\ lapsed[q] /\ ~Expired(a, q)]
          BY <1>3
      <4> QED BY <4>1
    <3>2. state' \in [Rows -> RowState] /\ fence' \in [Rows -> Nat]
        BY <1>2, <1>3, <1>5
    <3>3. claim_token' \in [Rows -> Nat] /\ completed_claim_token' \in [Rows -> Nat]
        BY <1>2, <1>3 DEF OutboxInv, TypeOK, ClaimsType
    <3> QED BY <1>2, <1>3, <3>1, <3>2, <3>3 DEF ClaimsType
  <2>3. RestType'
    <3>0. wattempt[w] + 1 \in 0..MAX_ATTEMPTS
        BY <1>3, <1>8
    <3>1. attempt_count' \in [Rows -> 0..MAX_ATTEMPTS]
        BY <1>3, <1>8, <3>0
    <3> QED BY <1>3, <1>8, <3>1 DEF OutboxInv, TypeOK, RestType
  <2>4. WorkerType'
      BY <1>2, <1>3 DEF OutboxInv, TypeOK, WorkerType, PC
  <2> QED BY <2>1, <2>2, <2>3, <2>4 DEF TypeOK
<1>10. ClaimShape'
    BY <1>2, <1>4, <1>7 DEF OutboxInv, ClaimShape
<1>11. FenceShape'
    BY <1>2, <1>3, <1>7 DEF FenceShape
<1>12. \A v \in Workers \ {w} : pc'[v] \in {"send", "settle"} =>
          /\ pc[v] = pc'[v] /\ wrow[v] \in Rows \ {r}
          /\ wtoken'[v] = wtoken[v]
          /\ state[wrow[v]] \in {"processing", "ambiguous", "erased"}
    BY <1>3, <1>6, HolderFacts DEF OutboxInv, TypeOK, WorkerType
<1>13. /\ pc'[w] = "send" /\ wtoken'[w] = token /\ wrow' = wrow /\ wrow[w] = r
       /\ wattempt' = wattempt /\ wresult' = wresult /\ acted' = acted
       /\ attempt_count'[r] = wattempt[w] + 1
       /\ \A v \in Workers \ {w} : pc'[v] = pc[v]
    BY <1>1, <1>3, <1>8 DEF OutboxInv, TypeOK, WorkerType, r
<1>14. HolderShape'
  <2>1. \A v \in Workers : pc'[v] \in {"claim", "claim_again", "send", "settle"}
          => wrow'[v] \in Rows
      BY <1>1, <1>13 DEF OutboxInv, HolderShape
  <2>2. ASSUME NEW v \in Workers, pc'[v] \in {"send", "settle"}
        PROVE  /\ wattempt'[v] < MAX_ATTEMPTS
               /\ state'[wrow'[v]] \in {"processing", "ambiguous", "erased"}
               /\ state'[wrow'[v]] = "processing" =>
                    /\ claim_token'[wrow'[v]] = wtoken'[v]
                    /\ attempt_count'[wrow'[v]] = wattempt'[v] + 1
    <3>1. CASE v = w
        BY <3>1, <1>3, <1>7, <1>13
    <3>2. CASE v # w
        BY <2>2, <3>2, <1>7, <1>12, <1>13 DEF OutboxInv, HolderShape
    <3> QED BY <3>1, <3>2
  <2>3. \A u, v \in Workers :
          /\ pc'[u] \in {"send", "settle"} /\ pc'[v] \in {"send", "settle"}
          /\ wrow'[u] = wrow'[v]
          => u = v
      BY <1>12, <1>13 DEF OutboxInv, HolderShape
  <2> QED BY <2>1, <2>2, <2>3 DEF HolderShape
<1>15. ActedShape'
    BY <1>4, <1>6, <1>7, <1>12, <1>13 DEF OutboxInv, ActedShape
<1>16. EnqueueShape'
  <2>1. \A q \in Rows \ {r} : attempt_count'[q] = attempt_count[q]
      BY <1>3, <1>8
  <2> QED BY <1>3, <1>4, <1>6, <1>7, <2>1, RowFacts DEF OutboxInv, EnqueueShape, memory
<1>17. AtMostOnce' /\ HonestOutcome'
    BY <1>3, <1>4, <1>6, <1>7 DEF OutboxInv, AtMostOnce, HonestOutcome
<1>18. AttemptCap'
  <2>1. \A q \in Rows \ {r} : attempt_count'[q] = attempt_count[q]
      BY <1>3, <1>8
  <2> QED BY <1>4, <1>7, <2>1 DEF OutboxInv, AttemptCap
<1>19. RevocationDrains'
    BY <1>1, <1>3, <1>7 DEF OutboxInv, RevocationDrains, config
<1> QED BY <1>9, <1>10, <1>11, <1>14, <1>15, <1>16, <1>17, <1>18, <1>19 DEF OutboxInv

\* Time passes on one column at a time.
LEMMA TimeInv ==
    ASSUME OutboxInv, NEW r, RowTime(r) \/ lane_cools_down
    PROVE  OutboxInv'
<1>1. CASE retry_comes_due(r) \/ delivery_expires(r) \/ lane_cools_down
  <2>1. /\ UNCHANGED <<config, memory, claims, attempt_count, frozen, issued, worker, acted>>
        /\ RestType'
      BY <1>1 DEF retry_comes_due, delivery_expires, lane_cools_down, OutboxInv, TypeOK,
                  RestType, rest
  <2>2. ConfigType' /\ MemoryType' /\ ClaimsType' /\ WorkerType' /\ ActedType'
      BY <2>1 DEF OutboxInv, TypeOK, ConfigType, MemoryType, ClaimsType, WorkerType, ActedType,
                  config, memory, claims, worker
  <2>3. ClaimShape' /\ FenceShape' /\ HolderShape' /\ ActedShape' /\ EnqueueShape'
      BY <2>1 DEF OutboxInv, ClaimShape, FenceShape, HolderShape, ActedShape, EnqueueShape,
                  memory, claims, worker
  <2>4. AtMostOnce' /\ HonestOutcome' /\ RevocationDrains' /\ AttemptCap'
      BY <2>1 DEF OutboxInv, AtMostOnce, HonestOutcome, RevocationDrains, AttemptCap,
                  config, claims
  <2> QED BY <2>1, <2>2, <2>3, <2>4 DEF OutboxInv, TypeOK
<1>2. CASE lease_lapses(r)
  <2>1. /\ UNCHANGED <<config, memory, state, claim_token, completed_claim_token,
                       fence, owner_token, rest, cooling, issued, worker, acted>>
        /\ ClaimsType'
      BY <1>2 DEF lease_lapses, OutboxInv, TypeOK, ClaimsType
  <2>2. ConfigType' /\ MemoryType' /\ RestType' /\ WorkerType' /\ ActedType'
      BY <2>1 DEF OutboxInv, TypeOK, ConfigType, MemoryType, RestType, WorkerType, ActedType,
                  config, memory, rest, worker
  <2>3. ClaimShape' /\ FenceShape' /\ HolderShape' /\ ActedShape' /\ EnqueueShape'
      BY <2>1 DEF OutboxInv, ClaimShape, FenceShape, HolderShape, ActedShape, EnqueueShape,
                  memory, rest, worker
  <2>4. AtMostOnce' /\ HonestOutcome' /\ RevocationDrains' /\ AttemptCap'
      BY <2>1 DEF OutboxInv, AtMostOnce, HonestOutcome, RevocationDrains, AttemptCap,
                  config, rest
  <2> QED BY <2>1, <2>2, <2>3, <2>4 DEF OutboxInv, TypeOK
<1> QED BY <1>1, <1>2 DEF RowTime

\* A step that leaves outbox, memories and workers alone keeps everything but
\* what the invariant says of destinations and accounts.
LEMMA ConfigOnly ==
    ASSUME OutboxInv, UNCHANGED <<memory, claims, rest, cooling, issued, worker, acted>>,
           ConfigType', RevocationDrains'
    PROVE  OutboxInv'
<1> USE DEF memory, claims, rest, worker
<1>1. MemoryType' /\ ClaimsType' /\ RestType' /\ WorkerType' /\ ActedType'
    BY DEF OutboxInv, TypeOK, MemoryType, ClaimsType, RestType, WorkerType, ActedType
<1>2. ClaimShape' /\ FenceShape' /\ HolderShape' /\ ActedShape' /\ EnqueueShape'
    BY DEF OutboxInv, ClaimShape, FenceShape, HolderShape, ActedShape, EnqueueShape
<1>3. AtMostOnce' /\ HonestOutcome' /\ AttemptCap'
    BY DEF OutboxInv, AtMostOnce, HonestOutcome, AttemptCap
<1> QED BY <1>1, <1>2, <1>3 DEF OutboxInv, TypeOK

\* Without a fence a row is not in processing.
LEMMA NoFenceIdle ==
    ASSUME OutboxInv, NEW r \in Rows, fence[r] = 0
    PROVE  state[r] # "processing"
BY DEF OutboxInv, ClaimShape

\* Registry steps: a destination is turned off only once its fences are gone.
LEMMA SubInv ==
    ASSUME OutboxInv, NEW s \in Subs,
           \/ create_webhook_subscription(s)
           \/ disable_webhook_subscription(s)
           \/ delete_webhook_subscription(s)
    PROVE  OutboxInv'
<1>1. /\ UNCHANGED <<account, memory, claims, rest, cooling, issued, worker, acted>>
      /\ \/ sub' = [sub EXCEPT ![s] = "enabled"]
         \/ sub' \in {[sub EXCEPT ![s] = "disabled"], [sub EXCEPT ![s] = "deleted"]}
            /\ FencesOf(s) = {}
    BY DEF create_webhook_subscription, disable_webhook_subscription,
           delete_webhook_subscription
<1>2. ConfigType'
  <2>1. route' \in [Subs -> {"idle", "disabled", "cancelled"}]
      BY DEF create_webhook_subscription, disable_webhook_subscription,
             delete_webhook_subscription, OutboxInv, TypeOK, ConfigType
  <2>2. sub' \in [Subs -> SubStatus]
      BY <1>1 DEF OutboxInv, TypeOK, ConfigType, SubStatus
  <2> QED BY <1>1, <2>1, <2>2 DEF OutboxInv, TypeOK, ConfigType
<1>3. RevocationDrains'
  <2> SUFFICES ASSUME NEW r \in Rows,
                      sub'[Sub(r)] \in {"disabled", "deleted"} \/ account'[Acct(r)] = "deleting"
               PROVE  fence'[r] = 0 /\ state'[r] # "processing"
      BY DEF RevocationDrains
  <2>1. fence' = fence /\ state' = state /\ account' = account
      BY <1>1 DEF claims
  <2>2. sub \in [Subs -> SubStatus] /\ Sub(r) \in Subs
      BY RowFacts DEF OutboxInv, TypeOK, ConfigType
  <2>3. CASE Sub(r) = s /\ FencesOf(s) = {}
      BY <2>1, <2>3, NoFenceIdle DEF FencesOf
  <2>4. CASE sub[Sub(r)] \in {"disabled", "deleted"} \/ account[Acct(r)] = "deleting"
      BY <2>1, <2>4 DEF OutboxInv, RevocationDrains
  <2> QED BY <1>1, <2>1, <2>2, <2>3, <2>4
<1> QED BY <1>1, <1>2, <1>3, ConfigOnly

\* Recovery in the middle of a transaction that leaves the workers alone.
LEMMA RecoverOnlyInv ==
    ASSUME OutboxInv, NEW a \in Accounts, recover_expired_webhook_claims(a),
           state' \in [Rows -> RowState],
           \A r \in Rows :
              IF Expired(a, r) THEN state'[r] = "ambiguous"
              ELSE \/ state'[r] = state[r]
                   \/ state[r] \in Waiting /\ state'[r] \in {"cancelled", "failed"},
           UNCHANGED <<account, sub, memory, rest, cooling, issued, worker, acted>>,
           ConfigType'
    PROVE  OutboxInv'
<1>1. UNCHANGED <<account, sub, memory, rest, cooling, issued, acted>>
    OBVIOUS
<1>2. WorkerType'
    BY DEF OutboxInv, TypeOK, WorkerType, worker
<1>3. HolderShape'
    BY <1>1, RecoveryInv DEF OutboxInv, HolderShape, worker, rest
<1>4. ActedShape'
    BY <1>1, RecoveryInv DEF OutboxInv, ActedShape, worker
<1> QED BY <1>1, <1>2, <1>3, <1>4, RecoveryInv DEF OutboxInv, TypeOK

\* Cancelling a destination's waiting rows.
LEMMA CancelInv ==
    ASSUME OutboxInv, NEW s \in Subs, cancel_webhook_deliveries(s)
    PROVE  OutboxInv'
<1> DEFINE a == SubAccount[s]
           rec == RecoveredState(a)
<1>1. a \in Accounts
    BY AccountAssumption
<1> HIDE DEF a
<1>2. /\ recover_expired_webhook_claims(a)
      /\ state' = [r \in Rows |-> IF Sub(r) = s /\ rec[r] \in Waiting
                                  THEN "cancelled" ELSE rec[r]]
      /\ UNCHANGED <<account, sub, memory, rest, cooling, issued, worker, acted>>
    BY DEF cancel_webhook_deliveries, a
<1>3. ConfigType'
    BY DEF cancel_webhook_deliveries, OutboxInv, TypeOK, ConfigType
<1>4. rec \in [Rows -> RowState] /\ \A r \in Rows : rec[r] = IF Expired(a, r) THEN "ambiguous" ELSE state[r]
    BY <1>1, RecoveryGivesUp
<1> HIDE DEF rec
<1>5. state' \in [Rows -> RowState]
    BY <1>2, <1>4
<1> QED BY <1>1, <1>2, <1>3, <1>4, <1>5, RecoverOnlyInv

\* Account deletion, as far as it reaches the outbox.
LEMMA AccountInv ==
    ASSUME OutboxInv, NEW a \in Accounts, AccountStep(a)
    PROVE  OutboxInv'
<1>1. CASE request_account_deletion(a)
  <2>1. UNCHANGED <<memory, claims, rest, cooling, issued, worker, acted>>
      BY <1>1 DEF request_account_deletion
  <2>2. ConfigType'
      BY <1>1 DEF request_account_deletion, OutboxInv, TypeOK, ConfigType, AccountStatus
  <2>3. RevocationDrains'
      BY <1>1, RowFacts DEF request_account_deletion, OutboxInv, RevocationDrains, claims,
                            TypeOK, ConfigType
  <2> QED BY <2>1, <2>2, <2>3, ConfigOnly
<1>2. CASE account_deletion_preflight_complete(a)
  <2>1. /\ recover_expired_webhook_claims(a) /\ state' = RecoveredState(a)
        /\ UNCHANGED <<account, sub, memory, rest, cooling, issued, worker, acted>>
      BY <1>2 DEF account_deletion_preflight_complete, config
  <2>2. ConfigType'
      BY <1>2 DEF account_deletion_preflight_complete, OutboxInv, TypeOK, ConfigType, config
  <2>3. /\ state' \in [Rows -> RowState]
        /\ \A r \in Rows : state'[r] = IF Expired(a, r) THEN "ambiguous" ELSE state[r]
      BY <2>1, RecoveryGivesUp
  <2> QED BY <2>1, <2>2, <2>3, RecoverOnlyInv
<1>3. CASE begin_account_deletion(a)
  <2>1. UNCHANGED <<memory, claims, rest, cooling, issued, worker, acted>>
      BY <1>3 DEF begin_account_deletion
  <2>2. ConfigType'
      BY <1>3 DEF begin_account_deletion, OutboxInv, TypeOK, ConfigType, AccountStatus, SubStatus
  <2>3. RevocationDrains'
    <3> SUFFICES ASSUME NEW r \in Rows,
                        sub'[Sub(r)] \in {"disabled", "deleted"} \/ account'[Acct(r)] = "deleting"
                 PROVE  fence'[r] = 0 /\ state'[r] # "processing"
        BY DEF RevocationDrains
    <3>1. fence' = fence /\ state' = state
        BY <2>1 DEF claims
    <3>2. CASE Acct(r) = a
        BY <1>3, <3>1, <3>2, NoFenceIdle DEF begin_account_deletion
    <3>3. CASE Acct(r) # a
      <4>1. account'[Acct(r)] = account[Acct(r)] /\ sub'[Sub(r)] = sub[Sub(r)]
          BY <1>3, <3>3, RowFacts DEF begin_account_deletion, OutboxInv, TypeOK, ConfigType
      <4> QED BY <3>1, <4>1 DEF OutboxInv, RevocationDrains
    <3> QED BY <3>2, <3>3
  <2> QED BY <2>1, <2>2, <2>3, ConfigOnly
<1> QED BY <1>1, <1>2, <1>3 DEF AccountStep

\* A memory step that inserts and erases no row.
LEMMA MemoryOnly ==
    ASSUME OutboxInv, UNCHANGED <<config, claims, rest, cooling, issued, worker, acted>>,
           MemoryType', EnqueueShape'
    PROVE  OutboxInv'
<1> USE DEF config, claims, rest, worker
<1>1. ConfigType' /\ ClaimsType' /\ RestType' /\ WorkerType' /\ ActedType'
    BY DEF OutboxInv, TypeOK, ConfigType, ClaimsType, RestType, WorkerType, ActedType
<1>2. ClaimShape' /\ FenceShape' /\ HolderShape' /\ ActedShape'
    BY DEF OutboxInv, ClaimShape, FenceShape, HolderShape, ActedShape
<1>3. AtMostOnce' /\ HonestOutcome' /\ RevocationDrains' /\ AttemptCap'
    BY DEF OutboxInv, AtMostOnce, HonestOutcome, RevocationDrains, AttemptCap
<1> QED BY <1>1, <1>2, <1>3 DEF OutboxInv, TypeOK

\* Every memory step but the two that touch the outbox.
LEMMA MemoryInv ==
    ASSUME OutboxInv, NEW p \in Episodes,
           \/ finalization_snapshot(p) \/ refresh_semantic_revision(p)
           \/ claim_refinalization(p) \/ settle_refinalization(p)
           \/ begin_episode_deletion(p)
    PROVE  OutboxInv'
<1> USE DEF finalization_snapshot, refresh_semantic_revision, claim_refinalization,
            settle_refinalization, begin_episode_deletion
<1>1. UNCHANGED <<config, claims, rest, cooling, issued, worker, acted>>
    OBVIOUS
<1>2. MemoryType'
  <2> USE BoundAssumption DEF OutboxInv, TypeOK, MemoryType
  <2>1. episode' \in [Episodes -> EpisodeStatus]
      BY DEF EpisodeStatus
  <2>2. revision' \in [Episodes -> 1..MaxRevision] /\ finalized' \in [Episodes -> 0..MaxRevision]
    <3>1. revision' = revision \/ (revision[p] < MaxRevision /\ revision' = [revision EXCEPT ![p] = @ + 1])
        OBVIOUS
    <3>2. revision \in [Episodes -> 1..MaxRevision] /\ MaxRevision \in Nat
        OBVIOUS
    <3>3. revision' \in [Episodes -> 1..MaxRevision]
        BY ONLY <3>1, <3>2, p \in Episodes
    <3>4. finalized' = finalized \/ finalized' = [finalized EXCEPT ![p] = revision[p]]
        OBVIOUS
    <3>5. finalized' \in [Episodes -> 0..MaxRevision]
      <4>1. revision[p] \in 0..MaxRevision
          BY ONLY <3>2, p \in Episodes
      <4> QED BY <3>4, <4>1
    <3> QED BY <3>3, <3>5
  <2>3. dest' \in [Episodes -> SUBSET Subs]
      OBVIOUS
  <2>4. born' \in [Episodes -> Nat] /\ clock' \in Nat /\ enqueued' \in [Episodes -> Nat]
      OBVIOUS
  <2> QED BY <2>1, <2>2, <2>3, <2>4
<1>3. EnqueueShape'
  <2>1. \A q \in Episodes : episode'[q] \in {"draft", "finalizing"}
                               => episode[q] \in {"draft", "finalizing"}
      BY DEF OutboxInv, TypeOK, MemoryType
  <2> QED BY <1>1, <2>1, RowFacts DEF OutboxInv, EnqueueShape, claims, rest
<1> QED BY <1>1, <1>2, <1>3, MemoryOnly

\* The first settlement of a memory inserts its rows.
LEMMA SettleFinalizationInv ==
    ASSUME OutboxInv, NEW p \in Episodes, settle_finalization(p)
    PROVE  OutboxInv'
<1> DEFINE fresh == {r \in Rows : Ep(r) = p /\ Sub(r) \in dest[p]}
<1>1. /\ episode[p] = "finalizing"
      /\ episode' = [episode EXCEPT ![p] = "complete"]
      /\ dest' = [dest EXCEPT ![p] = {}]
      /\ finalized' = [finalized EXCEPT ![p] = revision[p]]
      /\ enqueued' = [enqueued EXCEPT ![p] = clock + 1] /\ clock' = clock + 1
      /\ state' = [r \in Rows |-> IF r \in fresh THEN "pending" ELSE state[r]]
      /\ due' = [r \in Rows |-> r \in fresh \/ due[r]]
      /\ UNCHANGED <<config, revision, born, claim_token, completed_claim_token, lapsed, fence,
                     owner_token, attempt_count, frozen, aged, cooling, issued, worker, acted>>
    BY DEF settle_finalization
<1>2. \A r \in Rows : r \in fresh => state[r] = "absent"
    BY <1>1 DEF OutboxInv, EnqueueShape
<1>3. \A r \in Rows : r \in fresh => /\ acted[r] = 0 /\ attempt_count[r] = 0
                                     /\ fence[r] = 0 /\ claim_token[r] = 0
    BY <1>2 DEF OutboxInv, ActedShape, EnqueueShape, FenceShape, ClaimShape
<1> HIDE DEF fresh
<1>4. \A r \in Rows : state'[r] = IF r \in fresh THEN "pending" ELSE state[r]
    BY <1>1
<1>5. TypeOK'
  <2>1. ConfigType' /\ WorkerType' /\ ActedType'
      BY <1>1 DEF OutboxInv, TypeOK, ConfigType, WorkerType, ActedType, config, worker
  <2>2. MemoryType'
    <3>1. revision[p] \in 0..MaxRevision
        BY BoundAssumption DEF OutboxInv, TypeOK, MemoryType
    <3> QED BY <1>1, <3>1 DEF OutboxInv, TypeOK, MemoryType, EpisodeStatus
  <2>3. ClaimsType'
      BY <1>1 DEF OutboxInv, TypeOK, ClaimsType
  <2>4. RestType'
    <3>1. due' \in [Rows -> BOOLEAN]
        BY <1>1
    <3> QED BY <1>1, <3>1 DEF OutboxInv, TypeOK, RestType
  <2> QED BY <2>1, <2>2, <2>3, <2>4 DEF TypeOK
<1>6. ClaimShape' /\ FenceShape'
    BY <1>1, <1>3, <1>4 DEF OutboxInv, ClaimShape, FenceShape
<1>7. HolderShape'
    BY <1>1, <1>2, <1>4 DEF OutboxInv, HolderShape, worker
<1>8. ActedShape'
    BY <1>1, <1>4 DEF OutboxInv, ActedShape, worker
<1>9. EnqueueShape'
  <2>1. \A q \in Episodes : episode'[q] \in {"draft", "finalizing"}
           => q # p /\ episode[q] \in {"draft", "finalizing"}
      BY <1>1 DEF OutboxInv, TypeOK, MemoryType
  <2>2. \A r \in Rows : r \in fresh => Ep(r) = p
      BY DEF fresh
  <2> QED BY <1>1, <1>4, <2>1, <2>2, RowFacts DEF OutboxInv, EnqueueShape
<1>10. AtMostOnce' /\ HonestOutcome'
    BY <1>1, <1>3, <1>4 DEF OutboxInv, AtMostOnce, HonestOutcome
<1>11. RevocationDrains' /\ AttemptCap'
    BY <1>1, <1>3, <1>4, BoundAssumption DEF OutboxInv, RevocationDrains, AttemptCap, config
<1> QED BY <1>5, <1>6, <1>7, <1>8, <1>9, <1>10, <1>11 DEF OutboxInv

\* Erasing a memory removes its rows and leaves their fences.
LEMMA EraseInv ==
    ASSUME OutboxInv, NEW p \in Episodes, complete_episode_deletion(p)
    PROVE  OutboxInv'
<1> USE DEF complete_episode_deletion
<1>1. \A r \in Rows :
        /\ state'[r] = IF Ep(r) = p THEN "erased" ELSE state[r]
        /\ claim_token'[r] = IF Ep(r) = p THEN 0 ELSE claim_token[r]
        /\ attempt_count'[r] = IF Ep(r) = p THEN 0 ELSE attempt_count[r]
    OBVIOUS
<1>2. UNCHANGED <<config, fence, owner_token, cooling, issued, worker, acted>>
    OBVIOUS
<1>3. TypeOK'
  <2>1. ConfigType' /\ WorkerType' /\ ActedType'
      BY <1>2 DEF OutboxInv, TypeOK, ConfigType, WorkerType, ActedType, config, worker
  <2>2. MemoryType'
      BY DEF OutboxInv, TypeOK, MemoryType, EpisodeStatus
  <2>3. ClaimsType'
    <3>1. lapsed' \in [Rows -> BOOLEAN]
        OBVIOUS
    <3> QED BY <3>1 DEF OutboxInv, TypeOK, ClaimsType
  <2>4. RestType'
    <3>1. due' \in [Rows -> BOOLEAN] /\ aged' \in [Rows -> BOOLEAN]
        OBVIOUS
    <3>2. attempt_count' \in [Rows -> 0..MAX_ATTEMPTS]
        BY BoundAssumption DEF OutboxInv, TypeOK, RestType
    <3>3. frozen' \in [Rows -> 0..MaxRevision]
        BY BoundAssumption DEF OutboxInv, TypeOK, RestType
    <3> QED BY <3>1, <3>2, <3>3 DEF OutboxInv, TypeOK, RestType
  <2> QED BY <2>1, <2>2, <2>3, <2>4 DEF TypeOK
<1>4. ClaimShape' /\ FenceShape'
    BY <1>1, <1>2 DEF OutboxInv, ClaimShape, FenceShape
<1>5. HolderShape' /\ ActedShape'
    BY <1>1, <1>2 DEF OutboxInv, HolderShape, ActedShape, worker
<1>6. EnqueueShape'
  <2>1. \A q \in Episodes : episode'[q] \in {"draft", "finalizing"}
           => q # p /\ episode[q] \in {"draft", "finalizing"}
      BY DEF OutboxInv, TypeOK, MemoryType
  <2> QED BY <1>1, <2>1, RowFacts DEF OutboxInv, EnqueueShape
<1>7. AtMostOnce' /\ HonestOutcome'
    BY <1>1, <1>2 DEF OutboxInv, AtMostOnce, HonestOutcome
<1>8. RevocationDrains' /\ AttemptCap'
    BY <1>1, <1>2 DEF OutboxInv, RevocationDrains, AttemptCap, config
<1> QED BY <1>3, <1>4, <1>5, <1>6, <1>7, <1>8 DEF OutboxInv

\* Every step keeps the invariant.
LEMMA NextInv == OutboxInv /\ [Next]_vars => OutboxInv'
<1> SUFFICES ASSUME OutboxInv, [Next]_vars PROVE OutboxInv'
    OBVIOUS
<1>1. ASSUME NEW w \in Workers, WorkerStep(w) PROVE OutboxInv'
    BY <1>1, SweepInv, NextCandidateInv, ClaimInv, ClaimRefusedInv, SendInv, SettleInv,
       SettleRefusedInv, CrashInv DEF WorkerStep
<1>2. ASSUME NEW r \in Rows, RowTime(r) PROVE OutboxInv'
    BY <1>2, TimeInv
<1>3. CASE lane_cools_down
    BY <1>3, TimeInv
<1>4. ASSUME NEW s \in Subs, SubStep(s) PROVE OutboxInv'
    BY <1>4, SubInv, CancelInv DEF SubStep
<1>5. ASSUME NEW p \in Episodes, MemoryStep(p) PROVE OutboxInv'
    BY <1>5, MemoryInv, SettleFinalizationInv, EraseInv DEF MemoryStep
<1>6. ASSUME NEW a \in Accounts, AccountStep(a) PROVE OutboxInv'
    BY <1>6, AccountInv
<1>7. CASE UNCHANGED vars
    BY <1>7, ConfigOnly, WorkerOnly DEF vars, config, OutboxInv, TypeOK, ConfigType, RevocationDrains, claims
<1> QED BY <1>1, <1>2, <1>3, <1>4, <1>5, <1>6, <1>7 DEF Next

\* The invariant holds in every reachable state.
THEOREM OutboxCorrect == Spec => []OutboxInv
BY InitInv, NextInv, PTL DEF Spec

\* Every variable of the webhook outbox keeps its type.
THEOREM TypeCorrect == Spec => []TypeOK
<1>1. OutboxInv => TypeOK
    BY DEF OutboxInv
<1> QED BY <1>1, OutboxCorrect, PTL

\* No receiver is asked twice for an event it may have acted on: neither a
\* retry, nor a second worker, nor recovery after a crash repeats a request
\* that was accepted or lost.
THEOREM NeverSentTwice == Spec => []AtMostOnce
<1>1. OutboxInv => AtMostOnce
    BY DEF OutboxInv
<1> QED BY <1>1, OutboxCorrect, PTL

\* settle_webhook and recovery record only what happened.
THEOREM OutcomesAreHonest == Spec => []HonestOutcome
<1>1. OutboxInv => HonestOutcome
    BY DEF OutboxInv
<1> QED BY <1>1, OutboxCorrect, PTL

\* The fleet discloses one webhook at a time, under the lane of its claim.
THEOREM LaneIsExclusive == Spec => []LaneSerializes
<1>1. OutboxInv => LaneSerializes
    BY DEF OutboxInv, ClaimShape, FenceShape, LaneSerializes
<1> QED BY <1>1, OutboxCorrect, PTL

\* Disabling a destination and beginning an account's erasure wait for the
\* fence, and no claim is made afterwards.
THEOREM RevocationIsSafe == Spec => []RevocationDrains
<1>1. OutboxInv => RevocationDrains
    BY DEF OutboxInv
<1> QED BY <1>1, OutboxCorrect, PTL

\* The retry policy of the worker and the cap of claim_webhook agree.
THEOREM WaitingIsClaimable == Spec => []AttemptCap
<1>1. OutboxInv => AttemptCap
    BY DEF OutboxInv
<1> QED BY <1>1, OutboxCorrect, PTL

-----------------------------------------------------------------------------
(* What one step can do to one row, and the contract it implements.        *)

Same(r) == acted'[r] = acted[r]
LocalStep(r) ==
    \/ state'[r] = state[r] /\ Same(r)
    \/ /\ state[r] = "absent" /\ state'[r] = "pending" /\ Same(r)
       /\ episode[Ep(r)] = "finalizing" /\ enqueued'[Ep(r)] # 0
    \/ state[r] \in Waiting /\ acted[r] = 0 /\ state'[r] = "processing" /\ Same(r)
    \/ /\ state[r] \in {"processing", "ambiguous", "erased"} /\ state'[r] = state[r]
       /\ acted[r] = 0 /\ acted'[r] = 1
    \/ state[r] = "processing" /\ acted[r] = 1 /\ state'[r] = "delivered" /\ Same(r)
    \/ state[r] = "processing" /\ acted[r] = 0 /\ state'[r] \in {"retry_wait", "failed"} /\ Same(r)
    \/ state[r] = "processing" /\ state'[r] = "ambiguous" /\ Same(r)
    \/ state[r] \in Waiting /\ state'[r] \in {"cancelled", "failed"} /\ Same(r)
    \/ state'[r] = "erased" /\ Same(r)

\* Recovery as a step of single rows.
LEMMA RecoveryLocal ==
    ASSUME OutboxInv, NEW a \in Accounts, NEW r \in Rows, acted' = acted,
           IF Expired(a, r) THEN state'[r] = "ambiguous"
           ELSE \/ state'[r] = state[r]
                \/ state[r] \in Waiting /\ state'[r] \in {"cancelled", "failed"}
    PROVE  LocalStep(r)
BY DEF LocalStep, Same, Expired

\* A worker moves every row by at most one local step.
LEMMA WorkerLocal ==
    ASSUME OutboxInv, NEW w \in Workers, WorkerStep(w), NEW r \in Rows
    PROVE  LocalStep(r)
<1>1. ASSUME NEW a \in Accounts, sweep(w, a) PROVE LocalStep(r)
    BY <1>1 DEF sweep, claims, LocalStep, Same
<1>2. CASE next_webhook_candidate(w)
  <2>1. wacct[w] \in Accounts
      BY DEF OutboxInv, TypeOK, WorkerType
  <2>2. state' = SweptState(wacct[w]) /\ acted' = acted
      BY <1>2 DEF next_webhook_candidate
  <2> QED BY <2>1, <2>2, SweptFacts, RecoveryLocal
<1>3. CASE claim_webhook(w)
  <2>1. wrow[w] \in Rows
      BY <1>3 DEF claim_webhook, OutboxInv, HolderShape
  <2>2. Acct(wrow[w]) \in Accounts
      BY <2>1, RowFacts
  <2>3. /\ acted' = acted /\ RecoveredState(Acct(wrow[w]))[wrow[w]] \in Waiting
        /\ state' = [RecoveredState(Acct(wrow[w])) EXCEPT ![wrow[w]] = "processing"]
      BY <1>3 DEF claim_webhook, Claimable
  <2>4. /\ RecoveredState(Acct(wrow[w])) \in [Rows -> RowState]
        /\ \A q \in Rows : RecoveredState(Acct(wrow[w]))[q] =
                              IF Expired(Acct(wrow[w]), q) THEN "ambiguous" ELSE state[q]
      BY <2>2, RecoveryGivesUp
  <2>5. CASE r = wrow[w]
    <3>1. state[r] \in Waiting /\ state'[r] = "processing"
        BY <2>3, <2>4, <2>5
    <3> QED BY <2>3, <3>1 DEF LocalStep, Same, OutboxInv, HonestOutcome
  <2>6. CASE r # wrow[w]
    <3>1. state'[r] = IF Expired(Acct(wrow[w]), r) THEN "ambiguous" ELSE state[r]
        BY <2>3, <2>4, <2>6
    <3> QED BY <2>2, <2>3, <3>1, RecoveryLocal
  <2> QED BY <2>5, <2>6
<1>4. CASE claim_refused(w) \/ settle_refused(w)
    BY <1>4 DEF claim_refused, settle_refused, claims, LocalStep, Same
<1>5. CASE (\E result \in SendResult : send(w, result)) \/ crash(w)
  <2>1. state' = state
      BY <1>5 DEF send, crash, claims
  <2>2. \/ acted' = acted
        \/ pc[w] = "send" /\ acted' = [acted EXCEPT ![wrow[w]] = @ + 1]
      BY <1>5 DEF send, crash
  <2>3. CASE acted' = acted
      BY <2>1, <2>3 DEF LocalStep, Same
  <2>4. CASE pc[w] = "send" /\ acted' = [acted EXCEPT ![wrow[w]] = @ + 1]
    <3>1. /\ acted[wrow[w]] = 0 /\ acted \in [Rows -> Nat]
          /\ state[wrow[w]] \in {"processing", "ambiguous", "erased"}
        BY <2>4, HolderFacts DEF OutboxInv, ActedShape, TypeOK, ActedType
    <3>2. acted'[r] = IF r = wrow[w] THEN 1 ELSE acted[r]
        BY <2>4, <3>1
    <3> QED BY <2>1, <3>1, <3>2 DEF LocalStep, Same
  <2> QED BY <2>2, <2>3, <2>4
<1>6. CASE settle_webhook(w)
  <2> DEFINE outcome == classify_webhook_transport_result(wresult[w], wattempt[w] + 1)
  <2>1. /\ state[wrow[w]] = "processing" /\ acted' = acted
        /\ state' = [state EXCEPT ![wrow[w]] = outcome]
        /\ pc[w] = "settle" /\ state \in [Rows -> RowState]
      BY <1>6 DEF settle_webhook, Authoritative, OutboxInv, TypeOK, ClaimsType
  <2>2. /\ outcome \in {"delivered", "ambiguous", "failed", "retry_wait"}
        /\ outcome = "delivered" => acted[wrow[w]] = 1
        /\ outcome \in {"failed", "retry_wait"} => acted[wrow[w]] = 0
    <3>1. acted[wrow[w]] = IF wresult[w] \in {"accepted", "lost"} THEN 1 ELSE 0
        BY <2>1 DEF OutboxInv, ActedShape
    <3>2. wresult[w] \in {"accepted", "transient", "rejected", "lost"}
        BY DEF OutboxInv, TypeOK, WorkerType, SendResult
    <3> QED BY <3>1, <3>2 DEF classify_webhook_transport_result
  <2> HIDE DEF outcome
  <2> QED BY <2>1, <2>2 DEF LocalStep, Same
<1> QED BY <1>1, <1>2, <1>3, <1>4, <1>5, <1>6 DEF WorkerStep

\* Every step moves every row by at most one local step.
LEMMA NextLocal ==
    ASSUME OutboxInv, [Next]_vars, NEW r \in Rows
    PROVE  LocalStep(r)
<1>1. ASSUME NEW w \in Workers, WorkerStep(w) PROVE LocalStep(r)
    BY <1>1, WorkerLocal
<1>2. CASE UNCHANGED <<state, acted>>
    BY <1>2 DEF LocalStep, Same
<1>3. ASSUME NEW q \in Rows, RowTime(q) PROVE UNCHANGED <<state, acted>>
    BY <1>3 DEF RowTime, retry_comes_due, delivery_expires, lease_lapses, claims
<1>4. CASE lane_cools_down
    BY <1>2, <1>4 DEF lane_cools_down, claims
<1>5. ASSUME NEW s \in Subs, SubStep(s) PROVE LocalStep(r)
  <2>1. CASE cancel_webhook_deliveries(s)
    <3>1. SubAccount[s] \in Accounts
        BY AccountAssumption
    <3>2. /\ acted' = acted
          /\ state'[r] = IF Sub(r) = s /\ RecoveredState(SubAccount[s])[r] \in Waiting
                         THEN "cancelled" ELSE RecoveredState(SubAccount[s])[r]
        BY <2>1 DEF cancel_webhook_deliveries
    <3>3. RecoveredState(SubAccount[s])[r] =
             IF Expired(SubAccount[s], r) THEN "ambiguous" ELSE state[r]
        BY <3>1, RecoveryGivesUp
    <3> QED BY <3>1, <3>2, <3>3, RecoveryLocal
  <2>2. CASE \/ create_webhook_subscription(s) \/ disable_webhook_subscription(s)
             \/ delete_webhook_subscription(s)
      BY <1>2, <2>2 DEF create_webhook_subscription, disable_webhook_subscription,
                        delete_webhook_subscription, claims
  <2> QED BY <1>5, <2>1, <2>2 DEF SubStep
<1>6. ASSUME NEW p \in Episodes, MemoryStep(p) PROVE LocalStep(r)
  <2>1. CASE settle_finalization(p)
    <3>1. acted' = acted /\ episode[p] = "finalizing"
        BY <2>1 DEF settle_finalization
    <3>2. state'[r] = state[r] \/ (Ep(r) = p /\ state'[r] = "pending")
        BY <2>1 DEF settle_finalization
    <3>3. enqueued'[p] # 0
        BY <2>1 DEF settle_finalization, OutboxInv, TypeOK, MemoryType
    <3> QED BY <3>1, <3>2, <3>3 DEF LocalStep, Same, OutboxInv, EnqueueShape
  <2>2. CASE complete_episode_deletion(p)
      BY <2>2 DEF complete_episode_deletion, LocalStep, Same
  <2>3. CASE \/ finalization_snapshot(p) \/ refresh_semantic_revision(p)
             \/ claim_refinalization(p) \/ settle_refinalization(p)
             \/ begin_episode_deletion(p)
      BY <1>2, <2>3 DEF finalization_snapshot, refresh_semantic_revision,
           claim_refinalization, settle_refinalization, begin_episode_deletion, claims
  <2> QED BY <1>6, <2>1, <2>2, <2>3 DEF MemoryStep
<1>7. ASSUME NEW a \in Accounts, AccountStep(a) PROVE LocalStep(r)
  <2>1. CASE account_deletion_preflight_complete(a)
      BY <2>1, RecoveryGivesUp, RecoveryLocal DEF account_deletion_preflight_complete
  <2>2. CASE request_account_deletion(a) \/ begin_account_deletion(a)
      BY <1>2, <2>2 DEF request_account_deletion, begin_account_deletion, claims
  <2> QED BY <1>7, <2>1, <2>2 DEF AccountStep
<1>8. CASE UNCHANGED vars
    BY <1>2, <1>8 DEF vars, claims
<1> QED BY <1>1, <1>2, <1>3, <1>4, <1>5, <1>6, <1>7, <1>8 DEF Next

\* A delivered, failed, cancelled or ambiguous row is never rewritten.
THEOREM SettledStaysSettled == Spec => SettledIsFinal
<1>1. OutboxInv /\ [Next]_vars
      => [\A r \in Rows : state[r] \in Settled => state'[r] \in {state[r], "erased"}]_vars
    BY NextLocal DEF LocalStep
<1> QED BY <1>1, OutboxCorrect, PTL DEF Spec, SettledIsFinal

\* Initially every delivery is absent from the contract's point of view.
LEMMA ContractInit == Init => Contract!Init
BY DEF Init, Contract!Init, ContractStatus

\* Every step is a step of the contract, or changes nothing it sees.
LEMMA ContractNext ==
    ASSUME OutboxInv, OutboxInv', [Next]_vars
    PROVE  [Contract!Next]_(Contract!vars)
<1>1. /\ \A r \in Rows : ContractStatus[r] = IF state[r] \in Waiting THEN "queued"
                            ELSE IF state[r] = "processing" THEN "disclosing" ELSE state[r]
      /\ \A r \in Rows : ContractStatus'[r] = IF state'[r] \in Waiting THEN "queued"
                            ELSE IF state'[r] = "processing" THEN "disclosing" ELSE state'[r]
    BY DEF ContractStatus
<1>2. state \in [Rows -> RowState] /\ state' \in [Rows -> RowState] /\ acted' \in [Rows -> Nat]
    BY DEF OutboxInv, TypeOK, ClaimsType, ActedType
<1>3. ASSUME NEW r \in Rows PROVE Contract!RowStep(r)
  <2>1. LocalStep(r) /\ state[r] \in RowState /\ state'[r] \in RowState
      BY <1>2, NextLocal
  <2> QED BY <1>1, <2>1 DEF LocalStep, Same, Contract!RowStep, Contract!Enqueue,
         Contract!Disclose, Contract!Act, Contract!Deliver, Contract!Reject, Contract!GiveUp,
         Contract!Withdraw, Contract!Erase, Contract!Becomes
<1>4. ContractStatus' \in [Rows -> Contract!Status]
    BY <1>2 DEF ContractStatus, Contract!Status
<1>5. \A q, r \in Rows :
         ContractStatus'[q] = "disclosing" /\ ContractStatus'[r] = "disclosing" => q = r
  <2>1. \A q \in Rows : ContractStatus'[q] = "disclosing" => state'[q] = "processing"
      BY <1>1, <1>2
  <2>2. \A q, r \in Rows : state'[q] = "processing" /\ state'[r] = "processing" => q = r
      BY DEF OutboxInv, ClaimShape, FenceShape
  <2> QED BY <2>1, <2>2
<1> QED BY <1>2, <1>3, <1>4, <1>5 DEF Contract!Next

\* The webhook outbox implements the contract of an outbox with disclosure
\* fences, for any number of accounts, memories, destinations and workers.
THEOREM Refinement == Spec => ImplementsContract
<1>1. Init => Contract!Init
    BY ContractInit
<1>2. OutboxInv /\ OutboxInv' /\ [Next]_vars => [Contract!Next]_(Contract!vars)
    BY ContractNext
<1> QED BY <1>1, <1>2, OutboxCorrect, PTL DEF Spec, ImplementsContract, Contract!Spec

-----------------------------------------------------------------------------
(* Order of deliveries of one destination.                                 *)

\* Initially nothing is enqueued and nobody has a candidate.
LEMMA OrderInit == Init => OrderShape
BY RowFacts DEF Init, OrderShape

\* A step that changes no enqueue time and takes on no new candidate.
LEMMA OrderQuiet ==
    ASSUME OutboxInv, OrderShape, [Next]_vars, UNCHANGED <<born, enqueued, clock>>,
           \A p \in Episodes : episode'[p] \in {"draft", "finalizing"}
                                  => episode[p] \in {"draft", "finalizing"},
           \A w \in Workers : pc'[w] \in {"claim", "claim_again"} =>
                pc[w] \in {"claim", "claim_again"} /\ wrow'[w] = wrow[w]
    PROVE  OrderShape'
<1>1. \A p \in Episodes :
         /\ enqueued'[p] <= clock'
         /\ episode'[p] \in {"draft", "finalizing"} => enqueued'[p] = 0
    BY DEF OrderShape
<1>2. \A r \in Rows : state'[r] \in Open => state[r] \in Open
  <2> SUFFICES ASSUME NEW r \in Rows, state'[r] \in Open PROVE state[r] \in Open
      OBVIOUS
  <2>1. episode[Ep(r)] = "finalizing" => enqueued'[Ep(r)] = 0
      BY RowFacts DEF OrderShape
  <2> QED BY <2>1, NextLocal DEF LocalStep
<1>3. \A r \in Rows : state'[r] \in Open => enqueued'[Ep(r)] # 0
    BY <1>2 DEF OrderShape
<1>4. ASSUME NEW w \in Workers, pc'[w] \in {"claim", "claim_again"}
      PROVE  /\ enqueued'[Ep(wrow'[w])] # 0
             /\ \A q \in Rows :
                   /\ Earlier(q, wrow[w])'
                   /\ enqueued'[Ep(q)] # 0
                   /\ enqueued'[Ep(q)] < enqueued'[Ep(wrow'[w])]
                   => state'[q] \notin Open
    BY <1>2, <1>4 DEF OrderShape, Earlier
<1> QED BY <1>1, <1>3, <1>4 DEF OrderShape

\* A new candidate has nothing open and older before it.
LEMMA OrderCandidate ==
    ASSUME OutboxInv, OrderShape, NEW w \in Workers, next_webhook_candidate(w)
    PROVE  OrderShape'
<1> DEFINE a == wacct[w]
           st == SweptState(a)
<1>1. a \in Accounts
    BY DEF OutboxInv, TypeOK, WorkerType
<1>2. \A r \in Rows : st[r] \in Open => state[r] \in Open
    BY <1>1, SweptFacts
<1>3. /\ state' = st /\ UNCHANGED memory
      /\ \/ ResetWorker(w)
         \/ \E r \in Selected(a, st) : /\ pc' = [pc EXCEPT ![w] = "claim"]
                                       /\ wrow' = [wrow EXCEPT ![w] = r]
    BY DEF next_webhook_candidate
<1> HIDE DEF a, st
<1>4. UNCHANGED <<episode, born, enqueued, clock>>
    BY <1>3 DEF memory
<1>5. ASSUME NEW v \in Workers, pc'[v] \in {"claim", "claim_again"}
      PROVE  /\ enqueued'[Ep(wrow'[v])] # 0
             /\ \A q \in Rows :
                   /\ Earlier(q, wrow[v])'
                   /\ enqueued'[Ep(q)] # 0
                   /\ enqueued'[Ep(q)] < enqueued'[Ep(wrow'[v])]
                   => state'[q] \notin Open
  <2>1. CASE v # w
    <3>1. pc'[v] = pc[v] /\ wrow'[v] = wrow[v]
        BY <1>3, <2>1, ResetFacts DEF OutboxInv, TypeOK, WorkerType
    <3> QED BY <1>2, <1>3, <1>4, <1>5, <3>1 DEF OrderShape, Earlier
  <2>2. CASE v = w
    <3>1. ~ResetWorker(w)
        BY <1>5, <2>2, ResetFacts
    <3>2. PICK r \in Selected(a, st) : wrow' = [wrow EXCEPT ![w] = r]
        BY <1>3, <3>1
    <3>3. wrow'[v] = r
        BY <2>2, <3>2 DEF OutboxInv, TypeOK, WorkerType
    <3>4. /\ r \in Rows /\ st[r] \in Waiting
          /\ ~\E q \in Rows : st[q] \in Open /\ Earlier(q, r)
        BY DEF Selected, Candidates
    <3>5. enqueued[Ep(r)] # 0
        BY <1>2, <3>4 DEF OrderShape
    <3> QED BY <1>3, <1>4, <3>3, <3>4, <3>5 DEF Earlier
  <2> QED BY <2>1, <2>2
<1> QED BY <1>2, <1>3, <1>4, <1>5 DEF OrderShape

\* A memory that is not settled yet may change the start time of its rows.
LEMMA OrderSnapshot ==
    ASSUME OutboxInv, OrderShape, NEW p \in Episodes, finalization_snapshot(p)
    PROVE  OrderShape'
<1>1. /\ enqueued' = enqueued /\ clock' = clock + 1 /\ clock \in Nat
      /\ enqueued \in [Episodes -> Nat] /\ born \in [Episodes -> Nat]
      /\ born' = [born EXCEPT ![p] = clock + 1] /\ state' = state
      /\ pc' = pc /\ wrow' = wrow
      /\ episode' = [episode EXCEPT ![p] = "finalizing"]
      /\ episode \in [Episodes -> EpisodeStatus]
      /\ enqueued[p] = 0
    BY DEF finalization_snapshot, OutboxInv, TypeOK, MemoryType, claims, worker, OrderShape
<1>2. \A q \in Episodes : /\ enqueued'[q] <= clock'
                          /\ episode'[q] \in {"draft", "finalizing"} => enqueued'[q] = 0
    BY <1>1 DEF OrderShape
<1>3. \A q \in Episodes : enqueued[q] # 0 => born'[q] = born[q]
    BY <1>1
<1>4. ASSUME NEW w \in Workers, pc[w] \in {"claim", "claim_again"}
      PROVE  wrow[w] \in Rows /\ Ep(wrow[w]) \in Episodes
    BY <1>4, RowFacts DEF OutboxInv, HolderShape
<1> QED BY <1>1, <1>2, <1>3, <1>4, RowFacts DEF OrderShape, Earlier

\* Rows that come in now come in after every candidate.
LEMMA OrderSettle ==
    ASSUME OutboxInv, OrderShape, NEW p \in Episodes, settle_finalization(p)
    PROVE  OrderShape'
<1>1. /\ clock' = clock + 1 /\ clock \in Nat
      /\ enqueued \in [Episodes -> Nat] /\ born' = born
      /\ enqueued' = [enqueued EXCEPT ![p] = clock + 1]
      /\ episode' = [episode EXCEPT ![p] = "complete"]
      /\ pc' = pc /\ wrow' = wrow
      /\ episode \in [Episodes -> EpisodeStatus]
      /\ enqueued[p] = 0
    BY DEF settle_finalization, OutboxInv, TypeOK, MemoryType, worker, OrderShape
<1>2. \A q \in Episodes : /\ enqueued'[q] <= clock'
                          /\ episode'[q] \in {"draft", "finalizing"} => enqueued'[q] = 0
    BY <1>1 DEF OrderShape
<1>3. \A r \in Rows : state'[r] \in Open => state[r] \in Open \/ Ep(r) = p
    BY DEF settle_finalization
<1>4. \A r \in Rows : state'[r] \in Open => enqueued'[Ep(r)] # 0
    BY <1>1, <1>3, RowFacts DEF OrderShape
<1>5. ASSUME NEW w \in Workers, pc'[w] \in {"claim", "claim_again"}
      PROVE  /\ enqueued'[Ep(wrow'[w])] # 0
             /\ \A q \in Rows :
                   /\ Earlier(q, wrow[w])'
                   /\ enqueued'[Ep(q)] # 0
                   /\ enqueued'[Ep(q)] < enqueued'[Ep(wrow'[w])]
                   => state'[q] \notin Open
  <2>1. wrow[w] \in Rows /\ Ep(wrow[w]) \in Episodes
      BY <1>1, <1>5, RowFacts DEF OutboxInv, HolderShape
  <2>2. enqueued[Ep(wrow[w])] # 0 /\ Ep(wrow[w]) # p
      BY <1>1, <1>5 DEF OrderShape
  <2>3. enqueued'[Ep(wrow[w])] = enqueued[Ep(wrow[w])] /\ enqueued[Ep(wrow[w])] <= clock
      BY <1>1, <2>1, <2>2 DEF OrderShape
  <2>4. ASSUME NEW q \in Rows, Earlier(q, wrow[w])', enqueued'[Ep(q)] # 0,
               enqueued'[Ep(q)] < enqueued'[Ep(wrow'[w])]
        PROVE  state'[q] \notin Open
    <3>1. Ep(q) \in Episodes
        BY RowFacts
    <3>2. Ep(q) # p
        BY <1>1, <2>1, <2>3, <2>4
    <3>3. enqueued'[Ep(q)] = enqueued[Ep(q)]
        BY <1>1, <3>1, <3>2
    <3> QED BY <1>1, <1>3, <1>5, <2>3, <2>4, <3>2, <3>3 DEF OrderShape, Earlier
  <2> QED BY <1>1, <2>2, <2>3, <2>4
<1> QED BY <1>2, <1>4, <1>5 DEF OrderShape

\* Every step keeps what candidates know of the order.
LEMMA OrderNext ==
    ASSUME OutboxInv, OrderShape, [Next]_vars
    PROVE  OrderShape'
<1>1. ASSUME NEW w \in Workers, WorkerStep(w) PROVE OrderShape'
  <2>1. CASE next_webhook_candidate(w)
      BY <2>1, OrderCandidate
  <2>2. CASE ~next_webhook_candidate(w)
    <3>1. UNCHANGED memory
        BY <1>1, <2>2 DEF WorkerStep, sweep, claim_webhook, claim_refused, send, settle_webhook,
                          settle_refused, crash
    <3>2. \A v \in Workers : pc'[v] \in {"claim", "claim_again"} =>
             pc[v] \in {"claim", "claim_again"} /\ wrow'[v] = wrow[v]
        BY <1>1, <2>2 DEF WorkerStep, sweep, claim_webhook, claim_refused, send, settle_webhook,
              settle_refused, crash, ResetWorker, OutboxInv, TypeOK, WorkerType
    <3> QED BY <3>1, <3>2, OrderQuiet DEF memory
  <2> QED BY <2>1, <2>2
<1>2. ASSUME UNCHANGED <<memory, pc, wrow>> PROVE OrderShape'
    BY <1>2, OrderQuiet DEF memory
<1>3. ASSUME NEW r \in Rows, RowTime(r) PROVE OrderShape'
    BY <1>2, <1>3 DEF RowTime, retry_comes_due, delivery_expires, lease_lapses, worker
<1>4. CASE lane_cools_down
    BY <1>2, <1>4 DEF lane_cools_down, worker
<1>5. ASSUME NEW s \in Subs, SubStep(s) PROVE OrderShape'
    BY <1>2, <1>5 DEF SubStep, create_webhook_subscription, disable_webhook_subscription,
                      cancel_webhook_deliveries, delete_webhook_subscription, worker
<1>6. ASSUME NEW p \in Episodes, MemoryStep(p) PROVE OrderShape'
  <2>1. CASE finalization_snapshot(p)
      BY <2>1, OrderSnapshot
  <2>2. CASE settle_finalization(p)
      BY <2>2, OrderSettle
  <2>3. CASE \/ refresh_semantic_revision(p)
             \/ claim_refinalization(p) \/ settle_refinalization(p)
             \/ begin_episode_deletion(p) \/ complete_episode_deletion(p)
    <3>1. UNCHANGED <<born, enqueued, clock, worker>>
        BY <2>3 DEF refresh_semantic_revision, claim_refinalization, settle_refinalization,
                    begin_episode_deletion, complete_episode_deletion
    <3>2. \A q \in Episodes : episode'[q] \in {"draft", "finalizing"}
                                 => episode[q] \in {"draft", "finalizing"}
        BY <2>3 DEF refresh_semantic_revision, claim_refinalization, settle_refinalization,
               begin_episode_deletion, complete_episode_deletion, OutboxInv, TypeOK, MemoryType
    <3> QED BY <3>1, <3>2, OrderQuiet DEF worker
  <2> QED BY <1>6, <2>1, <2>2, <2>3 DEF MemoryStep
<1>7. ASSUME NEW a \in Accounts, AccountStep(a) PROVE OrderShape'
    BY <1>2, <1>7 DEF AccountStep, request_account_deletion, account_deletion_preflight_complete,
                      begin_account_deletion, worker
<1>8. CASE UNCHANGED vars
    BY <1>2, <1>8 DEF vars, worker
<1> QED BY <1>1, <1>3, <1>4, <1>5, <1>6, <1>7, <1>8 DEF Next

\* Only claim_webhook moves a row into processing, and only its candidate.
LEMMA OnlyClaims ==
    ASSUME OutboxInv, OrderShape, [Next]_vars, NEW r \in Rows, NEW q \in Rows,
           state[r] \in Waiting, state'[r] = "processing",
           Earlier(q, r), enqueued[Ep(q)] < enqueued[Ep(r)]
    PROVE  state[q] \notin Open
<1>1. PICK w \in Workers : claim_webhook(w) /\ wrow[w] = r
  <2>1. ASSUME NEW w \in Workers, WorkerStep(w) PROVE claim_webhook(w) /\ wrow[w] = r
    <3>1. CASE claim_webhook(w)
      <4>1. wrow[w] \in Rows
          BY <3>1 DEF claim_webhook, OutboxInv, HolderShape
      <4>2. Acct(wrow[w]) \in Accounts
          BY <4>1, RowFacts
      <4>3. r # wrow[w] => state'[r] = IF Expired(Acct(wrow[w]), r) THEN "ambiguous" ELSE state[r]
          BY <3>1, <4>2, RecoveryGivesUp DEF claim_webhook
      <4> QED BY <3>1, <4>3
    <3>2. CASE next_webhook_candidate(w)
      <4>1. wacct[w] \in Accounts
          BY DEF OutboxInv, TypeOK, WorkerType
      <4> QED BY <3>2, <4>1, SweptFacts DEF next_webhook_candidate
    <3>3. CASE settle_webhook(w)
        BY <3>3 DEF settle_webhook, Authoritative, OutboxInv, TypeOK, ClaimsType
    <3>4. CASE state' = state
        BY <3>4
    <3> QED BY <2>1, <3>1, <3>2, <3>3, <3>4
            DEF WorkerStep, sweep, claim_refused, send, settle_refused, crash, claims
  <2>2. ASSUME NEW x \in Rows, RowTime(x) PROVE FALSE
      BY <2>2 DEF RowTime, retry_comes_due, delivery_expires, lease_lapses, claims
  <2>3. ~lane_cools_down
      BY DEF lane_cools_down, claims
  <2>4. ASSUME NEW s \in Subs, SubStep(s) PROVE FALSE
    <3>1. SubAccount[s] \in Accounts
        BY AccountAssumption
    <3>2. ~cancel_webhook_deliveries(s)
        BY <3>1, RecoveryGivesUp DEF cancel_webhook_deliveries
    <3> QED BY <2>4, <3>2 DEF SubStep, create_webhook_subscription, disable_webhook_subscription,
               delete_webhook_subscription, claims
  <2>5. ASSUME NEW p \in Episodes, MemoryStep(p) PROVE FALSE
      BY <2>5 DEF MemoryStep, finalization_snapshot, settle_finalization,
           refresh_semantic_revision, claim_refinalization, settle_refinalization,
           begin_episode_deletion, complete_episode_deletion, claims
  <2>6. ASSUME NEW a \in Accounts, AccountStep(a) PROVE FALSE
      BY <2>6, RecoveryGivesUp DEF AccountStep, request_account_deletion,
           account_deletion_preflight_complete, begin_account_deletion, claims
  <2>7. ~UNCHANGED vars
      BY DEF vars, claims
  <2> QED BY <2>1, <2>2, <2>3, <2>4, <2>5, <2>6, <2>7 DEF Next
<1>2. state[q] \in Open => enqueued[Ep(q)] # 0
    BY DEF OrderShape
<1> QED BY <1>1, <1>2 DEF OrderShape, claim_webhook

\* What a worker is about to claim is never behind an older open delivery of
\* its destination that was in the outbox first: the order in which
\* next_webhook_candidate selected still stands when claim_webhook commits.
THEOREM OrderIsShaped == Spec => []OrderShape
<1>1. Init => OutboxInv /\ OrderShape
    BY InitInv, OrderInit
<1>2. OutboxInv /\ OrderShape /\ [Next]_vars => OutboxInv' /\ OrderShape'
    BY NextInv, OrderNext
<1> QED BY <1>1, <1>2, PTL DEF Spec

\* Deliveries of one destination leave in the order of their memories'
\* settlements, as far as those were in the outbox when the next came in.
THEOREM OrderIsKept == Spec => NoOvertaking
<1>1. Init => OutboxInv /\ OrderShape
    BY InitInv, OrderInit
<1>2. OutboxInv /\ OrderShape /\ [Next]_vars => OutboxInv' /\ OrderShape'
    BY NextInv, OrderNext
<1>3. OutboxInv /\ OrderShape /\ [Next]_vars
      => [\A q, r \in Rows :
            /\ state[r] \in Waiting /\ state'[r] = "processing"
            /\ Earlier(q, r) /\ enqueued[Ep(q)] < enqueued[Ep(r)]
            => state[q] \notin Open]_vars
    BY OnlyClaims
<1> QED BY <1>1, <1>2, <1>3, PTL DEF Spec, NoOvertaking
=============================================================================
