--------------------------- MODULE MediaProcessing ---------------------------
(***************************************************************************)
(* Media jobs of one active account and one class: captured segments wait  *)
(* as jobs, a claim freezes a run of them into a work unit, the owner asks *)
(* the model provider once, stages the paid response, settles the usage    *)
(* ledger and projects the result; leases lapse, owners crash, the usage   *)
(* drain gives up on old intents, failures are resurrected and memories    *)
(* are deleted underneath it all.                                          *)
(*                                                                         *)
(* Every action is one transaction (each holds the account's               *)
(* "memory-reconciliation" lock) or one step of a worker between two.      *)
(*                                                                         *)
(* A job is a position in capture order.  A work unit is the set of its    *)
(* members, because work_unit_id hashes them.  A claim token is the worker *)
(* that drew it: a replica runs one claim at a time and a crashed one      *)
(* never uses its token again.  A unit's claim and its members' leases are *)
(* written together with the same duration, so one flag covers both.       *)
(***************************************************************************)
EXTENDS Integers, Sequences, FiniteSets

CONSTANTS
    Jobs,                 \* 1..n, in capture order
    Workers,
    Bodies,               \* request bodies: the name vocabulary may change them
    Unplannable,          \* jobs the planner refuses (no positive interval)
    Deletable,            \* jobs of memories their owner may delete
    Answers,              \* what the provider answers on this instance
    LocalFailures,        \* what can fail before anything is sent
    MaxMembers,           \* the longest window the planner forms
    MAX_ATTEMPTS,
    RESURRECTION_TOTAL_ATTEMPT_CAP,
    MAX_MEDIA_PROVIDER_ATTEMPTS,
    MaxLosses,            \* bound: owners that crash or outlive their lease
    Nobody                \* no claim token

ASSUME MediaAssumption ==
    /\ Jobs \subseteq Nat
    /\ Unplannable \subseteq Jobs /\ Deletable \subseteq Jobs
    /\ {MaxMembers, MAX_ATTEMPTS, RESURRECTION_TOTAL_ATTEMPT_CAP,
        MAX_MEDIA_PROVIDER_ATTEMPTS} \subseteq Nat \ {0}
    /\ Answers \subseteq {"ok", "gap", "garbled", "rejected", "server_error"}
    /\ LocalFailures \subseteq
          {"processing_error", "media_integrity", "vertex_daily_budget"}
    /\ MaxLosses \in Nat
    /\ Bodies # {}
    /\ Nobody \notin Workers

Units == (SUBSET Jobs) \ {{}}
NoUnit == {}
Numbers == 1..MAX_MEDIA_PROVIDER_ATTEMPTS
AnyBody == CHOOSE b \in Bodies : TRUE
Attempts == Units \X Numbers \X Bodies

JobState == {"absent", "pending", "processing", "retry_wait", "succeeded",
             "failed_terminal", "erased"}
UnitState == {"absent", "processing", "retry_wait", "succeeded", "failed_terminal"}
Outcome == {"none", "started", "metered", "ambiguous", "not_billed"}
EntryState == {"admitted", "response_staged", "usage_settled", "settled",
               "confirmed_not_billed", "ambiguous", "confirmed_invalid"}
\* What the provider answers: a usable result, one with a turn between two
\* segments, one that is not the promised JSON, a refusal that is never
\* billed, and a failure that may be.
Answer == {"ok", "gap", "garbled", "rejected", "server_error"}
PC == {"idle", "prepare", "authorize", "refused", "send", "stage", "parse",
       "usage", "project", "fail"}
Disposition == {"before_egress", "not_billed", "ambiguous", "confirmed_invalid"}
NonResurrectable == {"media_integrity", "unplannable_media", "vertex_ambiguous",
                     "invalid_model_output", "compatibility_hold"}
Code == NonResurrectable \cup
        {"none", "processing_error", "vertex_daily_budget", "vertex_not_billed"}

VARIABLES
    job, code, attempts,   \* media_processing_jobs
    due,                   \* updated_at of a waiting job has passed
    expired,               \* the captures are older than RESURRECTION_WINDOW
    fenced,                \* named by a pending episode deletion
    member,                \* media_work_members: the unit of a job, if any
    unit, ucode, tries,    \* media_work_units: state, error_code, attempt_count
    recovered,             \* its usage_json carries compatibility_recovery
    owner, live,           \* claim_token, claim_until > now
    journal,               \* provider_attempts of usage_json
    ledger,                \* vertex_usage_events.outcome
    pc, wu, wn, wb, wans, wdisp, wcode,
    losses,
    charged,               \* history: attempts the provider may have billed
    projected              \* history: how often a job's evidence was written

jobvars == <<job, code, attempts, due>>
unitvars == <<unit, ucode, tries, recovered, owner, live>>
wvars == <<pc, wu, wn, wb, wans, wdisp, wcode>>
vars == <<jobvars, expired, fenced, member, unitvars, journal, ledger, wvars,
          losses, charged, projected>>

Init ==
    /\ job = [j \in Jobs |-> "absent"]
    /\ code = [j \in Jobs |-> "none"]
    /\ attempts = [j \in Jobs |-> 0]
    /\ due = [j \in Jobs |-> FALSE]
    /\ expired = FALSE
    /\ fenced = {}
    /\ member = [j \in Jobs |-> NoUnit]
    /\ unit = [u \in Units |-> "absent"]
    /\ ucode = [u \in Units |-> "none"]
    /\ tries = [u \in Units |-> 0]
    /\ recovered = [u \in Units |-> FALSE]
    /\ owner = [u \in Units |-> Nobody]
    /\ live = [u \in Units |-> FALSE]
    /\ journal = [u \in Units |-> << >>]
    /\ ledger = [a \in Attempts |-> "none"]
    /\ pc = [w \in Workers |-> "idle"]
    /\ wu = [w \in Workers |-> NoUnit]
    /\ wn = [w \in Workers |-> 1]
    /\ wb = [w \in Workers |-> AnyBody]
    /\ wans = [w \in Workers |-> "ok"]
    /\ wdisp = [w \in Workers |-> "before_egress"]
    /\ wcode = [w \in Workers |-> "none"]
    /\ losses = 0
    /\ charged = {}
    /\ projected = [j \in Jobs |-> 0]

-----------------------------------------------------------------------------
\* Helpers

\* f with the members of S replaced by v.
Put(f, S, v) == [x \in DOMAIN f |-> IF x \in S THEN v ELSE f[x]]
Last(s) == s[Len(s)]
SetLast(s, st) == [s EXCEPT ![Len(s)].st = st]

\* Counters saturate where no comparison of the code tells them apart: two
\* claims apart from one more, and attempts past every cap.
TriesBound == 3
AttemptBound == RESURRECTION_TOTAL_ATTEMPT_CAP + 1
BumpUnbounded(n, bound) == n + 1
Bump(n, bound) == IF n < bound THEN n + 1 ELSE n
Unbump(n) == IF n \in {0, AttemptBound} THEN n ELSE n - 1

\* The selection of claim, eligible_media_jobs_for_exact_work and
\* pending_classes: waiting and due, or processing under a lapsed lease, and
\* not named by a pending deletion.
EligibleIfWaiting(j) ==
    /\ j \notin fenced
    /\ job[j] = "pending" \/ (job[j] = "retry_wait" /\ due[j])
Eligible(j) ==
    /\ j \notin fenced
    /\ \/ job[j] = "pending"
       \/ job[j] = "retry_wait" /\ due[j]
       \/ job[j] = "processing" /\ ~live[member[j]]
Candidates == {j \in Jobs : Eligible(j)}
HeadJob == CHOOSE j \in Candidates : \A k \in Candidates : j <= k

\* media_planner::plan_first: the run of adjacent candidates from the head.
PlanFirst ==
    {k \in Candidates :
        /\ HeadJob <= k /\ k < HeadJob + MaxMembers
        /\ \A i \in HeadJob..k : i \in Candidates \ Unplannable}

\* claim_provider_state: the number of the next attempt.
NextNumber(jn) ==
    IF jn = << >> THEN 1
    ELSE IF Last(jn).st = "confirmed_not_billed" THEN Len(jn) + 1 ELSE Len(jn)
IsStaged(jn) == jn # << >> /\ Last(jn).st \in {"response_staged", "usage_settled"}
IsLost(jn) ==
    jn # << >> /\ Last(jn).st \in {"admitted", "ambiguous", "confirmed_invalid"}
Reclaimable(jn) == NextNumber(jn) <= MAX_MEDIA_PROVIDER_ATTEMPTS

LastAttempt(u) == <<u, Len(journal[u]), Last(journal[u]).body>>
WAttempt(w) == <<wu[w], wn[w], wb[w]>>

\* lock_claim_for_update with require_live: the exact claim is still held.
Holds(w) ==
    LET u == wu[w] IN
    /\ unit[u] = "processing"
    /\ owner[u] = w
    /\ live[u]
    /\ \A j \in u : member[j] = u /\ job[j] = "processing"
Done(w) == unit[wu[w]] = "succeeded"
NotFenced(u) == u \cap fenced = {}
\* The journal's last entry is the attempt this worker speaks for.
SpeaksFor(w) ==
    LET jn == journal[wu[w]] IN
    jn # << >> /\ Len(jn) = wn[w] /\ Last(jn).body = wb[w]

-----------------------------------------------------------------------------
\* Capture and time

\* A segment's event is committed with its media object and its job.
Arrive(j) ==
    /\ job[j] = "absent"
    /\ job' = [job EXCEPT ![j] = "pending"]
    /\ UNCHANGED <<code, attempts, due, expired, fenced, member, unitvars, journal,
                   ledger, wvars, losses, charged, projected>>

\* updated_at of a waiting job passes.  settle_failure computes it row by row
\* from clock_timestamp(), so the members of a unit do not become due at once.
BecomeDue(j) ==
    /\ job[j] = "retry_wait" /\ ~due[j]
    /\ due' = [due EXCEPT ![j] = TRUE]
    /\ UNCHANGED <<job, code, attempts, expired, fenced, member, unitvars, journal,
                   ledger, wvars, losses, charged, projected>>

\* The captures fall out of the seven-day resurrection window.
Expire ==
    /\ ~expired
    /\ expired' = TRUE
    /\ UNCHANGED <<jobvars, fenced, member, unitvars, journal, ledger, wvars,
                   losses, charged, projected>>

\* claim_until and the members' lease_until pass, after the owner is gone or, as
\* often as the bound allows, while it is still at work.
Lapse(u) ==
    /\ live[u]
    /\ live' = [live EXCEPT ![u] = FALSE]
    /\ IF wu[owner[u]] = u THEN losses < MaxLosses /\ losses' = losses + 1
       ELSE UNCHANGED losses
    /\ UNCHANGED <<jobvars, expired, fenced, member, unit, ucode, tries, recovered,
                   owner, journal, ledger, wvars, charged, projected>>

\* pending_events of the usage drain: an intent three minutes old is given up.
GivenUpAnyway(a) == ledger[a] \in {"started", "metered"}
GivenUp(a) == ledger[a] = "started"
SweepStarted(a) ==
    /\ GivenUp(a)
    /\ ledger' = [ledger EXCEPT ![a] = "ambiguous"]
    /\ UNCHANGED <<jobvars, expired, fenced, member, unitvars, journal, wvars,
                   losses, charged, projected>>

\* resurrect_recent_failures: only the job row goes back, its unit stays as it is.
Resurrect(j) ==
    /\ job[j] = "failed_terminal"
    /\ code[j] \notin NonResurrectable
    /\ attempts[j] < RESURRECTION_TOTAL_ATTEMPT_CAP
    /\ ~expired
    /\ job' = [job EXCEPT ![j] = "retry_wait"]
    /\ code' = [code EXCEPT ![j] = "none"]
    /\ due' = [due EXCEPT ![j] = TRUE]
    /\ UNCHANGED <<attempts, expired, fenced, member, unitvars, journal, ledger,
                   wvars, losses, charged, projected>>

-----------------------------------------------------------------------------
\* claim

Members(u) == {j \in Jobs : member[j] = u}

\* persisted_media_work_for_head and the exact selection after it.
Invalid(u) ==
    \/ unit[u] \notin {"processing", "retry_wait"}
    \/ \E j \in u : member[j] # u \/ ~Eligible(j)

\* safe_shape of resolve_invalid_persisted_media_work: two claims, both turned
\* back by the daily budget before anything could reach the provider.
SafeShape(u) ==
    /\ unit[u] \in {"retry_wait", "failed_terminal"}
    /\ ucode[u] = "vertex_daily_budget"
    /\ tries[u] = 2
    /\ owner[u] = Nobody
    /\ journal[u] = << >> /\ ~recovered[u]
    /\ Members(u) = u
    /\ \A j \in u : job[j] = "retry_wait" /\ attempts[j] = 0
                    /\ code[j] = "vertex_daily_budget"

\* The unit u is claimed by w; its members are bound to it.
Take(w, u) ==
    /\ job' = Put(job, u, "processing")
    /\ attempts' = [j \in Jobs |->
          IF j \in u THEN Bump(attempts[j], AttemptBound) ELSE attempts[j]]
    /\ code' = Put(code, u, "none")
    /\ due' = Put(due, u, FALSE)
    /\ wu' = [wu EXCEPT ![w] = u]
    /\ wn' = [wn EXCEPT ![w] = NextNumber(journal[u])]
    /\ IF IsStaged(journal[u])
       THEN /\ pc' = [pc EXCEPT ![w] = "parse"]
            /\ wb' = [wb EXCEPT ![w] = Last(journal[u]).body]
            /\ wans' = [wans EXCEPT ![w] = Last(journal[u]).ans]
       ELSE /\ pc' = [pc EXCEPT ![w] = "prepare"]
            /\ UNCHANGED <<wb, wans>>
    /\ UNCHANGED <<wdisp, wcode>>

\* A claim whose selection is sound: an exact persisted unit, or a new plan
\* none of whose jobs belongs to another unit ("membership is not exact").
Selection ==
    IF member[HeadJob] # NoUnit THEN member[HeadJob] ELSE PlanFirst
Selected(u) ==
    IF member[HeadJob] # NoUnit THEN ~Invalid(u)
    ELSE /\ u # {}
         /\ \A j \in u : member[j] = NoUnit
         /\ unit[u] = "absent"

ClaimWork(w) ==
    /\ pc[w] = "idle" /\ Candidates # {}
    /\ LET u == Selection IN
       /\ Selected(u)
       /\ ~IsLost(journal[u]) /\ Reclaimable(journal[u])
       /\ member' = Put(member, u, u)
       /\ unit' = [unit EXCEPT ![u] = "processing"]
       /\ ucode' = [ucode EXCEPT ![u] = "none"]
       /\ tries' = [tries EXCEPT ![u] = Bump(@, TriesBound)]
       /\ owner' = [owner EXCEPT ![u] = w]
       /\ live' = [live EXCEPT ![u] = TRUE]
       /\ Take(w, u)
    /\ UNCHANGED <<expired, fenced, recovered, journal, ledger, losses, charged, projected>>

\* All jobs of u fail for good with the given code.
FailJobs(S, c) ==
    /\ job' = Put(job, S, "failed_terminal")
    /\ code' = Put(code, S, c)
CloseUnit(u, st, c) ==
    /\ unit' = [unit EXCEPT ![u] = st]
    /\ ucode' = [ucode EXCEPT ![u] = c]
    /\ owner' = [owner EXCEPT ![u] = Nobody]
    /\ live' = [live EXCEPT ![u] = FALSE]

\* An attempt that was admitted and never staged: its owner is lost, so it is
\* terminal and ambiguous, without another request.
ClaimLost(w) ==
    /\ pc[w] = "idle" /\ Candidates # {}
    /\ LET u == Selection IN
       /\ Selected(u) /\ IsLost(journal[u]) /\ Reclaimable(journal[u])
       /\ ledger[LastAttempt(u)] \in {"started", "ambiguous", "metered"}
       /\ ledger' = [ledger EXCEPT ![LastAttempt(u)] =
                        IF @ = "started" THEN "ambiguous" ELSE @]
       /\ journal' = [journal EXCEPT ![u] = SetLast(@, "ambiguous")]
       /\ FailJobs(u, "vertex_ambiguous")
       /\ CloseUnit(u, "failed_terminal", "vertex_ambiguous")
    /\ UNCHANGED <<attempts, due, expired, fenced, member, tries, recovered,
                   wvars, losses, charged, projected>>

\* A head the planner cannot put into any window.
ClaimUnplannable(w) ==
    /\ pc[w] = "idle" /\ Candidates # {}
    /\ member[HeadJob] = NoUnit /\ PlanFirst = {}
    /\ FailJobs({HeadJob}, "unplannable_media")
    /\ UNCHANGED <<attempts, due, expired, fenced, member, unitvars, journal,
                   ledger, wvars, losses, charged, projected>>

\* Persisted work that cannot be reclaimed exactly is held for good, unless it
\* is provably untouched by the provider.
ClaimHold(w) ==
    /\ pc[w] = "idle" /\ Candidates # {}
    /\ LET u == member[HeadJob]
           lost == IF u # NoUnit /\ journal[u] # << >> /\ Last(journal[u]).st = "admitted"
                   THEN {a \in {LastAttempt(u)} : ledger[a] # "not_billed"} ELSE {}
       IN
       /\ u # NoUnit /\ Invalid(u) /\ ~live[u] /\ ~SafeShape(u)
       /\ ledger' = [a \in Attempts |->
             IF a \in lost /\ ledger[a] = "started" THEN "ambiguous" ELSE ledger[a]]
       /\ journal' = [journal EXCEPT ![u] =
             IF lost # {} THEN SetLast(@, "ambiguous") ELSE @]
       /\ FailJobs({j \in Members(u) :
             job[j] \in {"pending", "retry_wait", "processing"}}, "compatibility_hold")
       /\ IF unit[u] = "succeeded" THEN UNCHANGED <<unit, ucode, owner, live>>
          ELSE CloseUnit(u, "failed_terminal", "compatibility_hold")
    /\ UNCHANGED <<attempts, due, expired, fenced, member, tries, recovered,
                   wvars, losses, charged, projected>>

\* Provably untouched work is deleted and its candidates are planned afresh.
ClaimReplan(w) ==
    /\ pc[w] = "idle" /\ Candidates # {}
    /\ LET u == member[HeadJob]  p == PlanFirst IN
       /\ u # NoUnit /\ Invalid(u) /\ ~live[u] /\ SafeShape(u)
       /\ p # {} /\ p # u /\ unit[p] = "absent"
       /\ \A j \in p : member[j] \in {NoUnit, u}
       /\ member' = [j \in Jobs |-> IF j \in p THEN p
                                    ELSE IF member[j] = u THEN NoUnit ELSE member[j]]
       /\ unit' = [unit EXCEPT ![u] = "absent", ![p] = "processing"]
       /\ ucode' = [ucode EXCEPT ![u] = "none", ![p] = "none"]
       /\ tries' = [tries EXCEPT ![u] = 0, ![p] = 1]
       /\ recovered' = [recovered EXCEPT ![p] = TRUE]
       /\ owner' = [owner EXCEPT ![p] = w]
       /\ live' = [live EXCEPT ![p] = TRUE]
       /\ Take(w, p)
    /\ UNCHANGED <<expired, fenced, journal, ledger, losses, charged, projected>>

-----------------------------------------------------------------------------
\* The owner of a claim

Goto(w, l) == pc' = [pc EXCEPT ![w] = l]
\* The worker is done with its claim and forgets it.
Release(w) ==
    /\ Goto(w, "idle")
    /\ wu' = [wu EXCEPT ![w] = NoUnit] /\ wn' = [wn EXCEPT ![w] = 1]
    /\ wb' = [wb EXCEPT ![w] = AnyBody] /\ wans' = [wans EXCEPT ![w] = "ok"]
    /\ wdisp' = [wdisp EXCEPT ![w] = "before_egress"]
    /\ wcode' = [wcode EXCEPT ![w] = "none"]
KeepClaim == UNCHANGED <<wu, wn, wb, wans>>
FailWith(w, d, c) ==
    /\ Goto(w, "fail")
    /\ wdisp' = [wdisp EXCEPT ![w] = d]
    /\ wcode' = [wcode EXCEPT ![w] = c]
\* Nothing but the worker and, where they say so, the ledger.
KeepRows == UNCHANGED <<jobvars, expired, fenced, member, unitvars, losses, projected>>

\* Loading the media, reserving budget or building the request fails: nothing
\* has left the enclave.
PrepareFails(w) ==
    /\ pc[w] = "prepare"
    /\ \E c \in LocalFailures : FailWith(w, "before_egress", c)
    /\ KeepRows
    /\ UNCHANGED <<wu, wn, wb, wans, journal, ledger, charged>>

\* prepare_media_request and begin_invocation_attempt: the intent is durable
\* before the request may be authorised; an intent that exists is not resent.
PrepareBegins(w, b) ==
    LET a == <<wu[w], wn[w], b>> IN
    /\ pc[w] = "prepare"
    /\ wb' = [wb EXCEPT ![w] = b]
    /\ ledger' = [ledger EXCEPT ![a] = IF @ = "none" THEN "started"
                                       ELSE IF @ = "started" THEN "ambiguous" ELSE @]
    /\ CASE ledger[a] = "none" -> Goto(w, "authorize") /\ UNCHANGED <<wdisp, wcode>>
         [] ledger[a] = "not_billed" -> FailWith(w, "not_billed", "vertex_not_billed")
         [] OTHER -> FailWith(w, "ambiguous", "vertex_ambiguous")
    /\ KeepRows
    /\ UNCHANGED <<wu, wn, wans, journal, charged>>

\* The conditions of authorize_provider_attempt.
Authorized(w) ==
    LET jn == journal[wu[w]] IN
    /\ Holds(w)
    /\ NotFenced(wu[w])
    /\ ledger[WAttempt(w)] = "started"
    /\ Len(jn) = wn[w] - 1
    /\ wn[w] > 1 => Last(jn).st = "confirmed_not_billed"

Admit(w) == journal' = [journal EXCEPT ![wu[w]] =
                Append(@, [body |-> wb[w], st |-> "admitted", ans |-> "ok"])]

Authorize(w) ==
    /\ pc[w] = "authorize"
    /\ IF Authorized(w) THEN Admit(w) /\ Goto(w, "send")
       ELSE UNCHANGED journal /\ Goto(w, "refused")
    /\ KeepRows
    /\ UNCHANGED <<wu, wn, wb, wans, wdisp, wcode, ledger, charged>>

\* The commit is durable but its acknowledgement is lost.
AuthorizeUnacknowledged(w) ==
    /\ pc[w] = "authorize" /\ Authorized(w)
    /\ losses < MaxLosses
    /\ losses' = losses + 1
    /\ Admit(w) /\ Goto(w, "refused")
    /\ UNCHANGED <<jobvars, expired, fenced, member, unitvars, projected,
                   wu, wn, wb, wans, wdisp, wcode, ledger, charged>>

\* No authorisation, no request: the intent is settled as never billed, or,
\* when the drain was faster, it stays ambiguous.
Refuse(w) ==
    LET a == WAttempt(w) IN
    /\ pc[w] = "refused"
    /\ IF ledger[a] \in {"started", "not_billed"}
       THEN /\ ledger' = [ledger EXCEPT ![a] = "not_billed"]
            /\ FailWith(w, "not_billed", "vertex_not_billed")
       ELSE /\ FailWith(w, "ambiguous", "vertex_ambiguous")
            /\ UNCHANGED ledger
    /\ KeepRows
    /\ UNCHANGED <<wu, wn, wb, wans, journal, charged>>

\* PreparedMediaRequest::send crosses the provider boundary.
SendAnswered(w, ans) ==
    /\ pc[w] = "send"
    /\ charged' = IF ans = "rejected" THEN charged ELSE charged \cup {WAttempt(w)}
    /\ wans' = [wans EXCEPT ![w] = ans]
    /\ Goto(w, "stage")
    /\ KeepRows
    /\ UNCHANGED <<wu, wn, wb, wdisp, wcode, journal, ledger>>

\* The transport fails after the request may have been acted on; the ledger
\* is not touched on this path.
SendLost(w) ==
    /\ pc[w] = "send"
    /\ charged' = charged \cup {WAttempt(w)}
    /\ FailWith(w, "ambiguous", "vertex_ambiguous")
    /\ KeepRows
    /\ UNCHANGED <<wu, wn, wb, wans, journal, ledger>>

\* stage_provider_response: the paid bytes become durable.
CanStage(w) ==
    /\ Holds(w) /\ NotFenced(wu[w])
    /\ SpeaksFor(w) /\ Last(journal[wu[w]]).st = "admitted"
    /\ ledger[WAttempt(w)] = "started"

Stage(w) ==
    LET a == WAttempt(w) IN
    /\ pc[w] = "stage"
    /\ \/ /\ CanStage(w)
          /\ journal' = [journal EXCEPT ![wu[w]] =
                [@ EXCEPT ![Len(@)].st = "response_staged", ![Len(@)].ans = wans[w]]]
          /\ Goto(w, "parse")
          /\ UNCHANGED <<ledger, wdisp, wcode>>
       \/ /\ ~CanStage(w)
          /\ ledger' = [ledger EXCEPT ![a] = IF @ = "started" THEN "ambiguous" ELSE @]
          /\ FailWith(w, "ambiguous", "vertex_ambiguous")
          /\ UNCHANGED journal
    /\ KeepRows
    /\ UNCHANGED <<wu, wn, wb, wans, charged>>

\* durable_http_failure_disposition: a refusal is certainly not billed, any
\* other failure may be.
HttpDispositionOptimistic(ans) ==
    CASE ans \in {"rejected", "server_error"} -> "not_billed"
      [] OTHER -> "none"
HttpDisposition(ans) ==
    CASE ans = "rejected" -> "not_billed"
      [] ans = "server_error" -> "ambiguous"
      [] OTHER -> "none"

\* settle_staged_media up to settle_response.  A refusal is settled as not
\* billed, a failure as ambiguous, a result as metered; a result whose intent
\* was given up cannot be metered any more and the claim is left to expire.
Parse(w) ==
    LET a == WAttempt(w)  d == HttpDisposition(wans[w]) IN
    /\ pc[w] = "parse"
    /\ ledger' = [ledger EXCEPT ![a] =
          IF @ = "started" THEN (IF d = "none" THEN "metered" ELSE d) ELSE @]
    /\ \/ /\ d # "none"
          /\ FailWith(w, d, IF d = "not_billed" THEN "vertex_not_billed"
                            ELSE "vertex_ambiguous")
          /\ KeepClaim
       \/ /\ d = "none" /\ ledger[a] \in {"started", "metered"}
          /\ Goto(w, "usage")
          /\ KeepClaim /\ UNCHANGED <<wdisp, wcode>>
       \/ /\ d = "none" /\ ledger[a] \notin {"started", "metered"}
          /\ Release(w)
    /\ KeepRows
    /\ UNCHANGED <<journal, charged>>

\* settle_usage, and the validation of the result behind it.
UsageSettles(w) ==
    /\ Holds(w) /\ SpeaksFor(w) /\ IsStaged(journal[wu[w]])
    /\ ledger[WAttempt(w)] = "metered"
SettleUsage(w) ==
    /\ pc[w] = "usage" /\ UsageSettles(w)
    /\ journal' = [journal EXCEPT ![wu[w]] = SetLast(@, "usage_settled")]
    /\ IF wans[w] = "garbled"
       THEN FailWith(w, "confirmed_invalid", "invalid_model_output")
       ELSE Goto(w, "project") /\ UNCHANGED <<wdisp, wcode>>
    /\ KeepClaim /\ KeepRows
    /\ UNCHANGED <<ledger, charged>>

\* The claim is gone, or another owner has finished it.
SettleUsageRefused(w) ==
    /\ pc[w] = "usage" /\ ~UsageSettles(w)
    /\ Release(w)
    /\ KeepRows
    /\ UNCHANGED <<journal, ledger, charged>>

\* settle_audio and mark_claim_succeeded: the evidence and the success are one
\* transaction.  A turn between two segments is refused before it starts.
CanProject(w) ==
    /\ wans[w] # "gap"
    /\ ~Done(w)
    /\ Holds(w) /\ NotFenced(wu[w])
    /\ SpeaksFor(w) /\ Last(journal[wu[w]]).st = "usage_settled"
ProjectUnsettled(w) ==
    /\ pc[w] = "project" /\ CanProject(w)
    /\ projected' = [j \in Jobs |->
          IF j \in wu[w] THEN Bump(projected[j], 2) ELSE projected[j]]
    /\ Release(w)
    /\ UNCHANGED <<jobvars, expired, fenced, member, unitvars, journal, ledger,
                   losses, charged>>
Project(w) ==
    LET u == wu[w] IN
    /\ pc[w] = "project" /\ CanProject(w)
    /\ job' = Put(job, u, "succeeded")
    /\ code' = Put(code, u, "none")
    /\ CloseUnit(u, "succeeded", "none")
    /\ journal' = [journal EXCEPT ![u] = SetLast(@, "settled")]
    /\ projected' = [j \in Jobs |-> IF j \in u THEN Bump(projected[j], 2) ELSE projected[j]]
    /\ Release(w)
    /\ UNCHANGED <<attempts, due, expired, fenced, member, tries, recovered, ledger,
                   losses, charged>>
ProjectRefused(w) ==
    /\ pc[w] = "project" /\ ~CanProject(w)
    /\ Release(w)
    /\ KeepRows
    /\ UNCHANGED <<journal, ledger, charged>>

-----------------------------------------------------------------------------
\* settle_failure

\* The ledger agrees with what the owner says became of its request.
UsageAgrees(w) ==
    CASE wdisp[w] = "not_billed" -> ledger[WAttempt(w)] = "not_billed"
      [] wdisp[w] = "before_egress" -> TRUE
      [] OTHER -> ledger[WAttempt(w)] \in {"ambiguous", "metered"}
EntryFor(d) == CASE d = "not_billed" -> "confirmed_not_billed"
                 [] d = "confirmed_invalid" -> "confirmed_invalid"
                 [] OTHER -> "ambiguous"
\* An attempt that was refused before it was admitted gets its entry now.
Appends(w) ==
    /\ Len(journal[wu[w]]) = wn[w] - 1
    /\ wdisp[w] \in {"not_billed", "ambiguous"}
FailureSettles(w) ==
    /\ Holds(w)
    /\ UsageAgrees(w)
    /\ wdisp[w] = "before_egress" \/ Appends(w) \/ SpeaksFor(w)
Terminal(w) ==
    \/ wdisp[w] \in {"ambiguous", "confirmed_invalid"}
    \/ wcode[w] = "vertex_daily_budget" /\ expired
    \/ /\ wcode[w] # "vertex_daily_budget" /\ wdisp[w] # "not_billed"
       /\ \E j \in wu[w] : attempts[j] >= MAX_ATTEMPTS

SettleFailure(w) ==
    LET u == wu[w]
        st == IF Terminal(w) THEN "failed_terminal" ELSE "retry_wait"
        refund == wcode[w] = "vertex_daily_budget" \/ wdisp[w] = "not_billed"
    IN
    /\ pc[w] = "fail" /\ FailureSettles(w)
    /\ journal' = [journal EXCEPT ![u] =
          IF wdisp[w] = "before_egress" THEN @
          ELSE IF Appends(w)
               THEN Append(@, [body |-> wb[w], st |-> EntryFor(wdisp[w]), ans |-> "ok"])
               ELSE SetLast(@, EntryFor(wdisp[w]))]
    /\ job' = Put(job, u, st)
    /\ code' = Put(code, u, wcode[w])
    /\ due' = Put(due, u, FALSE)
    /\ attempts' = [j \in Jobs |->
          IF j \in u /\ refund THEN Unbump(attempts[j]) ELSE attempts[j]]
    /\ CloseUnit(u, st, wcode[w])
    /\ Release(w)
    /\ UNCHANGED <<expired, fenced, member, tries, recovered, ledger, losses, charged, projected>>

\* The claim was lost, or the ledger disagrees: nothing is written and the
\* claim is left to lapse.
SettleFailureRefused(w) ==
    /\ pc[w] = "fail" /\ ~FailureSettles(w)
    /\ Release(w)
    /\ KeepRows
    /\ UNCHANGED <<journal, ledger, charged>>

Crash(w) ==
    /\ pc[w] # "idle" /\ losses < MaxLosses
    /\ losses' = losses + 1
    /\ Release(w)
    /\ UNCHANGED <<jobvars, expired, fenced, member, unitvars, journal, ledger,
                   charged, projected>>

-----------------------------------------------------------------------------
\* Memory deletion, as far as it touches media

ClaimLive(j) == member[j] # NoUnit /\ live[member[j]]

\* A deletion is recorded only while none of its media is at the provider.
BeginDeletion(j) ==
    /\ j \in Deletable /\ job[j] \notin {"absent", "erased"} /\ j \notin fenced
    /\ ~ClaimLive(j)
    /\ fenced' = fenced \cup {j}
    /\ UNCHANGED <<jobvars, expired, member, unitvars, journal, ledger, wvars,
                   losses, charged, projected>>

\* Unfinished work that names a purged event is deleted, and the members that
\* survive the deletion start over.
Unfinished(u) == u # NoUnit /\ unit[u] \in {"processing", "retry_wait"}
Others(j) == IF member[j] = NoUnit THEN {} ELSE Members(member[j]) \ {j}
RestartedIfDue(j, planned) ==
    {k \in Others(j) \ planned : Unfinished(member[j]) /\ job[k] = "retry_wait" /\ due[k]}
Restarted(j, planned) ==
    {k \in Others(j) \ planned :
        /\ Unfinished(member[j])
        /\ job[k] = "processing" \/ (job[k] = "retry_wait" /\ due[k])}

\* The purge erases the event with its job, its membership and its evidence;
\* the events planned for a later page of the same deletion wait for theirs.
Purge(j) ==
    /\ j \in fenced /\ ~ClaimLive(j)
    /\ fenced' = fenced \ {j}
    /\ \E planned \in SUBSET (fenced \ {j}) :
          LET u == member[j]
              open == Unfinished(u)
              rest == Others(j)
              gone == u # NoUnit /\ (open \/ rest = {})
              back == Restarted(j, planned)
          IN /\ job' = [Put(job, back, "pending") EXCEPT ![j] = "erased"]
             /\ code' = [Put(code, back, "none") EXCEPT ![j] = "none"]
             /\ due' = [Put(due, back, FALSE) EXCEPT ![j] = FALSE]
             /\ attempts' = [attempts EXCEPT ![j] = 0]
             /\ member' = [k \in Jobs |->
                   IF k = j \/ (open /\ k \in rest) THEN NoUnit ELSE member[k]]
             /\ projected' = [projected EXCEPT ![j] = 0]
             /\ IF gone
                THEN /\ CloseUnit(u, "absent", "none")
                     /\ tries' = [tries EXCEPT ![u] = 0]
                     /\ recovered' = [recovered EXCEPT ![u] = FALSE]
                     /\ journal' = [journal EXCEPT ![u] = << >>]
                ELSE UNCHANGED <<unitvars, journal>>
    /\ UNCHANGED <<expired, ledger, wvars, losses, charged>>

-----------------------------------------------------------------------------
WorkerStep(w) ==
    \/ ClaimWork(w) \/ ClaimLost(w) \/ ClaimUnplannable(w)
    \/ ClaimHold(w) \/ ClaimReplan(w)
    \/ PrepareFails(w) \/ \E b \in Bodies : PrepareBegins(w, b)
    \/ Authorize(w) \/ Refuse(w)
    \/ SendLost(w) \/ \E ans \in Answers : SendAnswered(w, ans)
    \/ Stage(w) \/ Parse(w) \/ SettleUsage(w) \/ SettleUsageRefused(w)
    \/ Project(w) \/ ProjectRefused(w)
    \/ SettleFailure(w) \/ SettleFailureRefused(w)

Next ==
    \/ \E w \in Workers : WorkerStep(w) \/ AuthorizeUnacknowledged(w) \/ Crash(w)
    \/ \E j \in Jobs :
          \/ Arrive(j) \/ BecomeDue(j) \/ Resurrect(j)
          \/ BeginDeletion(j) \/ Purge(j)
    \/ Expire
    \/ \E u \in Units : Lapse(u)
    \/ \E a \in Attempts : SweepStarted(a)

Spec == Init /\ [][Next]_vars

\* Replicas keep sweeping, owners finish within their lease from
\* some point on, leases and delays pass, the deletion worker
\* keeps running.  Nobody has to resurrect, delete or give up anything.
Fairness ==
    /\ \A w \in Workers : WF_vars(WorkerStep(w))
    /\ \A u \in Units : WF_vars(Lapse(u))
    /\ \A j \in Jobs : WF_vars(BecomeDue(j)) /\ WF_vars(Purge(j))
    /\ WF_vars(Expire)
FairSpec == Spec /\ Fairness

-----------------------------------------------------------------------------
(* Properties.                                                             *)

\* Every variable keeps its type: the attempt counters stay within the caps of
\* the claim and of the resurrection.
TypeOK ==
    /\ job \in [Jobs -> JobState] /\ code \in [Jobs -> Code]
    /\ attempts \in [Jobs -> 0..AttemptBound]
    /\ due \in [Jobs -> BOOLEAN] /\ expired \in BOOLEAN
    /\ fenced \subseteq Jobs
    /\ member \in [Jobs -> Units \cup {NoUnit}]
    /\ unit \in [Units -> UnitState] /\ ucode \in [Units -> Code]
    /\ tries \in [Units -> 0..TriesBound] /\ recovered \in [Units -> BOOLEAN]
    /\ owner \in [Units -> Workers \cup {Nobody}] /\ live \in [Units -> BOOLEAN]
    /\ ledger \in [Attempts -> Outcome]
    /\ \A u \in Units : \A i \in 1..Len(journal[u]) :
          journal[u][i] \in [body : Bodies, st : EntryState, ans : Answer]
    /\ pc \in [Workers -> PC] /\ wu \in [Workers -> Units \cup {NoUnit}]
    /\ wn \in [Workers -> Numbers] /\ wb \in [Workers -> Bodies]
    /\ wans \in [Workers -> Answer] /\ wdisp \in [Workers -> Disposition]
    /\ wcode \in [Workers -> Code]
    /\ charged \subseteq Attempts /\ projected \in [Jobs -> 0..2]

\* A work unit's media is paid for at most once: whatever losses, lapsed
\* leases, changed request bodies and retries do, at most one of a unit's
\* attempts reached a provider that may have billed it.
PaidOnce == \A a, b \in charged : a[1] = b[1] => a = b

\* What the ledger calls not billed was never acted on by the provider, so the
\* attempt that replaces it is not a second charge.
NotBilledIsTrue == \A a \in charged : ledger[a] # "not_billed"

\* Evidence is written at most once for a job, and only for one that exists:
\* a late owner neither projects twice nor brings erased evidence back.
ProjectedOnce ==
    \A j \in Jobs : /\ projected[j] <= 1
                    /\ projected[j] = 1 => job[j] = "succeeded"

\* A claim is whole: while a unit is held, each of its members is bound to it
\* and in process, and a job in process belongs to a unit in process, unless a
\* deletion that is about to erase the job has taken the unit away.
ClaimIsWhole ==
    /\ \A u \in Units : unit[u] = "processing" =>
          owner[u] # Nobody /\ \A j \in u : member[j] = u /\ job[j] = "processing"
    /\ \A j \in Jobs \ fenced : job[j] = "processing" =>
          member[j] # NoUnit /\ unit[member[j]] = "processing"

\* A unit succeeds only on a metered response whose journal entry is settled.
SuccessIsMetered ==
    \A u \in Units : unit[u] = "succeeded" /\ journal[u] # << >> =>
        Last(journal[u]).st = "settled" /\ ledger[LastAttempt(u)] = "metered"

-----------------------------------------------------------------------------
\* The states no sweep leads out of.  A staged response whose intent the drain
\* gave up, or whose result projection always refuses, is reclaimed for ever;
\* an exhausted journal and an admission settled as not billed make every
\* claim fail; so does a plan that names a member of another unit.
StagedForever(u) ==
    /\ unit[u] = "processing" /\ IsStaged(journal[u])
    /\ LET ans == Last(journal[u]).ans IN
       ans = "gap" \/ (ans # "server_error" /\ ledger[LastAttempt(u)] = "ambiguous")
Exhausted(u) ==
    unit[u] \in {"processing", "retry_wait"} /\ ~Reclaimable(journal[u])
HalfAdmitted(u) ==
    /\ unit[u] = "processing" /\ journal[u] # << >>
    /\ Last(journal[u]).st = "admitted" /\ ledger[LastAttempt(u)] = "not_billed"
Misplanned ==
    /\ Candidates # {}
    /\ \E j \in PlanFirst : member[j] \notin {NoUnit, member[HeadJob]}
Wedged ==
    Misplanned \/ \E u \in Units : StagedForever(u) \/ Exhausted(u) \/ HalfAdmitted(u)

\* Every job is settled or erased in the end, whatever fails, unless the queue
\* comes to one of the wedged states: those are all the ways in which it can
\* hang, and none of them is a lost lease, a crash or a plain failure.
MediaSettles ==
    \A j \in Jobs : []<>(\/ Wedged
                         \/ job[j] \notin {"pending", "processing", "retry_wait"})
=============================================================================
