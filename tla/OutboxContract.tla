---------------------------- MODULE OutboxContract ----------------------------
(***************************************************************************)
(* What an outbox with disclosure fences promises, whatever its claims,    *)
(* leases and lanes look like: a request the receiver may have acted on is *)
(* never sent again, an outcome is recorded only when it is the truth, a   *)
(* settled delivery stays settled, and the provider is disclosed to one    *)
(* delivery at a time.                                                     *)
(***************************************************************************)
EXTENDS Naturals

CONSTANT Rows

VARIABLES
    status,   \* what the outbox knows of a delivery
    acted     \* how many requests the receiver may have acted on

Status == {"absent", "queued", "disclosing", "delivered", "ambiguous",
           "failed", "cancelled", "erased"}

vars == <<status, acted>>

Init ==
    /\ status = [r \in Rows |-> "absent"]
    /\ acted = [r \in Rows |-> 0]

Becomes(r, st) == status'[r] = st /\ acted'[r] = acted[r]

\* A delivery enters the queue once.
Enqueue(r) == status[r] = "absent" /\ Becomes(r, "queued")

Disclose(r) == status[r] = "queued" /\ acted[r] = 0 /\ Becomes(r, "disclosing")

\* The receiver acts on the one request in flight: before the outcome is
\* recorded, or late, after the outbox gave the delivery up as ambiguous or
\* its memory was erased.
Act(r) ==
    /\ status[r] \in {"disclosing", "ambiguous", "erased"}
    /\ acted[r] = 0
    /\ acted'[r] = 1
    /\ status'[r] = status[r]

Deliver(r) == status[r] = "disclosing" /\ acted[r] = 1 /\ Becomes(r, "delivered")

\* A definite rejection: the receiver did nothing.
Reject(r) ==
    /\ status[r] = "disclosing"
    /\ acted[r] = 0
    /\ Becomes(r, "queued") \/ Becomes(r, "failed")

GiveUp(r) == status[r] = "disclosing" /\ Becomes(r, "ambiguous")

Withdraw(r) ==
    /\ status[r] = "queued"
    /\ Becomes(r, "cancelled") \/ Becomes(r, "failed")

Erase(r) == Becomes(r, "erased")

RowStep(r) ==
    \/ Enqueue(r) \/ Disclose(r) \/ Act(r) \/ Deliver(r) \/ Reject(r)
    \/ GiveUp(r) \/ Withdraw(r) \/ Erase(r)
    \/ Becomes(r, status[r])

\* One transaction may move several deliveries, each by one step.
Next ==
    /\ \A r \in Rows : RowStep(r)
    /\ status' \in [Rows -> Status]
    /\ acted' \in [Rows -> Nat]
    /\ \A q, r \in Rows :
          status'[q] = "disclosing" /\ status'[r] = "disclosing" => q = r

Spec == Init /\ [][Next]_vars
=============================================================================
