--------------------------- MODULE MCMorningEmail ---------------------------
(* A finite instance of MorningEmail for TLC. *)
EXTENDS MorningEmail, TLC

CONSTANTS W1, W2

MCWorkers == {W1, W2}
MCSymmetry == Permutations(MCWorkers)

\* All evidence precedes the first morning.
MCSourceDay == [s \in Sources |-> 0]

\* Two workers deliver at once only while no memory is being finalized and the
\* owner has changed nothing.  A third piece of evidence and a fourth memory,
\* which let two finalized memories be regrouped, only where the owner changes
\* nothing, one worker delivers, no send is rejected, and one memory is
\* finalized at a time.
MCThird ==
    LET busy == Cardinality({w \in Workers : pc[w] # "idle"})
        finalizing == Cardinality({m \in Memories : mem[m] \in {"claimed", "rewriting"}})
    IN  /\ busy > 1 => finalizing = 0 /\ changes = 0
        /\ (mem[MaxMemory] # "none" \/ Owned(3))
               => /\ Owned(3) /\ changes = 0 /\ busy <= 1 /\ finalizing <= 1
                  /\ InState(db, {"retry_wait", "failed"}) = {}

\* For the search of a long behaviour: every send succeeds at once, a morning
\* at a time, and one memory is finalized at a time.
MCSmooth ==
    /\ \A d \in Days :
          /\ db.dlv[d].state \in {"none", "pending", "processing", "delivered"}
          /\ db.dlv[d].timer # "lapsed"
          /\ db.dlv[d].state # "none" => \A e \in 1..(d - 1) : db.dlv[e].state = "delivered"
    /\ Cardinality({m \in Memories : mem[m] = "claimed"}) <= 1
=============================================================================
