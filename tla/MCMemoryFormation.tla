------------------------- MODULE MCMemoryFormation -------------------------
(* A finite instance of MemoryFormation for TLC. *)
EXTENDS MemoryFormation, TLC

CONSTANTS W1, W2

MCWorkers == {W1, W2}
MCEvidence == 1..2
MCSymmetry == Permutations(MCWorkers)

\* A deletion or a fault meets two busy workers; once both have happened, only
\* one worker is busy at a time.
MCBusy ==
    deletions + faults > 1 => Cardinality({w \in Workers : worker[w].pc # "idle"}) <= 1
=============================================================================
