------------------------- MODULE MCAccountDeletion -------------------------
(* Instances of AccountDeletion for TLC.                                    *)
EXTENDS AccountDeletion, TLC

\* Handlers, reconcilers and upload requests are interchangeable.
Symmetry ==
    Permutations(Handlers) \cup Permutations(Reconcilers) \cup Permutations(Requests)
=============================================================================
