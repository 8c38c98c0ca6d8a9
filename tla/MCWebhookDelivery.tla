------------------------- MODULE MCWebhookDelivery -------------------------
(* Instances of WebhookDelivery for TLC.                                    *)
EXTENDS WebhookDelivery, TLC

\* Every memory and destination belongs to the same account.
OneAccount(S) == [x \in S |-> CHOOSE a \in Accounts : TRUE]
EpisodesOfOne == OneAccount(Episodes)
SubsOfOne == OneAccount(Subs)

\* Workers are interchangeable.
WorkerSymmetry == Permutations(Workers)
=============================================================================
