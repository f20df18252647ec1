------------------------ MODULE MCWebhookDispatcher ------------------------
(***************************************************************************)
(* WebhookDispatcher for TLC.  The back-off table is shortened to the      *)
(* attempts of the instance; it grows, and its first delay is longer than  *)
(* one POST and no longer than a full batch of them, as in the code (30 s, *)
(* 5 s and 20 times 5 s).                                                  *)
(***************************************************************************)
EXTENDS WebhookDispatcher

Delays == [n \in 1 .. MaxAttempts - 1 |-> n + 1]
=============================================================================
