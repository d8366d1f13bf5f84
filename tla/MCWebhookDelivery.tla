------------------------- MODULE MCWebhookDelivery -------------------------
(***************************************************************************)
(* Instances of WebhookDelivery for TLC: two deliveries of one             *)
(* subscription, one relay tick, two workers and one editor.               *)
(***************************************************************************)
EXTENDS WebhookDelivery

CONSTANTS d1, d2

\* The second delivery comes after the first attempt of the first one.
InOrder == status'[d2] # "absent" => minted'[d1] > 0
=============================================================================
