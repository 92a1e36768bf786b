----------------------------- MODULE MCWebhooks -----------------------------
(* Webhooks on a small instance.                                           *)
EXTENDS Webhooks
=============================================================================
