-------------------------- MODULE MCWebhookPipeline --------------------------
(* Instances of WebhookPipeline for TLC: liveness is checked, so that no    *)
(* symmetry of events, slots or requests is declared.                      *)
EXTENDS WebhookPipeline
=============================================================================
