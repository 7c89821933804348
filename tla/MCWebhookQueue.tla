---------------------------- MODULE MCWebhookQueue ----------------------------
(* Small instances of WebhookQueue for TLC. *)
EXTENDS WebhookQueue, TLC

\* Every subscription asked for every event.
WantsAll == Events \X Subs
===============================================================================
