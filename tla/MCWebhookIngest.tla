---------------------------- MODULE MCWebhookIngest ---------------------------
(***************************************************************************)
(* Instances of WebhookIngest for TLC: a message, another one under the    *)
(* same key with another body, and a forgery.                              *)
(***************************************************************************)
EXTENDS WebhookIngest

CONSTANTS ra, k1, x, y

Message(b, v) == [ref |-> ra, key |-> k1, body |-> b, valid |-> v]

MCMessages == {Message(x, TRUE), Message(y, TRUE), Message(y, FALSE)}
===============================================================================
