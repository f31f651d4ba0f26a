----------------------------- MODULE MCLifecycle -----------------------------
(* Instances of ServerLifecycle for TLC: see README.md. *)
EXTENDS ServerLifecycle
=============================================================================
