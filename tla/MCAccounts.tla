----------------------------- MODULE MCAccounts -----------------------------
(* Instances of AccountTokens for TLC: see README.md. *)
EXTENDS AccountTokens
=============================================================================
