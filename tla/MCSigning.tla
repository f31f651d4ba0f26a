----------------------------- MODULE MCSigning -----------------------------
(* Small instances of SigningWorkflow for TLC. *)
EXTENDS SigningWorkflow, TLC

\* Users, requests and calls are interchangeable: no definition orders them.
Symmetry == Permutations(Users) \union Permutations(Requests) \union Permutations(Calls)
=============================================================================
