----------------------------- MODULE MCSessions -----------------------------
(* Small instances of AccountSessions for TLC. *)
EXTENDS AccountSessions, TLC

\* Users, passwords and calls are interchangeable: no definition orders them.
Symmetry == Permutations(Users) \union Permutations(Passwords) \union Permutations(Calls)
=============================================================================
