--------------------------- MODULE MCProvisioning ---------------------------
(* Instances of VaultProvisioning for TLC: see README.md. *)
EXTENDS VaultProvisioning, TLC

\* "doge" is in no row of chains.
MCLists == {<<"eth">>, <<"doge", "eth">>}
UserSymmetry == Permutations(Users)
=============================================================================
