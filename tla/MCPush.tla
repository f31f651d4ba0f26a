------------------------------- MODULE MCPush -------------------------------
(* Instances of PushTokens for TLC: see README.md. *)
EXTENDS PushTokens

\* Clients register "t"; "u" is one that ann has from earlier days, of
\* another provider.
MCOffers == {<<"t", "fcm">>}
MCEarlier == {{[id |-> 0, token |-> "u", user |-> "ann", provider |-> "apn"]}}
=============================================================================
