---------------------------- MODULE SessionStore ----------------------------
(***************************************************************************)
(* What internal/auth/service.go promises of the passwords and tokens it   *)
(* stores: every request that is answered well took effect in one step, or *)
(* its COMMIT was lost.  AccountSessions shows that its transactions do.   *)
(***************************************************************************)
CONSTANTS Users, Passwords, Calls, Gone

VARIABLES
  password,   \* of each account, Gone once it is deleted
  tokens,     \* the tokens that are valid
  issued,     \* who was handed which session, valid or not
  redeemed    \* the sessions whose refresh token was exchanged for another

storeVars == <<password, tokens, issued, redeemed>>

\* A session is a token of each kind that carries the name of its request.
Session(c) == {"access", "refresh"} \X {c}
SessionsOwned(u) == {t \in tokens : <<t[2], u>> \in issued}

StoreInit ==
  /\ password \in [Users -> Passwords]
  /\ tokens = {}
  /\ issued = {}
  /\ redeemed = {}

Issue(c, u) ==
  /\ \A v \in Users : <<c, v>> \notin issued
  /\ issued' = issued \union {<<c, u>>}

Login(c, u) ==
  /\ password[u] # Gone
  /\ Issue(c, u)
  /\ tokens' = tokens \union Session(c)
  /\ UNCHANGED <<password, redeemed>>

\* For the account the token was issued to; the token is not valid any more.
\* That it still was is not promised: see RedeemedOnce.
Refresh(c, d, u) ==
  /\ <<d, u>> \in issued
  /\ password[u] # Gone
  /\ Issue(c, u)
  /\ redeemed' = redeemed \union {d}
  /\ tokens' = (tokens \ {<<"refresh", d>>}) \union Session(c)
  /\ UNCHANGED password

\* The new session is the only one left.
ChangePassword(c, u, p) ==
  /\ password[u] # Gone
  /\ Issue(c, u)
  /\ password' = [password EXCEPT ![u] = p]
  /\ tokens' = (tokens \ SessionsOwned(u)) \union Session(c)
  /\ UNCHANGED redeemed

\* At most one refresh token is named, and it need not be the access token's.
Logout(d, named) ==
  /\ \A e, f \in named : e = f
  /\ tokens' = tokens \ ({<<"access", d>>} \union {"refresh"} \X named)
  /\ UNCHANGED <<password, issued, redeemed>>

\* Only with a token of the account itself.
DeleteAccount(d, u) ==
  /\ <<d, u>> \in issued
  /\ password' = [password EXCEPT ![u] = Gone]
  /\ tokens' = tokens \ SessionsOwned(u)
  /\ UNCHANGED <<issued, redeemed>>

\* The caller is handed a session that was not stored.
LoseCommit(c, u) ==
  /\ Issue(c, u)
  /\ UNCHANGED <<password, tokens, redeemed>>

LoseRefresh(c, d, u) ==
  /\ <<d, u>> \in issued
  /\ Issue(c, u)
  /\ redeemed' = redeemed \union {d}
  /\ UNCHANGED <<password, tokens>>

StoreNext ==
  \/ \E c \in Calls, u \in Users :
       \/ Login(c, u)
       \/ \E d \in Calls : Refresh(c, d, u) \/ LoseRefresh(c, d, u)
       \/ \E p \in Passwords : ChangePassword(c, u, p)
       \/ DeleteAccount(c, u)
       \/ LoseCommit(c, u)
  \/ \E d \in Calls, named \in SUBSET Calls : Logout(d, named)

StoreSpec == StoreInit /\ [][StoreNext]_storeVars
=============================================================================
