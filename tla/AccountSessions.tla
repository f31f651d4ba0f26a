-------------------------- MODULE AccountSessions --------------------------
(***************************************************************************)
(* Passwords and sessions: internal/auth/service.go, the transactions of   *)
(* internal/util/db/db.go it runs in, and the authentication middleware's  *)
(* lookups in front of it.                                                 *)
(*                                                                         *)
(* A session is a pair of rows, one in access_tokens and one in            *)
(* refresh_tokens.  Login, refresh and the two ways to set a password mint *)
(* one; refresh, logout, a new password and the deletion of the account    *)
(* remove some.  What a call decides on it reads BEFORE its transaction    *)
(* begins, in statements of their own.                                     *)
(*                                                                         *)
(* PostgreSQL runs the transactions at READ COMMITTED: a statement sees    *)
(* what is committed when it starts, a transaction's own writes become     *)
(* visible when it commits, and a row that another transaction has updated *)
(* or deleted is waited for.  A cycle of waiters costs one of them its     *)
(* transaction.                                                            *)
(*                                                                         *)
(* A call serves one HTTP request, once; the rows it mints carry its name, *)
(* as uuids fresh per call.  Every user here has registered and confirmed. *)
(***************************************************************************)
EXTENDS Naturals, FiniteSets

CONSTANTS
  Users,        \* accounts, by primary key
  Passwords,    \* hashing is equality here
  Calls,        \* the HTTP requests; bounds a run
  MaxInFlight,  \* how many calls are served at the same time
  Guarded,      \* which of the UserRoutes run the auth middleware
  Failures,     \* what may fail: a "statement" (or the caller goes away), a "commit"
  Gone,         \* the password of an account that is deleted
  Nothing       \* an absent token, password or lock holder

\* The routes whose handlers take the user from the context.
UserRoutes == {"change", "logout", "delete"}

ASSUME InFlightAssumption == MaxInFlight \in Nat
ASSUME SwitchAssumption   ==
  Guarded \subseteq UserRoutes /\ Failures \subseteq {"statement", "commit"}
ASSUME NamesAssumption    ==
  Gone \notin Passwords /\ Nothing \notin Passwords \union Calls /\ Gone # Nothing

VARIABLES
  password,   \* users.password, committed
  tokens,     \* the committed rows of access_tokens and refresh_tokens
  pc,         \* where each call stands
  local,      \* the Go variables of each call
  todo,       \* rows the call's running DELETE has found and not locked yet
  deleted,    \* rows the call's open transaction has deleted
  userLock    \* the transaction that has updated or deleted the users row

vars == <<password, tokens, pc, local, todo, deleted, userLock>>
tx   == <<todo, deleted, userLock>>

Tables == {"access", "refresh"}
Row    == Tables \X Calls
Kinds  == {"login", "refresh", "change", "reset", "logout", "delete"}

Minting  == {"login", "refresh", "change", "reset"}
Changing == {"change", "reset"}

Local ==
  {l \in [kind : Kinds, user : Users, password : Passwords \union {Nothing},
          access : Calls \union {Nothing}, refresh : Calls \union {Nothing}] :
     l.kind \in Changing => l.password # Nothing}

Answers == {"ok", "error", "panic"}
TxSteps == {"set_password", "delete_access", "delete_refresh", "refresh_delete",
            "logout_access", "logout_refresh", "delete_user",
            "insert", "touch", "commit"}
Steps   == {"new", "refresh_user", "reset_user", "auth_user"} \union TxSteps \union Answers

\* A call that has not started has no variables yet.
NoLocal == [kind |-> "none"]

InFlight == {c \in Calls : pc[c] \notin {"new"} \union Answers}
InTx     == {c \in Calls : pc[c] \in TxSteps}
Loaded   == InFlight \union {c \in Calls : pc[c] = "ok"}

UserOf(c)        == local[c].user
RowsOf(u, table) == {t \in tokens : t[1] = table /\ local[t[2]].user = u}
SessionsOf(u)    == {t \in tokens : local[t[2]].user = u}

\* The insert of a token row takes FOR KEY SHARE on its users row.
KeySharers(u) ==
  {d \in InTx : pc[d] \in {"touch", "commit"} /\ local[d].kind \in Minting
                  /\ UserOf(d) = u}

Init ==
  /\ password \in [Users -> Passwords]
  /\ tokens = {}
  /\ pc = [c \in Calls |-> "new"]
  /\ local = [c \in Calls |-> NoLocal]
  /\ todo = [c \in Calls |-> {}]
  /\ deleted = [c \in Calls |-> {}]
  /\ userLock = [u \in Users |-> Nothing]

GoTo(c, step) == pc' = [pc EXCEPT ![c] = step]

Arrives(c) == pc[c] = "new" /\ Cardinality(InFlight) < MaxInFlight

Begins(c, kind, u, p, access, refresh, step) ==
  /\ local' = [local EXCEPT ![c] =
       [kind |-> kind, user |-> u, password |-> p,
        access |-> access, refresh |-> refresh]]
  /\ GoTo(c, step)
  /\ UNCHANGED <<password, tokens, tx>>

-----------------------------------------------------------------------------
(* Before the transaction *)

\* Login: SELECT the user, compare the password.
LoginLoad(c, u, p) ==
  /\ password[u] = p
  /\ Begins(c, "login", u, p, Nothing, Nothing, "insert")

\* Refresh: SELECT the refresh token, then the user it belongs to.
RefreshLoadToken(c, d) ==
  /\ <<"refresh", d>> \in tokens
  /\ Begins(c, "refresh", UserOf(d), Nothing, Nothing, d, "refresh_user")

\* Mutant: the second query finds nothing and the call goes on.
RefreshLoadUserUnchecked(c) ==
  /\ pc[c] = "refresh_user"
  /\ local' = [local EXCEPT ![c].password = password[UserOf(c)]]
  /\ GoTo(c, "refresh_delete")
  /\ UNCHANGED <<password, tokens, tx>>

\* The second query finds no row if the account went in between; R.User is
\* then nil and user.IsActive panics.
RefreshLoadUser(c) ==
  /\ pc[c] = "refresh_user"
  /\ \/ /\ password[UserOf(c)] # Gone
        /\ local' = [local EXCEPT ![c].password = password[UserOf(c)]]
        /\ GoTo(c, "refresh_delete")
     \/ /\ password[UserOf(c)] = Gone
        /\ GoTo(c, "panic")
        /\ UNCHANGED local
  /\ UNCHANGED <<password, tokens, tx>>

\* ResetPassword: SELECT a reset token that is there and not expired, then the
\* user it belongs to.
ResetLoadToken(c, u, p) ==
  /\ password[u] # Gone
  /\ Begins(c, "reset", u, p, Nothing, Nothing, "reset_user")

\* As for refresh, R.User is nil if the account went in between.  Nothing checks
\* the current password.
ResetLoadUser(c) ==
  /\ pc[c] = "reset_user"
  /\ \/ password[UserOf(c)] # Gone /\ GoTo(c, "set_password")
     \/ password[UserOf(c)] = Gone /\ GoTo(c, "panic")
  /\ UNCHANGED <<password, tokens, local, tx>>

\* The middleware SELECTs the access token, then the user it belongs to.  The
\* request body is bound before the service is called: a new password, or the
\* refresh token to forget on logout, some token that was handed out.
AuthLoadToken(c, kind, d, p, refresh) ==
  /\ <<"access", d>> \in tokens
  /\ kind \in UserRoutes \intersect Guarded
  /\ p = Nothing <=> kind # "change"
  /\ kind # "logout" => refresh = Nothing
  /\ refresh # Nothing => pc[refresh] = "ok"
  /\ Begins(c, kind, UserOf(d), p, d, refresh, "auth_user")

\* The user that was loaded is checked against the current password the caller
\* gave, which is right or wrong; logout asks for none.
AuthLoadUser(c) ==
  /\ pc[c] = "auth_user"
  /\ \/ /\ password[UserOf(c)] # Gone
        /\ \/ local[c].kind = "change" /\ GoTo(c, "set_password")
           \/ local[c].kind = "logout" /\ GoTo(c, "logout_access")
           \/ local[c].kind = "delete" /\ GoTo(c, "delete_user")
           \/ local[c].kind # "logout" /\ GoTo(c, "error")
     \/ password[UserOf(c)] = Gone /\ GoTo(c, "panic")
  /\ UNCHANGED <<password, tokens, local, tx>>

\* Without the middleware there is no user in the context and the handlers of
\* change-password, logout and account dereference nil.
HandlerPanics(c) ==
  /\ UserRoutes \ Guarded # {}
  /\ GoTo(c, "panic")
  /\ UNCHANGED <<password, tokens, local, tx>>

\* Unknown user or token, wrong password, expired token.
Refuse(c) ==
  /\ GoTo(c, "error")
  /\ UNCHANGED <<password, tokens, local, tx>>

-----------------------------------------------------------------------------
(* Inside the transaction *)

RowFree(c, u) == userLock[u] \in {Nothing, c}
LockUser(c)   == userLock' = [userLock EXCEPT ![UserOf(c)] = c]

\* A DELETE finds its rows in the snapshot it starts with, once the statement
\* before it is through.
FindRows(c, rows, next) ==
  /\ todo[c] = {}
  /\ todo' = [todo EXCEPT ![c] = rows \ deleted[c]]
  /\ GoTo(c, next)
  /\ UNCHANGED <<password, tokens, local, deleted, userLock>>

\* It then locks them one by one, waits for those that another transaction has
\* deleted, and skips what is no longer there.
LockRow(c, t) ==
  /\ t \in todo[c]
  /\ \A d \in Calls \ {c} : t \notin deleted[d]
  /\ todo' = [todo EXCEPT ![c] = @ \ {t}]
  /\ deleted' = [deleted EXCEPT ![c] = @ \union ({t} \intersect tokens)]
  /\ UNCHANGED <<password, tokens, pc, local, userLock>>

\* Mutant: the password is written at the end, not first.
SetPasswordLast(c) ==
  /\ pc[c] = "set_password"
  /\ GoTo(c, "delete_access")
  /\ UNCHANGED <<password, tokens, local, tx>>

\* UPDATE users SET password: no row, no lock and no error if it is gone.
SetPassword(c) ==
  /\ pc[c] = "set_password"
  /\ \/ password[UserOf(c)] = Gone /\ UNCHANGED userLock
     \/ password[UserOf(c)] # Gone /\ RowFree(c, UserOf(c)) /\ LockUser(c)
  /\ GoTo(c, "delete_access")
  /\ UNCHANGED <<password, tokens, local, todo, deleted>>

\* authenticateUser with InvalidateExistingTokens.
DeleteAccess(c) ==
  /\ pc[c] = "delete_access"
  /\ FindRows(c, RowsOf(UserOf(c), "access"), "delete_refresh")

\* Mutant: refresh tokens are forgotten.
DeleteRefreshForgotten(c) ==
  /\ pc[c] = "delete_refresh"
  /\ FindRows(c, {}, "insert")

DeleteRefresh(c) ==
  /\ pc[c] = "delete_refresh"
  /\ FindRows(c, RowsOf(UserOf(c), "refresh"), "insert")

\* Mutant: the old token stays.
RefreshDeleteForgotten(c) ==
  /\ pc[c] = "refresh_delete"
  /\ FindRows(c, {}, "insert")

\* Refresh deletes the token it was shown; no row deleted is no error.
RefreshDelete(c) ==
  /\ pc[c] = "refresh_delete"
  /\ FindRows(c, {<<"refresh", local[c].refresh>>} \intersect tokens, "insert")

LogoutAccess(c) ==
  /\ pc[c] = "logout_access"
  /\ FindRows(c, {<<"access", local[c].access>>} \intersect tokens, "logout_refresh")

LogoutRefresh(c) ==
  /\ pc[c] = "logout_refresh"
  /\ FindRows(c, {<<"refresh", local[c].refresh>>} \intersect tokens, "commit")

\* DELETE FROM users waits for every transaction that has the row, in whatever
\* way; ON DELETE CASCADE then deletes the tokens it sees by then, the two tables
\* in either order.
DeleteUser(c) ==
  /\ pc[c] = "delete_user"
  /\ \/ /\ password[UserOf(c)] = Gone
        /\ UNCHANGED <<todo, userLock>>
     \/ /\ password[UserOf(c)] # Gone
        /\ RowFree(c, UserOf(c))
        /\ KeySharers(UserOf(c)) = {}
        /\ LockUser(c)
        /\ todo' = [todo EXCEPT ![c] = SessionsOf(UserOf(c))]
  /\ GoTo(c, "commit")
  /\ UNCHANGED <<password, tokens, local, deleted>>

\* Mutant: a transaction that fails is neither rolled back nor committed.
RollbackForgotten(c, answer) ==
  /\ GoTo(c, answer)
  /\ UNCHANGED <<password, tokens, local, tx>>

\* The transaction ends without effect.
Rollback(c, answer) ==
  /\ todo' = [todo EXCEPT ![c] = {}]
  /\ deleted' = [deleted EXCEPT ![c] = {}]
  /\ userLock' = [u \in Users |-> IF userLock[u] = c THEN Nothing ELSE userLock[u]]
  /\ GoTo(c, answer)
  /\ UNCHANGED <<password, tokens, local>>

BeingDeleted(c, u) ==
  \E d \in Calls \ {c} : userLock[u] = d /\ local[d].kind = "delete"

\* INSERT the pair of tokens; their foreign key refuses a user that is gone.
InsertTokens(c) ==
  /\ pc[c] = "insert"
  /\ todo[c] = {}
  /\ ~BeingDeleted(c, UserOf(c))
  /\ \/ /\ password[UserOf(c)] # Gone
        /\ GoTo(c, "touch")
        /\ UNCHANGED <<password, tokens, local, tx>>
     \/ /\ password[UserOf(c)] = Gone
        /\ Rollback(c, "error")

\* Mutant: last_authenticated_at is not written.
TouchNothing(c) ==
  /\ pc[c] = "touch"
  /\ GoTo(c, "commit")
  /\ UNCHANGED <<password, tokens, local, tx>>

\* UPDATE users SET last_authenticated_at; the KEY SHARE keeps the row there.
TouchUser(c) ==
  /\ pc[c] = "touch"
  /\ RowFree(c, UserOf(c))
  /\ LockUser(c)
  /\ GoTo(c, "commit")
  /\ UNCHANGED <<password, tokens, local, todo, deleted>>

Minted(c) == IF local[c].kind \in Minting THEN Tables \X {c} ELSE {}

\* What the transaction has written to users.password.
Written(c) ==
  IF local[c].kind \in Changing THEN local[c].password
  ELSE IF local[c].kind = "delete" THEN Gone
  ELSE password[UserOf(c)]

Commit(c) ==
  /\ pc[c] = "commit"
  /\ todo[c] = {}
  /\ password' = [password EXCEPT ![UserOf(c)] = Written(c)]
  /\ tokens' = (tokens \ deleted[c]) \union Minted(c)
  /\ deleted' = [deleted EXCEPT ![c] = {}]
  /\ userLock' = [u \in Users |-> IF userLock[u] = c THEN Nothing ELSE userLock[u]]
  /\ GoTo(c, "ok")
  /\ UNCHANGED <<local, todo>>

\* WithConfiguredTransaction logs an error of COMMIT and assigns it to a
\* variable nobody returns: the caller is told that all is well.
CommitFails(c) ==
  /\ "commit" \in Failures
  /\ pc[c] = "commit"
  /\ todo[c] = {}
  /\ Rollback(c, "ok")

\* A statement fails or the client goes away.
CallFails(c) ==
  /\ "statement" \in Failures
  /\ c \in InFlight
  /\ Rollback(c, "error")

-----------------------------------------------------------------------------
(* PostgreSQL's deadlock detector, which is not part of the repository.    *)

\* The transactions that c's statement is waiting for.
Blockers(c) ==
  IF c \notin InTx THEN {}
  ELSE IF todo[c] # {} THEN {d \in Calls \ {c} : todo[c] \intersect deleted[d] # {}}
  ELSE CASE pc[c] \in {"set_password", "touch"} -> {userLock[UserOf(c)]} \ {Nothing, c}
         [] pc[c] = "insert" -> {d \in {userLock[UserOf(c)]} \ {Nothing, c} :
                                   local[d].kind = "delete"}
         [] pc[c] = "delete_user" -> ({userLock[UserOf(c)]} \ {Nothing, c})
                                       \union KeySharers(UserOf(c))
         [] OTHER -> {}

WaitsFor(c) ==
  LET reach[n \in 0..Cardinality(Calls)] ==
        IF n = 0 THEN Blockers(c)
        ELSE LET nearer == reach[n - 1]
             IN  nearer \union UNION {Blockers(d) : d \in nearer}
  IN  reach[Cardinality(Calls)]

Deadlocked(c) == Blockers(c) # {} /\ c \in WaitsFor(c)

DeadlockVictim(c) == c \in InTx /\ Deadlocked(c) /\ Rollback(c, "error")

-----------------------------------------------------------------------------
Start(c) ==
  /\ Arrives(c)
  /\ \/ \E u \in Users, p \in Passwords : LoginLoad(c, u, p) \/ ResetLoadToken(c, u, p)
     \/ \E d \in Calls : RefreshLoadToken(c, d)
     \/ \E kind \in Kinds, d \in Calls, p \in Passwords \union {Nothing},
           refresh \in Calls \union {Nothing} : AuthLoadToken(c, kind, d, p, refresh)
     \/ HandlerPanics(c)
     \/ Refuse(c)

Proceed(c) ==
  \/ RefreshLoadUser(c) \/ ResetLoadUser(c) \/ AuthLoadUser(c)
  \/ SetPassword(c) \/ DeleteAccess(c) \/ DeleteRefresh(c)
  \/ RefreshDelete(c) \/ LogoutAccess(c) \/ LogoutRefresh(c) \/ DeleteUser(c)
  \/ \E t \in Row : LockRow(c, t)
  \/ InsertTokens(c) \/ TouchUser(c) \/ Commit(c)
  \/ DeadlockVictim(c)

Next == \E c \in Calls : Start(c) \/ Proceed(c) \/ CommitFails(c) \/ CallFails(c)

Spec == Init /\ [][Next]_vars

\* The Go scheduler runs every call, PostgreSQL grants a lock that stays free
\* to whoever waits for it and breaks every deadlock.
FairSpec == Spec /\ \A c \in Calls : WF_vars(Proceed(c))

-----------------------------------------------------------------------------
TypeOK ==
  /\ password \in [Users -> Passwords \union {Gone}]
  /\ tokens \subseteq Row
  /\ pc \in [Calls -> Steps]
  /\ local \in [Calls -> Local \union {NoLocal}]
  /\ \A c \in Loaded : local[c] \in Local
  /\ todo \in [Calls -> SUBSET Row]
  /\ deleted \in [Calls -> SUBSET Row]
  /\ userLock \in [Users -> Calls \union {Nothing}]

\* The moment a password changes, by change or by reset, the only tokens the
\* account has left are those the change mints, and a deleted account has none:
\* a login or refresh that commits while UpdatePassword is between its DELETEs
\* and its COMMIT would slip through, were it not that both write the users row
\* (authenticateUser updates last_authenticated_at even though it need not).
ChangeRevokes ==
  [][\A u \in Users :
       password'[u] # password[u] =>
         \A t \in tokens' :
           UserOf(t[2]) = u => pc'[t[2]] = "ok" /\ pc[t[2]] # "ok"
                               /\ local[t[2]].kind \in Changing]_vars

\* Logins, logouts and password changes never wait for each other in a circle,
\* whatever rows they share: among any of them, one waits for none of the
\* others.  Every circle has a refresh in it, which takes its token row before
\* the users row, or the deletion of an account, whose cascade may take the
\* refresh tokens before the access tokens.
NoCircleOfChanges ==
  ~\E waiting \in SUBSET {c \in InTx : local[c].kind \notin {"refresh", "delete"}} :
      /\ waiting # {}
      /\ \A c \in waiting : Blockers(c) \intersect waiting # {}

\* Every call is answered: none keeps a row locked for good.
CallsEnd == \A c \in Calls : pc[c] # "new" ~> pc[c] \in Answers

\* Every session in the database was obtained with the password the account
\* has now, by a login or down a chain of refreshes (auth.yml:81-84: a reset
\* invalidates all current access and refresh tokens).  Login and refresh read the
\* password before their transaction, and it may change in between.
NoStaleSession ==
  \A t \in tokens : local[t[2]].password = password[UserOf(t[2])]

\* A refresh token is redeemed at most once (auth.yml:162-163: the old refresh
\* token will be invalidated).  Two calls may both have loaded it.
RedeemedOnce ==
  \A c, d \in Calls :
    /\ pc[c] = "ok" /\ pc[d] = "ok"
    /\ local[c].kind = "refresh" /\ local[d].kind = "refresh"
    /\ local[c].refresh = local[d].refresh
    => c = d

\* An answer of success to a password change means that it has happened
\* (auth.yml:35-37: "After successful password change, ...").
SuccessIsStored ==
  [][\A c \in Calls :
       (pc[c] \notin Answers /\ pc'[c] = "ok" /\ local[c].kind \in Changing) =>
         password'[UserOf(c)] = local[c].password]_vars

\* No handler dereferences nil: whoever calls the guarded routes is either let
\* in or refused (post_change_password_test.go:29-39 expects a 200).
NobodyPanics == \A c \in Calls : pc[c] # "panic"

-----------------------------------------------------------------------------
(* The strengthening that makes ChangeRevokes provable.                    *)

\* The users row is locked by a transaction of that user that is still open
\* and past its first statement.
LocksHeld ==
  \A u \in Users, c \in Calls :
    userLock[u] = c =>
      c \in InTx /\ UserOf(c) = u /\ pc[c] \notin {"set_password", "delete_user"}

\* Whoever is about to commit tokens or a password has the users row.
NeedsUser(c) ==
  \/ pc[c] = "commit" /\ local[c].kind \in Minting
  \/ pc[c] = "commit" /\ local[c].kind = "delete" /\ password[UserOf(c)] # Gone
  \/ pc[c] \in {"delete_access", "delete_refresh", "insert", "touch"}
       /\ local[c].kind \in Changing /\ password[UserOf(c)] # Gone

CommitHoldsUser == \A c \in InTx : NeedsUser(c) => userLock[UserOf(c)] = c

\* Tokens are minted by calls that have ended, so their owner is fixed.
MintersEnded == \A t \in tokens : pc[t[2]] = "ok"

\* The kinds of calls that get to each step.
StepFits(c) ==
  /\ pc[c] \in {"set_password", "delete_access", "delete_refresh"}
       => local[c].kind \in Changing
  /\ pc[c] \in {"refresh_user", "refresh_delete"} => local[c].kind = "refresh"
  /\ pc[c] = "reset_user" => local[c].kind = "reset"
  /\ pc[c] \in {"logout_access", "logout_refresh"} => local[c].kind = "logout"
  /\ pc[c] = "delete_user" => local[c].kind = "delete"
  /\ pc[c] \in {"insert", "touch"} => local[c].kind \in Minting

StepsOfKind == \A c \in Calls : StepFits(c)

\* An account is neither gone nor being deleted while a transaction has tokens
\* for it that it has not committed.
ShareHeld(c) ==
  c \in KeySharers(UserOf(c)) =>
    password[UserOf(c)] # Gone /\ ~BeingDeleted(c, UserOf(c))

KeyShareHeld == \A c \in InTx : ShareHeld(c)

\* The DELETEs of a transaction that holds the users row have found everything
\* there is to delete.
Found(c, table) ==
  \A t \in RowsOf(UserOf(c), table) : t \in todo[c] \union deleted[c]

Swept(c) ==
  /\ local[c].kind \in Changing /\ pc[c] \in {"delete_refresh", "insert", "touch", "commit"}
       => Found(c, "access")
  /\ local[c].kind \in Changing /\ pc[c] \in {"insert", "touch", "commit"}
       => Found(c, "refresh")
  /\ local[c].kind = "delete" /\ pc[c] = "commit"
       => Found(c, "access") /\ Found(c, "refresh")

SweepComplete == \A c \in InTx : userLock[UserOf(c)] = c => Swept(c)

\* What ChangeRevokes rests on.
SessionInv ==
  /\ TypeOK
  /\ LocksHeld
  /\ CommitHoldsUser
  /\ MintersEnded
  /\ StepsOfKind
  /\ KeyShareHeld
  /\ SweepComplete

-----------------------------------------------------------------------------
(* The strengthening that makes the order of the locks provable, and that  *)
(* a transaction takes effect at once.                                     *)

Touched(c) == todo[c] \union deleted[c]

\* The sessions handed out so far, and whose they are.
Issued == {s \in Calls \X Users :
             pc[s[1]] = "ok" /\ local[s[1]].kind \in Minting /\ UserOf(s[1]) = s[2]}

\* The sessions whose refresh token was exchanged.
Redeemed == {d \in Calls : \E c \in Calls :
               pc[c] = "ok" /\ local[c].kind = "refresh" /\ local[c].refresh = d}

TokensIssued == \A t \in tokens : <<t[2], UserOf(t[2])>> \in Issued

\* Whoever shows a token shows one that its user was given.
ShownWasIssued(c) ==
  /\ local[c].kind = "refresh" => <<local[c].refresh, UserOf(c)>> \in Issued
  /\ local[c].kind \in {"change", "logout", "delete"}
       => <<local[c].access, UserOf(c)>> \in Issued
  /\ local[c].kind = "logout" /\ local[c].refresh # Nothing
       => pc[local[c].refresh] = "ok"

\* An account that is gone has no sessions.
GoneIsEmpty == \A t \in tokens : password[UserOf(t[2])] # Gone

Shown(c) ==
  CASE local[c].kind = "refresh" -> {<<"refresh", local[c].refresh>>}
    [] local[c].kind = "logout"  -> {<<"access", local[c].access>>,
                                     <<"refresh", local[c].refresh>>}
    [] OTHER -> {}

\* The rows a call may delete: those it was shown or those of its account.
MayDelete(c) ==
  IF local[c].kind \in Changing \union {"delete"}
  THEN {t \in Row : pc[t[2]] = "ok" /\ UserOf(t[2]) = UserOf(c)}
  ELSE Shown(c)

AccessRows  == {t \in Row : t[1] = "access"}
RefreshRows == {t \in Row : t[1] = "refresh"}

\* Which rows a call has found and locked at each of its steps: the access
\* tokens come before the refresh tokens, except in a cascade, and a password
\* change has the users row before it has any of them.
RowsInOrder(c) ==
  /\ Touched(c) \subseteq MayDelete(c) \intersect Row
  /\ todo[c] \intersect deleted[c] = {}
  /\ c \notin InTx \/ pc[c] \in {"set_password", "delete_access", "refresh_delete",
                                 "logout_access", "delete_user"}
       => Touched(c) = {}
  /\ pc[c] \in {"delete_refresh", "logout_refresh"} => Touched(c) \subseteq AccessRows
  /\ pc[c] = "insert" => todo[c] \subseteq RefreshRows
  /\ pc[c] = "commit" /\ local[c].kind = "logout" => todo[c] \subseteq RefreshRows
  /\ pc[c] = "touch" => todo[c] = {}
  /\ pc[c] = "commit" /\ local[c].kind \in Minting => todo[c] = {}
  /\ local[c].kind \in Changing /\ Touched(c) # {} => userLock[UserOf(c)] = c

\* The DELETEs by primary key have found what there is to find, too.
ShownFound(c) ==
  /\ local[c].kind = "refresh" /\ pc[c] \in {"insert", "touch", "commit"}
       => Shown(c) \intersect tokens \subseteq Touched(c)
  /\ local[c].kind = "logout" /\ pc[c] \in {"logout_refresh", "commit"}
       => Shown(c) \intersect tokens \intersect AccessRows \subseteq Touched(c)
  /\ local[c].kind = "logout" /\ pc[c] = "commit"
       => Shown(c) \intersect tokens \subseteq Touched(c)

\* The invariant the other theorems rest on.
StoreInv ==
  /\ SessionInv
  /\ TokensIssued
  /\ GoneIsEmpty
  /\ \A c \in Loaded : ShownWasIssued(c)
  /\ \A c \in Calls : RowsInOrder(c)
  /\ \A c \in InTx : ShownFound(c)

\* Every call takes effect at once, or not at all, on the sessions as they are
\* when it commits, whatever it read before and whatever ran beside it: the
\* transactions of internal/auth/service.go implement SessionStore.
Store == INSTANCE SessionStore WITH issued <- Issued, redeemed <- Redeemed

ImplementsStore == Store!StoreSpec

-----------------------------------------------------------------------------
(* What holds as well when no COMMIT is lost.                              *)

\* A refresh token that was exchanged is gone for good.
RedeemedIsGone == \A d \in Redeemed : <<"refresh", d>> \notin tokens

\* Once a refresh has been answered, its token is refused, whatever overlapped
\* it and whatever logins and resets came since: whoever exchanges it
\* a second time had loaded it before the first exchange was committed.
RedeemedIsRefused ==
  [][\A c \in Calls :
       pc[c] = "new" /\ pc'[c] = "refresh_user" =>
         local'[c].refresh \notin Redeemed]_vars
=============================================================================
