---------------------------- MODULE AccountTokens ----------------------------
(***************************************************************************)
(* Registration, its confirmation, forgot-password and the redemption of   *)
(* reset tokens (internal/auth/service.go), statement by statement, with a *)
(* clock and with the bounded connection pool all of them share            *)
(* (internal/persistence/postgres.go).                                     *)
(*                                                                         *)
(* A call is one HTTP request.  Calls are numbered in the order in which   *)
(* they arrive, and a token is named by the call that inserted it.         *)
(***************************************************************************)
EXTENDS Integers, FiniteSets

CONSTANTS
  Names,                \* user names
  MaxCalls,             \* bound: calls of a behaviour
  MaxInFlight,          \* bound: calls at once
  MaxTime,              \* bound: the clock stops here
  EarlierAge,           \* how long ago active accounts were last sent a reset link
  Limits,               \* the sizes of the connection pool to look at (DB_MAX_OPEN_CONNS)
  ResetValidity,        \* PasswordResetTokenValidity
  ResetDebounce,        \* PasswordResetTokenDebounceDuration
  ResetReuse,           \* PasswordResetTokenReuseDuration
  ConfirmValidity,      \* ConfirmationTokenValidity
  ConfirmDebounce,      \* ConfirmationTokenDebounceDuration
  RequiresConfirmation, \* RegistrationRequiresConfirmation
  Failures              \* whether calls may fail between statements

ASSUME NamesAssumption == Names # {}
ASSUME BoundsAssumption ==
  MaxCalls \in Nat /\ MaxInFlight \in Nat /\ MaxTime \in Nat /\ EarlierAge \in Nat
ASSUME LimitsAssumption == \A n \in Limits : n \in Nat \ {0}
ASSUME SwitchesAssumption == RequiresConfirmation \in BOOLEAN /\ Failures \in BOOLEAN
ASSUME ResetPeriods ==
  /\ ResetValidity \in Nat /\ ResetDebounce \in Nat /\ ResetReuse \in Nat
  /\ ResetDebounce <= ResetValidity /\ ResetReuse <= ResetValidity
ASSUME ConfirmPeriods ==
  ConfirmValidity \in Nat /\ ConfirmDebounce \in Nat /\ ConfirmDebounce <= ConfirmValidity

VARIABLES
  now,            \* the clock
  users,          \* users: the status of each name's account
  confirmations,  \* confirmation_tokens
  resets,         \* password_reset_tokens
  pool,           \* its size, and the calls that hold a connection for their transaction
  pc,             \* where each call is
  local,          \* its name, its token and when it chose the token
  mails,          \* links sent
  sessions,       \* sessions minted by a confirmation
  unsaved,        \* calls whose COMMIT failed, which they were not told
  overlap         \* which calls were ever in flight together

tables == <<users, confirmations, resets, sessions, unsaved>>
vars == <<now, users, confirmations, resets, pool, pc, local, mails, sessions, unsaved,
          overlap>>

Calls == 1 .. MaxCalls

\* A row of either token table; 0 made those of earlier days.
Token == [by : 0 .. MaxCalls, name : Names, created : Nat, until : Nat]
NoToken == [by |-> 0]

Status == {"absent", "unconfirmed", "active"}

\* Steps inside a transaction, hence with a connection held.
TxSteps == {"insertUser", "insertConfirmation", "commitRegister",
            "confirmToken", "confirmUser", "confirmUpdate", "confirmDelete",
            "confirmMint", "confirmCommit",
            "forgotReuse", "forgotInsert", "forgotCommit"}
\* CompleteRegister queries through s.db while its transaction is open.
SecondConn == {"confirmToken", "confirmUser"}
\* Steps after the INSERT or UPDATE of the users row and before COMMIT.
UserLocked == {"insertConfirmation", "commitRegister", "confirmDelete", "confirmMint",
               "confirmCommit"}
Ended == {"idle", "done"}
Steps == Ended \union TxSteps \union
         {"beginRegister", "checkConfirmation", "resend", "mailConfirmation",
          "forgotDebounce", "forgotBegin", "mailReset", "resetChange"}

TypeOK ==
  /\ now \in Nat
  /\ users \in [Names -> Status]
  /\ confirmations \subseteq Token /\ resets \subseteq Token
  /\ pool \in [limit : Limits, held : SUBSET Calls]
  /\ pc \in [Calls -> Steps]
  /\ local \in [Calls -> [name : Names, token : Token \union {NoToken}, at : Nat]]
  /\ mails \subseteq [kind : {"confirmation", "reset"}, token : Token, at : Nat]
  /\ sessions \subseteq [by : Calls, token : Token]
  /\ unsaved \subseteq Calls
  /\ overlap \subseteq Calls \X Calls

Init ==
  /\ now = EarlierAge
  /\ users \in [Names -> {"absent", "active"}]
  /\ confirmations = {}
  /\ resets = {[by |-> 0, name |-> n, created |-> 0, until |-> ResetValidity] :
                 n \in {m \in Names : users[m] = "active"}}
  /\ pool \in [limit : Limits, held : {{}}]
  /\ pc = [c \in Calls |-> "idle"]
  /\ local = [c \in Calls |-> [name |-> CHOOSE n \in Names : TRUE, token |-> NoToken, at |-> 0]]
  /\ mails = {[kind |-> "reset", token |-> t, at |-> 0] : t \in resets}
  /\ sessions = {} /\ unsaved = {} /\ overlap = {}

InFlight == {c \in Calls : pc[c] \notin Ended}

-----------------------------------------------------------------------------
(* Connections, calls and queries *)

\* database/sql hands out a connection for a query or a transaction, or waits.
ConnFree == Cardinality(pool.held) < pool.limit
Acquire(c) == ConnFree /\ pool' = [pool EXCEPT !.held = @ \union {c}]
Release(c) == pool' = [pool EXCEPT !.held = @ \ {c}]

GoTo(c, step) == pc' = [pc EXCEPT ![c] = step]
Bind(c, n, t) == local' = [local EXCEPT ![c] = [name |-> n, token |-> t, at |-> now]]

\* Call c, the next to arrive, takes step.
Start(c, step) ==
  /\ pc[c] = "idle"
  /\ \A d \in Calls : d < c => pc[d] # "idle"
  /\ Cardinality(InFlight) < MaxInFlight
  /\ GoTo(c, step)
  /\ overlap' = overlap \union (IF step \in Ended THEN {} ELSE InFlight \X {c})

\* The rows of a token table a query for a name, a creation time after since
\* and an end of validity after now returns.
Valid(table, n, since) ==
  {t \in table : t.name = n /\ t.created > since /\ t.until > now}

\* Mutant: the validity is subtracted.
NewTokenPast(c, validity) ==
  [by |-> c, name |-> local[c].name, created |-> now, until |-> now - validity]
NewToken(c, validity) ==
  [by |-> c, name |-> local[c].name, created |-> now, until |-> now + validity]

\* Another transaction has written the users row of n and not ended.
UserRowFree(c) ==
  \A d \in Calls \ {c} : pc[d] \in UserLocked => local[d].name # local[c].name

\* Mutant: the transaction is left open.
RollbackForgotten(c) == GoTo(c, "done") /\ UNCHANGED pool
\* The error return of a transaction's callback: ROLLBACK.
Rollback(c) == GoTo(c, "done") /\ Release(c)

-----------------------------------------------------------------------------
(* Register *)

\* Load the user by name.  An active one is a conflict.
RegisterLoad(c, n) ==
  /\ ConnFree
  /\ Start(c, CASE users[n] = "absent" -> "beginRegister"
                [] users[n] = "unconfirmed" -> "checkConfirmation"
                [] OTHER -> "done")
  /\ Bind(c, n, NoToken)
  /\ UNCHANGED <<now, tables, pool, mails>>

\* Mutant: the bound lies in the future.
CheckConfirmationAhead(c) ==
  /\ pc[c] = "checkConfirmation"
  /\ ConnFree
  /\ GoTo(c, IF Valid(confirmations, local[c].name, now + ConfirmDebounce) # {}
             THEN "done" ELSE "resend")
  /\ UNCHANGED <<now, tables, pool, local, mails, overlap>>

\* A token inside the debounce time: answer without a new one.
CheckConfirmation(c) ==
  /\ pc[c] = "checkConfirmation"
  /\ ConnFree
  /\ GoTo(c, IF Valid(confirmations, local[c].name, now - ConfirmDebounce) # {}
             THEN "done" ELSE "resend")
  /\ UNCHANGED <<now, tables, pool, local, mails, overlap>>

\* Insert a further token, without a transaction.
Resend(c) ==
  /\ pc[c] = "resend"
  /\ ConnFree
  /\ LET t == NewToken(c, ConfirmValidity) IN
       /\ confirmations' = confirmations \union {t}
       /\ Bind(c, local[c].name, t)
  /\ GoTo(c, "mailConfirmation")
  /\ UNCHANGED <<now, users, resets, sessions, unsaved, pool, mails, overlap>>

BeginRegister(c) ==
  /\ pc[c] = "beginRegister"
  /\ Acquire(c)
  /\ GoTo(c, "insertUser")
  /\ UNCHANGED <<now, tables, local, mails, overlap>>

\* Insert the user and its profile.  UNIQUE (username) waits for an uncommitted
\* row of the same name and fails on a committed one.
InsertUser(c) ==
  /\ pc[c] = "insertUser"
  /\ UserRowFree(c)
  /\ IF users[local[c].name] # "absent"
     THEN Rollback(c)
     ELSE /\ GoTo(c, IF RequiresConfirmation THEN "insertConfirmation" ELSE "commitRegister")
          /\ UNCHANGED pool
  /\ UNCHANGED <<now, tables, local, mails, overlap>>

InsertConfirmation(c) ==
  /\ pc[c] = "insertConfirmation"
  /\ Bind(c, local[c].name, NewToken(c, ConfirmValidity))
  /\ GoTo(c, "commitRegister")
  /\ UNCHANGED <<now, tables, pool, mails, overlap>>

\* Without confirmation the handler goes on with Login, see AccountSessions.
CommitRegister(c) ==
  /\ pc[c] = "commitRegister"
  /\ users' = [users EXCEPT ![local[c].name] =
                 IF RequiresConfirmation THEN "unconfirmed" ELSE "active"]
  /\ confirmations' = confirmations \union ({local[c].token} \ {NoToken})
  /\ Release(c)
  /\ GoTo(c, IF RequiresConfirmation THEN "mailConfirmation" ELSE "done")
  /\ UNCHANGED <<now, resets, sessions, unsaved, local, mails, overlap>>

\* The handlers mail the link after the service has returned.
Mail(c) ==
  /\ \/ /\ pc[c] = "mailConfirmation"
        /\ mails' = mails \union
             {[kind |-> "confirmation", token |-> local[c].token, at |-> local[c].at]}
     \/ /\ pc[c] = "mailReset"
        /\ mails' = mails \union
             {[kind |-> "reset", token |-> local[c].token, at |-> local[c].at]}
  /\ GoTo(c, "done")
  /\ UNCHANGED <<now, tables, pool, local, overlap>>

-----------------------------------------------------------------------------
(* CompleteRegister: the links of mails are what callers can present *)

ConfirmBegin(c, t) ==
  /\ Start(c, "confirmToken")
  /\ Acquire(c)
  /\ Bind(c, t.name, t)
  /\ UNCHANGED <<now, tables, mails>>

\* The token, through the pool and not through the transaction.
ConfirmToken(c) ==
  /\ pc[c] = "confirmToken"
  /\ ConnFree
  /\ IF local[c].token \in confirmations /\ local[c].token.until > now
     THEN GoTo(c, "confirmUser") /\ UNCHANGED pool
     ELSE Rollback(c)
  /\ UNCHANGED <<now, tables, local, mails, overlap>>

\* Its user, eagerly loaded by a second query.  For an active account the
\* transaction commits without a write.
ConfirmUser(c) ==
  /\ pc[c] = "confirmUser"
  /\ ConnFree
  /\ IF users[local[c].name] = "unconfirmed"
     THEN GoTo(c, "confirmUpdate") /\ UNCHANGED pool
     ELSE Release(c) /\ GoTo(c, "done")
  /\ UNCHANGED <<now, tables, local, mails, overlap>>

\* UPDATE users: waits for the row, and does not look at it again.
ConfirmUpdate(c) ==
  /\ pc[c] = "confirmUpdate"
  /\ UserRowFree(c)
  /\ GoTo(c, "confirmDelete")
  /\ UNCHANGED <<now, tables, pool, local, mails, overlap>>

\* DELETE the token: no row is no error.
ConfirmDelete(c) ==
  /\ pc[c] = "confirmDelete"
  /\ GoTo(c, "confirmMint")
  /\ UNCHANGED <<now, tables, pool, local, mails, overlap>>

\* authenticateUser, without the invalidation of older sessions.
ConfirmMint(c) ==
  /\ pc[c] = "confirmMint"
  /\ GoTo(c, "confirmCommit")
  /\ UNCHANGED <<now, tables, pool, local, mails, overlap>>

\* Mutant: the user and the token are written through another transaction.
ConfirmCommitSession(c) ==
  /\ pc[c] = "confirmCommit"
  /\ sessions' = sessions \union {[by |-> c, token |-> local[c].token]}
  /\ Release(c)
  /\ GoTo(c, "done")
  /\ UNCHANGED <<now, users, confirmations, resets, unsaved, local, mails, overlap>>

\* Mutant: the session is minted outside the transaction, and fails.
ConfirmCommitAccount(c) ==
  /\ pc[c] = "confirmCommit"
  /\ users' = [users EXCEPT ![local[c].name] = "active"]
  /\ confirmations' = confirmations \ {local[c].token}
  /\ Release(c)
  /\ GoTo(c, "done")
  /\ UNCHANGED <<now, resets, sessions, unsaved, local, mails, overlap>>

\* The three writes become visible.
ConfirmCommit(c) ==
  /\ pc[c] = "confirmCommit"
  /\ users' = [users EXCEPT ![local[c].name] = "active"]
  /\ confirmations' = confirmations \ {local[c].token}
  /\ sessions' = sessions \union {[by |-> c, token |-> local[c].token]}
  /\ Release(c)
  /\ GoTo(c, "done")
  /\ UNCHANGED <<now, resets, unsaved, local, mails, overlap>>

-----------------------------------------------------------------------------
(* InitPasswordReset *)

\* Load the user; names without an active account are answered all the same.
ForgotLoad(c, n) ==
  /\ ConnFree
  /\ Start(c, CASE users[n] # "active" -> "done"
                [] ResetDebounce > 0 -> "forgotDebounce"
                [] OTHER -> "forgotBegin")
  /\ Bind(c, n, NoToken)
  /\ UNCHANGED <<now, tables, pool, mails>>

ForgotDebounce(c) ==
  /\ pc[c] = "forgotDebounce"
  /\ ConnFree
  /\ GoTo(c, IF Valid(resets, local[c].name, now - ResetDebounce) # {}
             THEN "done" ELSE "forgotBegin")
  /\ UNCHANGED <<now, tables, pool, local, mails, overlap>>

ForgotBegin(c) ==
  /\ pc[c] = "forgotBegin"
  /\ Acquire(c)
  /\ GoTo(c, "forgotReuse")
  /\ UNCHANGED <<now, tables, local, mails, overlap>>

\* Mutant: the bound lies in the future, as it once did.
ForgotReuseAhead(c) ==
  /\ pc[c] = "forgotReuse"
  /\ LET recent == Valid(resets, local[c].name, now + ResetReuse) IN
       \/ \E t \in recent : Bind(c, local[c].name, t) /\ GoTo(c, "forgotCommit")
       \/ recent = {} /\ GoTo(c, "forgotInsert") /\ UNCHANGED local
  /\ UNCHANGED <<now, tables, pool, mails, overlap>>

\* Mutant: any valid token is reused, however old.
ForgotReuseAny(c) ==
  /\ pc[c] = "forgotReuse"
  /\ LET recent == Valid(resets, local[c].name, -1) IN
       \/ \E t \in recent : Bind(c, local[c].name, t) /\ GoTo(c, "forgotCommit")
       \/ recent = {} /\ GoTo(c, "forgotInsert") /\ UNCHANGED local
  /\ UNCHANGED <<now, tables, pool, mails, overlap>>

\* A valid token of the reuse period, any of them, or none.
ForgotReuse(c) ==
  /\ pc[c] = "forgotReuse"
  /\ LET recent == Valid(resets, local[c].name, now - ResetReuse) IN
       \/ \E t \in recent : Bind(c, local[c].name, t) /\ GoTo(c, "forgotCommit")
       \/ recent = {} /\ GoTo(c, "forgotInsert") /\ UNCHANGED local
  /\ UNCHANGED <<now, tables, pool, mails, overlap>>

ForgotInsert(c) ==
  /\ pc[c] = "forgotInsert"
  /\ Bind(c, local[c].name, NewToken(c, ResetValidity))
  /\ GoTo(c, "forgotCommit")
  /\ UNCHANGED <<now, tables, pool, mails, overlap>>

ForgotCommit(c) ==
  /\ pc[c] = "forgotCommit"
  /\ resets' = resets \union {local[c].token}
  /\ Release(c)
  /\ GoTo(c, "mailReset")
  /\ UNCHANGED <<now, users, confirmations, sessions, unsaved, local, mails, overlap>>

-----------------------------------------------------------------------------
(* ResetPassword *)

\* The token and its user; refused after its last moment, not at it.
ResetLoad(c, t) ==
  /\ ConnFree
  /\ Start(c, IF t \in resets /\ now <= t.until THEN "resetChange" ELSE "done")
  /\ Bind(c, t.name, t)
  /\ UNCHANGED <<now, tables, pool, mails>>

\* UpdatePassword, whose transaction AccountSessions models in its statements.
\* The token stays.
ResetChange(c) ==
  /\ pc[c] = "resetChange"
  /\ ConnFree
  /\ UserRowFree(c)
  /\ GoTo(c, "done")
  /\ UNCHANGED <<now, tables, pool, local, mails, overlap>>

-----------------------------------------------------------------------------

\* An error, a cancelled request or a crash: the open transaction is rolled
\* back, an inserted token or a missing mail stays as it is.
CallFails(c) ==
  /\ Failures
  /\ c \in InFlight
  /\ Rollback(c)
  /\ UNCHANGED <<now, tables, local, mails, overlap>>

\* COMMIT fails: nothing is stored, and the helper reports success (db.go:46).
CommitFails(c) ==
  /\ Failures
  /\ \/ pc[c] = "commitRegister" /\ GoTo(c, IF RequiresConfirmation THEN "mailConfirmation" ELSE "done")
     \/ pc[c] = "confirmCommit" /\ GoTo(c, "done")
     \/ pc[c] = "forgotCommit" /\ GoTo(c, "mailReset")
  /\ Release(c)
  /\ unsaved' = unsaved \union {c}
  /\ UNCHANGED <<now, users, confirmations, resets, sessions, local, mails, overlap>>

Tick == now < MaxTime /\ now' = now + 1 /\ UNCHANGED <<tables, pool, pc, local, mails, overlap>>

Proceed(c) ==
  \/ CheckConfirmation(c) \/ Resend(c)
  \/ BeginRegister(c) \/ InsertUser(c) \/ InsertConfirmation(c) \/ CommitRegister(c)
  \/ Mail(c)
  \/ ConfirmToken(c) \/ ConfirmUser(c) \/ ConfirmUpdate(c) \/ ConfirmDelete(c)
  \/ ConfirmMint(c) \/ ConfirmCommit(c)
  \/ ForgotDebounce(c) \/ ForgotBegin(c) \/ ForgotReuse(c) \/ ForgotInsert(c) \/ ForgotCommit(c)
  \/ ResetChange(c)

Arrive(c) ==
  \/ \E n \in Names : RegisterLoad(c, n) \/ ForgotLoad(c, n)
  \/ \E m \in mails :
       \/ m.kind = "confirmation" /\ ConfirmBegin(c, m.token)
       \/ m.kind = "reset" /\ ResetLoad(c, m.token)

Next == Tick \/ \E c \in Calls : Arrive(c) \/ Proceed(c) \/ CommitFails(c) \/ CallFails(c)

Spec == Init /\ [][Next]_vars

\* The scheduler runs every goroutine, the database answers every statement, and
\* database/sql hands a free connection to a call that waits for one.
FairSpec == Spec /\ \A c \in Calls : WF_vars(Proceed(c))

-----------------------------------------------------------------------------
(* Properties *)

Together(c, d) == <<c, d>> \in overlap \/ <<d, c>> \in overlap

\* Accounts that were active before the behaviour began: they own a token 0.
Earlier(n) == \E t \in resets : t.by = 0 /\ t.name = n

\* The user, its confirmation token and the session that confirming grants
\* change together (CompleteRegister's three writes): the account of a granted
\* session is active and the token is gone, no token is left without a user,
\* and an account that needed confirmation is active only if a confirmation of
\* it granted a session.
ActivationAtomic ==
  /\ \A s \in sessions : users[s.token.name] = "active" /\ s.token \notin confirmations
  /\ \A t \in confirmations : users[t.name] # "absent"
  /\ RequiresConfirmation =>
       \A n \in Names : users[n] = "active" /\ ~Earlier(n) =>
         \E s \in sessions : s.token.name = n

\* A confirmation link grants a second session only to a call that overlapped
\* the first (CompleteRegister reads the token before it locks the user row).
ConfirmedOnce ==
  \A s, t \in sessions : s.token = t.token /\ s.by # t.by => Together(s.by, t.by)

\* As the change log puts it, a reset token created within the debounce time
\* means that no reset is started, and one created within the reuse time is
\* reused: two tokens of one user are closer than that only when the calls that
\* made them overlapped (the queries and the INSERT are three statements).
ResetTokensApart ==
  \A s, t \in resets :
    /\ s.name = t.name /\ s.by # t.by /\ s.created <= t.created
    /\ t.created - s.created < ResetDebounce \/ t.created - s.created < ResetReuse
    => Together(s.by, t.by)

\* Likewise confirmation tokens and their debounce time.
ConfirmationTokensApart ==
  \A s, t \in confirmations :
    /\ s.name = t.name /\ s.by # t.by /\ s.created <= t.created
    /\ t.created - s.created < ConfirmDebounce
    => Together(s.by, t.by)

\* A mailed reset link names a stored token unless its COMMIT failed, and was new
\* when it was chosen or good for more than the validity minus the reuse time.
MailedLinkLives ==
  \A m \in mails : m.kind = "reset" =>
    /\ m.token \in resets \/ m.token.by \in unsaved
    /\ m.at = m.token.created \/ m.token.until - m.at > ResetValidity - ResetReuse

\* Every connection is held by a CompleteRegister that waits for a second one.
Starved == ~ConnFree /\ \A c \in pool.held : pc[c] \in SecondConn

\* Connections are held by open transactions and by nothing else: no error return,
\* failed COMMIT or early answer keeps one.
ConnsOfTransactions == pool.held = {c \in Calls : pc[c] \in TxSteps}

\* Steps that take a connection from the pool, for one query or a transaction.
PoolSteps == SecondConn \union
  {"beginRegister", "checkConfirmation", "resend", "forgotDebounce", "forgotBegin",
   "resetChange"}

\* The next statement of the call waits: for a connection, or for a users row that
\* an open transaction has written.
Waits(c) ==
  \/ pc[c] \in PoolSteps /\ ~ConnFree
  \/ pc[c] \in {"insertUser", "confirmUpdate", "resetChange"} /\ ~UserRowFree(c)

\* When every call waits, it is for connections that as many confirmations hold as
\* the pool has: locks close no circle, and no other mix of calls starves.
GridlockIsStarvation ==
  InFlight # {} /\ (\A c \in InFlight : Waits(c)) =>
    Starved /\ Cardinality({c \in Calls : pc[c] \in SecondConn}) >= pool.limit

\* Every call is answered, unless the pool is full of confirmations that wait
\* for a second connection; nothing else can keep a call waiting.
AnsweredUnlessStarved == \A c \in Calls : c \in InFlight ~> c \notin InFlight \/ Starved
=============================================================================
