# Verification of go-mpc-vault in TLA+

go-mpc-vault is the application server of a multi-party-computation wallet. It keeps users,
sessions, organizations, vaults, wallets and signing requests in PostgreSQL, talks HTTP
(echo) and gRPC to its clients, and asks a separate MPC infrastructure to make keys and
threshold signatures. This directory models what the server does to its tables, statement by
statement, and what other requests may do in between; TLC checks small instances and TLAPS
proves the main safety properties for all of them.

Paths below are relative to the repository; line numbers refer to the code in `src/`.
`PROJECT.json` lists, for every definition, the lines it stands for.

## 1. Inventory

| component | state | operations | hard behaviour | what makes it correct |
|---|---|---|---|---|
| **signing workflow** `internal/service/signing` | tables `signing_requests`, `approvals` | create, approve (check, insert, count, ThresholdSign, write back), reject, list | no transaction: other calls run between any two statements; whole rows are written back from stale copies; the RPC may fail or its answer be lost | a signature has a quorum of different people behind it; the status agrees with the votes and the signature; a quorum is eventually decided |
| **account and session service** `internal/auth`: sessions | tables `users`, `access_tokens`, `refresh_tokens` | login, refresh, logout, change password, delete account | decisions on reads before the transaction; READ COMMITTED row locks, waits and deadlocks | a new password ends every older session; a refresh token works once; no session of a deleted account; no lock kept for good |
| the same: accounts | `users`, `confirmation_tokens`, `password_reset_tokens`; mails | register, complete registration, forgot password, reset password | debounce, reuse and expiry times; checks and inserts that are not one statement; a transaction that needs a second connection | an account is activated together with its session; tokens are debounced and reused; every call is answered |
| **authentication middleware** `internal/api/middleware/auth.go` | none (reads `access_tokens`, puts the user into the context) | extract, validate format, look up, check expiry, activity, scopes | two queries for one decision; the groups it is (not) attached to | handlers that need a user have one |
| **transaction helper and pool** `internal/util/db`, `internal/persistence` | open transactions, a bounded set of connections | begin, commit, roll back (also on panic) | errors of COMMIT; a second connection taken inside a transaction | what is reported as done is stored; the pool never starves itself |
| **vault and wallet service** `internal/service/vault` | `vaults`, `wallets`; keys in the infrastructure | create vault with first wallets, create wallet (CreateKey, insert), list | two systems without a common transaction; membership is asked before the write | every wallet has its key, no key is lost silently, attempts that collide on a chain leave it with its wallet, members provision |
| **organization service** `internal/service/organization` | `organizations`, `organization_members` | create, list, add, remove, change role | read, then write, without transaction | (part of the vault service's) |
| **MPC client** `internal/infra/mpc` | none | ThresholdSign, CreateKey over gRPC | executed but answer lost | (part of its callers) |
| **push tokens and delivery** `internal/data/local`, `internal/push` | `push_tokens` | register or replace a token; send to a user, dropping invalid tokens | an insert outside the transaction that surrounds it; clean-up between providers | answers agree with the table; a token has one row and goes only by its user |
| **server lifecycle** `internal/api/server.go`, `internal/util/command`, `cmd/server` | HTTP server, gRPC server, database pool | initialise, start, serve, shut down | order of shutdown, requests in flight, deadlines | nothing in flight loses what it needs; shutdown ends |
| **probes** `internal/api/handlers/common/probes.go`, `internal/util/wait_group.go` | results shared with a goroutine | time-bounded checks of database and file system | the deadline races the late answer | a result that arrived late is not read, and a check never says "up" without it |
| **gRPC facade** `internal/api/grpc/server` | none | create vault, create wallet, signing, ceremonies | no user and no membership | (part of the vault service's) |
| **WebAuthn** `internal/service/auth` | `user_credentials`; ceremony state held by the caller | begin and finish registration and login | order of ceremonies | the stored sign count never goes down |
| **router**, **informational endpoints**, **mailer**, **configuration**, **i18n**, **metrics**, **hashing**, **utilities**, **command line**, generated code | none of their own | | | see `PROJECT.json` for why each is left out |

Interactions. The router calls the handlers, through the authentication middleware where a
group has one; handlers call the services; services run SQL on one shared pool, some inside
`db.WithTransaction`, and the signing and vault services also call the MPC client. The only
state that requests share is in PostgreSQL, in the pool and in the MPC infrastructure, so
interleaving means interleaving of statements and RPCs. The lifecycle decides when requests may
arrive and whether the pool is open.

Every hazard that was found while reading is in `PROJECT.json` under "hazards", at its line,
with the properties that cover it.

## 2. Modules

| module | what it is |
|---|---|
| `SigningVoting` | what the signing workflow promises: one vote per user, signatures only with a quorum, decisions justified by votes or a signature |
| `SigningWorkflow` | `internal/service/signing/impl.go`, one action per statement; declares the refinement mapping to `SigningVoting` |
| `AccountSessions` | login, refresh, logout, password change and reset, account deletion of `internal/auth/service.go`; the transactions of `internal/util/db/db.go`; the lookups of the authentication middleware; PostgreSQL's row locks |
| `SessionStore` | what the sessions half promises: login, refresh, password change, logout and deletion each take effect in one step, or their COMMIT is lost; `AccountSessions` declares the refinement mapping |
| `AccountTokens` | registration, confirmation, forgot-password and reset of the same file, with a clock and the connection pool of `internal/persistence/postgres.go` |
| `VaultProvisioning` | organizations, members, vaults and wallets with the handlers that decide who may make them, and the infrastructure's keys |
| `PushTokens` | `internal/data/local/service_push.go`, `internal/push/service.go`, with their locks and connections |
| `HealthProbes` | the readiness and liveness checks; declares no Next |
| `ServerLifecycle` | the server process; EXTENDS `HealthProbes` and runs its checks |
| `*Proofs` | the theorems about the module they are named after; `SessionStoreProofs` has the refinement and what builds on its invariant |
| `MC*` | instances for TLC |

### SigningWorkflow and the code

The service opens no transaction, so each SQL statement is an action and a *call* (one HTTP
request) is a process with a program counter `pc[c]` and its Go variables `local[c]`, above all
the copy of the row it loaded. `requests` and `approvals` are the two tables; `rpc` holds the
ThresholdSign requests sent and not yet carried out, `signed` the signatures made.

| code | action |
|---|---|
| `CreateRequest` | `CreateRequest` |
| `ApproveRequest` load and status test | `ApproveLoad`, `Refuse` |
| ... "user already approved" | `ApproveCheck` |
| ... INSERT under UNIQUE (request_id, user_id) | `ApproveInsert` |
| ... SELECT approvals, compare with threshold, call ThresholdSign | `ApproveCount` |
| ... the call's return, UPDATE of the whole row | `ApproveComplete` |
| `RejectRequest` | `RejectLoad`, `RejectInsert`, `RejectUpdate` |
| any error return, cancelled context or crash between statements | `CallFails` |
| the infrastructure carries out a request, even one whose caller is gone | `MpcSign` (external) |

Data is reduced to identities: a call names its approvals row and its signature (both are fresh
uuids in the code). Messages, transaction payloads and the WebAuthn tokens' contents are left
out; an auth token is the approvals row that carries it.

### AccountSessions and the code

`password` and `tokens` are the committed `users.password` and the rows of the two token
tables; the constant `Gone` stands for a deleted account. A call's own writes are kept in
`deleted`, and become visible in `Commit`; `todo` holds the rows its running DELETE has found
in its snapshot and not locked yet; `userLock` is who has updated or deleted the users row.

| code | action |
|---|---|
| `Login` 251-286 | `LoginLoad` |
| `Refresh` 312-331: token, then its user, two queries of `qm.Load` | `RefreshLoadToken`, `RefreshLoadUser` |
| `ResetPassword` 117-144: token, then its user, as for `Refresh` | `ResetLoadToken`, `ResetLoadUser` |
| `DefaultAuthTokenValidator`, then the service's check of the current password | `AuthLoadToken`, `AuthLoadUser` |
| `UpdatePassword` 94 | `SetPassword` |
| `authenticateUser` 573-587 | `DeleteAccess`, `DeleteRefresh` (rows are locked by `LockRow`) |
| `authenticateUser` 589-606 and 608-614 | `InsertTokens`, `TouchUser` |
| `Refresh` 335, `Logout` 228 and 237, `DeleteUserAccount` 491 | `RefreshDelete`, `LogoutAccess`, `LogoutRefresh`, `DeleteUser` |
| `WithConfiguredTransaction` | `Commit`, `Rollback` (in every failing action), `CommitFails`, `CallFails` |
| PostgreSQL's locks and deadlock detector | `FindRows`, `LockRow`, `KeySharers`, `Blockers`, `DeadlockVictim` (external) |

Two things are modelled as the database does them because the properties hinge on them. A DELETE
works on the snapshot of its statement, then locks row by row, waits for a row another
transaction has deleted, and skips it if that one commits. And the foreign key of a new token
row takes a KEY SHARE lock on the users row, which the deletion of the account conflicts with
and an update of other columns does not.

The constant `Guarded` says which of change-password, logout and account deletion run the
authentication middleware. As wired (`internal/api/router/router.go:219`) none does, and
`Guarded = {}`; their handlers then panic (`HandlerPanics`). With all three in it, it is the code
with the middleware in place: every behaviour as wired, minus the panics, which change nothing,
is one of its behaviours, so a safety property checked so holds as wired too. The
transactions behind these routes are modelled because password reset shares them. `Failures` says what
may fail: a statement (or the caller goes away), a COMMIT.

### AccountTokens and the code

The other half of `internal/auth/service.go`. Calls are numbered as they arrive and name the
tokens they insert. A link that was mailed is what a later call can present. What a transaction
has written becomes visible at its commit; `UserLocked` are the steps at which it has written the
users row and others wait for it. `pool` is the pool's size and who holds a connection for a
transaction; a statement outside a transaction needs a free connection for its duration.

| code | action |
|---|---|
| `Register` 363-375, and for an unconfirmed name 377-405 | `RegisterLoad`, `CheckConfirmation`, `Resend` |
| ... its transaction 408-462 | `BeginRegister`, `InsertUser`, `InsertConfirmation`, `CommitRegister` |
| `CompleteRegister` 509-563 | `ConfirmBegin`, `ConfirmToken` and `ConfirmUser` (through the pool), `ConfirmUpdate`, `ConfirmDelete`, `ConfirmMint`, `ConfirmCommit` |
| `InitPasswordReset` 146-221 | `ForgotLoad`, `ForgotDebounce`, `ForgotBegin`, `ForgotReuse`, `ForgotInsert`, `ForgotCommit` |
| the handlers' mails | `Mail` |
| `ResetPassword` 117-144, `UpdatePassword` | `ResetLoad`, `ResetChange` (one step; its statements are in `AccountSessions`) |
| COMMIT fails and nobody is told; errors, cancelled requests, crashes | `CommitFails`, `CallFails` |

### VaultProvisioning and the code

| code | action |
|---|---|
| `CreateOrganization`, `AddMember`, `RemoveMember` | `CreateOrganization`, `AddMemberFind`, `AddMember`, `RemoveMemberFind`, `RemoveMember` |
| `post_create_vault.go`: `ListUserOrganizations`, insert, first wallets | `OwnedOrganizations`, `Memberships`, `InsertVault` |
| `post_create_wallet.go`: vault, membership | `FindVault`, `IsMember` |
| gRPC `CreateWallet` | `GrpcCreateWallet` |
| vault `CreateWallet`: chain, CreateKey, insert | `FindChain`, `KeyMade`, `InsertWallet`, `AttemptEnds` |
| the infrastructure makes a key, even for a caller that is gone | `MakeKey` (external) |
| a statement or RPC fails; a call is lost | `AttemptFails`, `CallFails` |

A wallet and its key have one name, as in the code, where the key id is made before the RPC.
The derivation index is always 0 in the code and so is left out of the rows; `Accepts` is what
the table's constraints make of that. `failed`, `broken`, `answer` and `ousted` are there for the
properties: attempts that returned an error, those in which a statement or the RPC had failed, what
callers were told, and whose user was removed meanwhile.

### PushTokens and the code

| code | action |
|---|---|
| `UpdatePushToken`: BEGIN and the look for the token; the insert **through the pool**; the old token; DELETE; COMMIT | `Check`, `Insert`, `Find`, `Delete`, `Commit` |
| `SendToUser`: per provider, in map order, load and send; delete what was called invalid | `Send`, `Load`, `Clean` |
| failing COMMIT, statements, clean-ups | `CommitFails`, `CallFails` |

`dropped` and `answer` are there for the properties: who removed which row, what callers were told.

### ServerLifecycle, HealthProbes and the code

| code | action |
|---|---|
| `cmd/server/server.go` up to the goroutine of `Start`; `signal.Notify` after it | `Prepare`, `Notify` |
| `Start`: gRPC in a goroutine, echo in the other | `ServeGrpc`, `ServeEcho` |
| `Shutdown` 171-200: GracefulStop, DB.Close, Echo.Shutdown | `StopGrpc`, `CloseDb`, `StopEcho`, `Drained`, `DrainGivenUp`, `ShutdownTimeout` |
| a request, a gRPC call, a check and the database they use | `RequestArrives`, `RequestEnds`, `CallArrives`, `CallEnds`, `Arrives` |
| `ProbeReadiness`, `ProbeLiveness` | `StartProbe`, `ProbeEnds` |
| `WaitTimeout` | `ProbeDone`, `ProbeTimesOut`; the goroutine is `WorkerEnds`, late or not |

## 3. Runs

| run | instance | shows |
|---|---|---|
| `signing` | 3 users, 2 requests, 3 calls at once, threshold 2, failures, fair | quorum behind every signature, status agrees with votes and signature, no decided request becomes pending again, a decision is replaced and a second signature asked for only by calls that overlap, a request everybody has voted on stays pending only if a call failed after its vote, the handlers implement `SigningVoting`, a quorum is decided or a call that had voted has failed; also the inductive invariant |
| `signing_twice` (violation) | 3 calls, 2 at once | two approvers both see the quorum and both have it signed |
| `sessions_safety` | 1 account, 2 passwords, 4 calls at once, failures, guarded | a password change or deletion leaves no older session at its commit; every database deadlock has a refresh or an account deletion in it; the statements implement `SessionStore`; also the inductive invariant `StoreInv` |
| `sessions_live` | 1 account, 3 calls at once, failing statements, guarded but for change-password, fair | every call is answered; a refresh token that was exchanged is refused to whoever comes later, whatever overlaps |
| `sessions_stale` (violation) | 2 calls at once, as wired | a login that overlaps a password reset leaves a session obtained with the old password |
| `sessions_redeem` (violation) | 3 calls, 2 at once, as wired | two refreshes that overlap exchange one token twice |
| `sessions_commit` (violation) | 2 calls one at a time, COMMIT may fail | the caller is told that the password was changed and it was not |
| `sessions_unguarded` (violation) | as wired | a handler of the auth group dereferences a nil user |
| `accounts` | 1 name, 3 calls, 2 at once, pools of 2 and 3, a clock, failures, fair | an account that must be confirmed is active exactly when its session was granted and its token is gone; links grant one session, tokens are debounced and reused, unless calls overlap; a mailed link lives; calls are answered unless confirmations have filled the pool |
| `provisioning` | 2 users, 1 organization with any owner and members, 3 calls, 2 at once, failures | wallets have keys, vaults and organizations; of the attempts at a chain of a vault in which nothing breaks down one succeeds; answers agree with the tables; every key without a wallet has a failed attempt or a lost call; over HTTP only owners and members provision |
| `push` | 2 users, 2 tokens, 2 providers, 3 calls at once, pool of 3, failures, fair | a token goes only by its user; answers agree with the table; a delivery that reports success is complete; calls are answered unless registrations have filled the pool |
| `lifecycle` | 2 requests, 2 gRPC calls, 1 check of up to 4 probes, fair | "up" means probed; no gRPC call meets a closed database; a successful exit has cut nobody off; shutdown and checks end |

What each property says is in the comment above it. Each one is also run against a mutated
definition, a plausible slip in the code, that breaks it: for example without the update of
`last_authenticated_at` (`TouchNothing`) a login can slip in between the DELETEs and the COMMIT
of a password change, so this update, which looks like bookkeeping, is what `ChangeRevokes`
rests on.

**What overlap may do.** Several properties say what holds "unless calls overlap", because the
code decides on one statement and writes with a later one. The steps that need overlap are: a
rejection and a completion that overwrite each other (`DecisionReplacedByOverlap`), two approvers
that both have a request signed (`SignedAgainByOverlap`; the run `signing_twice`), two refreshes
that exchange one token (`sessions_redeem`; `service.go:335` does not look at the number of rows
deleted; `RedeemedIsRefused` says that the second had loaded the token before it was exchanged), a
login that compared the old password and commits after a reset (`sessions_stale`; `ChangeRevokes` says
what the reset does revoke), two confirmations with one link (`ConfirmedOnce`), two
forgot-password requests or registrations that each make a token (`ResetTokensApart`,
`ConfirmationTokensApart`), a member removed between check and insert (`ProvisionedByMembers`).

**Disagreements with the repository's documents.** The five violation runs are under "findings".
Others need no interleaving, and the models simply do what the code does:

- After a failed ThresholdSign (`signing/impl.go:132`) the approver's vote is stored, so nobody
  who has voted can try again; when everyone has, the request stays pending. `QuorumIsDecided` and
  `EveryoneVotedIsDecided` except requests with such a vote (`VoteLost`), and nothing else.
- `CreateRequest` does not set `vault_id` (`signing/impl.go:35`) and `ListRequests` joins on it
  (`:180`), so a filed request is in no list.
- `ListUserOrganizations` (`organization/impl.go:54`) gives `qm.WhereIn` a column where it takes a
  condition (`id in ?`), so it fails for everybody who is a member somewhere, where
  `api/paths/organizations.yml:25` has it "List organizations of current user". Vault creation
  uses this list and wallet creation asks for a membership row, which the owner does not get by
  creating the organization: whoever can make a vault is not a member of anything, and must
  become one to add a wallet to it (`Memberships`, `IsMember`).
- gRPC `CreateVault` names the organization "default-org", which is no uuid, and never inserts;
  gRPC `CreateWallet` asks for no membership.
- A password reset token is not deleted when it is redeemed (`auth/service.go:139`).
- A push token that is named as the one to replace itself, and is not stored yet, is inserted and
  then deleted as the old one; the caller is told "ok". `AnswersTrue` excepts it.
- A mailed reset link names a token that is not stored if its COMMIT failed (`MailedLinkLives`
  excepts it); COMMIT errors are swallowed in `util/db/db.go:46`.

**Bounds.** `Calls`, `MaxCalls` bound a behaviour: a call serves one request and is used once;
`MaxInFlight` bounds overlap.

- Signing: with threshold 2, three users allow two approvals and a rejection, or a third
  approval or a repeated vote; two requests show that rows and tasks are not mixed up.
- Sessions: four calls on one account allow two that mint sessions and two that then contend for
  them, the shortest way to a circle of waiters; a second account would matter only for keeping rows
  apart, which the proofs do for any number. `sessions_live` loses no COMMIT, since
  `RedeemedIsRefused` wants none (`sessions_commit` shows why), and needs three calls: a login and two that
  present its token. Each violation run has as few calls as its counterexample needs.
- Accounts: a pool of 2 is filled by two confirmations, and a pool of 3 lets two of them race;
  three calls are a registration and two confirmations, or three forgot-password requests of
  which the third meets what the others left. `MaxTime` stops the clock after validity 3 plus
  the age of the reset token that active accounts have from earlier days (`EarlierAge`), so that a
  token is seen inside the debounce time 1, inside the reuse time 2, and too old for both; links of
  validity 2 expire. Names do not interact except through the pool.
- Provisioning: an organization with every owner and every set of members is given, so calls are
  left for making a vault, a wallet in it, and a removal or a gRPC call. The lists are a chain
  alone and an unknown chain before it.
- Push: three connections are filled by three registrations, and fewer let them pass. Clients
  offer one token; the other is one that a user has from earlier days, of another provider.
- Lifecycle: two of each kind allow one to have ended and one to be open at any moment of the
  shutdown; one path gives a check two probes or four.

Symmetry is used where no definition tells values apart and no liveness is checked. Deadlock
checking is off, because a run stops when its calls are used up or the process has ended.

**Fairness.** In the modules of the services `FairSpec` asks for weak fairness of each call's next
statement (`Proceed`: the Go scheduler runs every goroutine, the database answers, and free locks
and connections go to a waiter) and, in signing, of the infrastructure carrying out what it was
asked. Nothing is assumed of users: no fairness on the actions with which calls arrive, nor on
failures. `CallsEnd` and `AnsweredUnlessStarved` are checked with failures; the exception of the
latter is real: with the pool full of transactions that each wait for one more connection
(`auth/service.go:518`, `data/local/service_push.go:39`) nothing moves until a request is
cancelled. In the lifecycle the fair steps are those of the shutdown, of time (its deadline, the
checks' deadlines) and of the checks' handlers; requests, gRPC calls and probes may hang for good.
`EverythingEnds` then says that a shutdown ends unless a gRPC call stays open: GracefulStop has no
deadline. `signal.Notify` stays installed, so a second SIGTERM changes nothing.

## 4. Proofs

The theorems hold for any number of users, requests, calls, tokens, organizations, providers,
checks and so on, and for any thresholds, periods and pool sizes; they do not use the bounds.
Each proofs module has the same shape: an inductive invariant, a lemma per action that keeps it,
and the properties as consequences.

`SigningWorkflowProofs`: `TypeCorrect`, `InvHolds`, `QuorumSafety`, `CompletionSafety`,
`RejectionSafety`, `NeverReopenedHolds`, `DecisionReplacedHolds`, `WorkflowImplementsVoting`,
`OutcomesHold`, `EveryoneVotedIsDecidedHolds`, `SignedAgainByOverlapHolds`.

- The inductive invariant is `SigningInv`. `SignedByQuorum` alone is not inductive: the handler
  compares the number of *rows* with the threshold, so one needs `OneVotePerUser` (the UNIQUE
  constraint) and that the approvals are a finite set, to get from rows to people; lemma
  `RowsAreVoters` says that the two numbers are then equal. `CompletedIsSigned` needs
  `CopiesPending` (a stale copy is never of a decided row) and `TasksOfCalls`; `RejectedByVote`
  needs `RejectersVoted`.
- The refinement maps a user's vote to the approvals row, the issued signatures to `signed`, the
  decision to the status column. `SigningVoting` deliberately lets one decision replace another:
  the code does not prevent it.
- What becomes of votes and signatures rests on a second invariant, `OutcomeInv`, with failures and any
  overlap. `UndecidedHasCalls`: while a request is undecided, every rejection on record has a rejecter
  that is about to write the status or has failed, and a quorum on record has an approver that is
  about to count, waits for the signature or has failed. A call that counts too few leaves, but then
  there is no quorum: whoever inserted last counts them all. `TasksSettled`: whoever asked for a
  signature waits for it, has failed, or has written the decision.
- `EveryoneVotedIsDecided` follows for vaults that want no more approvals than there are users (a
  hypothesis: the others' requests can only be rejected). That some fair step then decides is the
  liveness that TLC checks.
- `SignedAgainByOverlap` says which second signatures the counterexample of `signing_twice` leaves: a call
  that loads the request after it was decided never asks for one.

`AccountSessionsProofs`: `SessionsInvariant`, `TypeCorrect`, `ChangeRevokesHolds`, with the middleware
or without, with or without failures.

- Whoever is about to commit a session, a password or a deletion holds the users row
  (`CommitHoldsUser`), because each of these transactions writes it; while a transaction holds
  the row no other can commit tokens of that user; so the tokens its DELETEs have found are all
  the tokens there are (`SweepComplete`), and at `Commit` nothing older is left. `KeyShareHeld`
  excludes that an account is deleted under an open transaction that has inserted tokens for it;
  `LocksHeld`, `MintersEnded` and `StepsOfKind` tie locks, rows and program counters together.

`SessionStoreProofs`: `StoreInvariant`, `SessionsImplementStore`, `NoCircleOfChangesHolds`,
`RedeemedIsGoneHolds`, `RedeemedIsRefusedHolds`.

- `StoreInv` adds to `SessionInv` which sessions were issued to whom (`TokensIssued`,
  `ShownWasIssued`), that a deleted account has no tokens (`GoneIsEmpty`), that the rows a
  transaction holds or is about to lock are its user's, are there, and come in the order of its
  statements (`RowsInOrder`), and that the token a call was shown and means to delete is among the
  rows it has found, or gone (`ShownFound`).
- Refinement: passwords and tokens map to themselves, `issued` is who was answered with a session and
  `redeemed` whose refresh token was presented to a call that ended well. Every step before a
  commit is a stutter. At a commit the rows a transaction has deleted have to be exactly those that
  `SessionStore` takes away in one step: for a password change and a deletion that is
  `SweepComplete`, for a refresh and a logout `ShownFound`. A COMMIT that fails and is reported as
  success is a step of its own there (`LoseCommit`, `LoseRefresh`): that much the code does not keep.
- `NoCircleOfChanges` says that among any logins, logouts and password changes one waits for none of
  the others. Suppose a set each of whom waits for another of the set. Two password changes of a user never want the same
  row, since each has the users row first; a logout takes its access token before its refresh token.
  So nobody of the set has deleted a refresh token, hence no logout that waits has its access token,
  hence nobody has any row, and all wait for the users row, whose holder does not. A refresh takes a
  token row before the users row, and the cascade of a deletion may take refresh tokens first: these
  are the ones that close circles.
- `NoStaleSession` and `RedeemedOnce` are false of overlapping calls and nothing is proved of them. What
  holds with overlap, as long as no COMMIT is lost, is `RedeemedIsGone`, an invariant: a redeemed token
  is not in the table. So no call that arrives later finds it (`RedeemedIsRefused`).

`AccountTokensProofs`: `TypeCorrect`, `ActivationAtomicHolds`, `ConfirmedOnceHolds`,
`ResetTokensApartHolds`, `ConfirmationTokensApartHolds`, `MailedLinkLivesHolds`,
`ConnsOfTransactionsHolds`, `GridlockIsStarvationHolds`.

- The invariant `AccountInv` says what is known of a call at each step (`CallInv`) beside the
  tables. A token that a call is about to insert is far from every stored token of the name,
  except those of calls it overlapped: for each stored token either the query of this call came
  after the insert, and then found nothing recent, or the two calls were in flight together. That
  the calls' tokens are distinct rests on `Issued` and `NotYet`: a token named by a call is in no
  table, mail or session until that call inserts it.
- Nearly every step leaves the other calls' facts alone; lemma `CallKept` proves that once
  from what such a step does not do (`Quiet`), and each action is left with its own call. The
  clock only brings tokens further apart. Nobody else writes a users
  row while a call is at the steps `UserLocked` (`PairsInv`), so the commit of a registration
  cannot undo a confirmation: that is what `ActivationAtomic` rests on.
- `GridlockIsStarvation` is the safety part of `AnsweredUnlessStarved`. `Waits(c)` is what the next
  statement of a call may wait for, a connection or a users row, and is exactly when `Proceed(c)` is
  disabled. Whoever has written a users row waits for nothing, so when all wait they wait for
  connections; these are held by open transactions and by nothing else (`ConnsOfTransactions`), and the only
  transactions that want another are confirmations. Hence as many calls of `CompleteRegister` as the
  pool has connections have to be open at once: with a larger pool nobody waits for ever.

`VaultProvisioningProofs`: `TypeCorrect`, `WalletHasKeyHolds`, `AnswersTrueHolds`,
`KeysAccountedForHolds`, `RefusedIsServedHolds`, `ProvisionedByMembersHolds`.

- `ProvisioningInv` has `CallInv` per call (what it has created, that every earlier chain of its
  list has its wallet or a failed attempt, that its user is a member or was removed since it
  asked), `TableInv`, and `AskedAccounted`: `KeysAccountedFor` has to be said of the keys that were
  *asked* for, because a key can be made after its caller has gone. Lemmas about `Frame` say that a
  step of one call adds only rows of its own, so the others' facts survive it.
- `RefusedIsServed` needs `RefusalInv`: every vault comes from a call that creates vaults, so a vault id that a
  gRPC caller made up, when its attempt was refused for that, is in no row later either.

`PushTokensProofs`: `TypeCorrect`, `OneRowPerTokenHolds`, `AnswersTrueHolds`,
`DeliveryCompleteHolds`, `RemovedByOwnerHolds`, from `PushInv`: rows that were dropped never come
back, a call's row is its own, and a row found to be replaced belongs to the call's user.
`ConnsOfTransactionsHolds` and `GridlockIsStarvationHolds` are the same as in `AccountTokensProofs`, with
registrations for confirmations; who has deleted a row is about to commit and waits for nothing.
(That a token has one row is proved and not a property of a run: the UNIQUE constraint gives it,
and `AnswersTrue` says what follows for the callers.)

`ServerLifecycleProofs`: `TypeCorrect`, `UpMeansProbedHolds`, `DrainedBeforeEndHolds`.

- While a check has no error, its probes so far have succeeded and it is not past its last
  (`ChecksInOrder`); one that arrived after the database was closed cannot have pinged
  (`LateChecks`); and `StopOrder` says that the database is open until no gRPC call is and none
  can arrive any more.

Assumptions: those of the modules' ASSUMEs (thresholds, periods and bounds are naturals, pools
are not empty, the debounce and reuse times are no longer than the validity, placeholders differ
from real values), which the runs evaluate on their instances.

Only model-checked: liveness under fairness (`QuorumIsDecided`, `CallsEnd`, `AnsweredUnlessStarved`,
`EverythingEnds`), which is out of this prover's reach. Theorems with hypotheses beyond the ASSUMEs
are those that need them: `RedeemedIsGoneHolds` and `RedeemedIsRefusedHolds` want no failures (a lost
COMMIT leaves the token, as `sessions_commit` shows of a password), and
`EveryoneVotedIsDecidedHolds` a threshold that the users can reach.

## 5. Not modelled

- **WebAuthn**. The only caller of the ceremonies is the gRPC facade, which keeps no session data
  between begin and finish; the finishing calls return before they write anything. Once the facade
  keeps it, the sign count that two logins overwrite (`service/auth/impl.go:163`) is worth a module.
- **Authentication middleware**: modes, token sources and scopes are a decision on one request
  that the repository's tests cover; its two lookups and its absence from the auth group are in
  `AccountSessions`.
- **Organizations**: `UpdateMemberRole` has no caller and no role is ever read.
- **gRPC signing methods**: their names are not those of the proto service, so the generated
  unimplemented ones answer.
- **Accounts**: deactivated users and validators of other kinds are refusals; expiry of access
  tokens (a token that is there is valid); rendering and sending of mails, which happen or fail.
- **Push**: `SendToUser` is modelled though only tests call it; the providers answer arbitrarily.
- **Generated code** (sqlboiler models, go-swagger types, protobuf stubs) is most of the
  repository's Go lines. It holds no logic of this program; the models take from it what a
  statement does to its table, at the place that issues it.
- The remaining components hold no state of their own or are I/O or tooling; the reason stands
  with each in `PROJECT.json`.
- A crash of the process is a failure of all its calls: PostgreSQL rolls open transactions back,
  which `CallFails` does for each. A crash of PostgreSQL is a COMMIT that fails.

## 6. Plan

What is left, in order of importance:

1. Abstract specifications of provisioning (a wallet appears with its key) and of push tokens (a
   registration replaces a token in one step, or leaves the new one), with their refinements.
2. For the lifecycle the safety part of `EverythingEnds`: what a shutdown that has not ended waits for.
3. **AuthDecision**: the middleware's decision as an operator against a reference definition taken
   from the comments on its modes, over all route groups, when groups are wired to it.
4. **WebAuthnCeremony**, when the ceremonies are wired.
