-------------------------- MODULE SigningWorkflow --------------------------
(***************************************************************************)
(* The signing service: internal/service/signing/impl.go and the HTTP      *)
(* handlers in front of it.  A member files a signing request; members     *)
(* approve or reject it; the approval that reaches the vault's threshold   *)
(* asks the MPC infrastructure for a threshold signature.                  *)
(*                                                                         *)
(* The service opens no transaction.  Every SQL statement commits by       *)
(* itself, so each one is a step here, and between two statements of a     *)
(* call any other call may run.  A call keeps the row it loaded first and  *)
(* writes the WHOLE row back at the end (boil.Infer() updates every        *)
(* column, with no version check).                                         *)
(*                                                                         *)
(* A call serves one HTTP request and is used once; its identity doubles   *)
(* as the uuid of the approvals row it inserts and as the signature its    *)
(* ThresholdSign returns, both fresh per call.                             *)
(***************************************************************************)
EXTENDS Naturals, FiniteSets

CONSTANTS
  Users,        \* the people who vote
  Requests,     \* identities of signing requests (primary keys, uuids)
  Calls,        \* the HTTP requests that vote; bounds a run
  Threshold,    \* vaults.threshold of the vault that owns the wallet
  MaxInFlight,  \* how many calls are served at the same time
  Failures,     \* TRUE: statements and RPCs may fail, callers may go away
  NoSig         \* the NULL of signing_requests.signature

ASSUME ThresholdAssumption == Threshold \in Nat
ASSUME InFlightAssumption  == MaxInFlight \in Nat
ASSUME FailuresAssumption  == Failures \in BOOLEAN
ASSUME NoSigAssumption     == NoSig \notin Calls

VARIABLES
  requests,     \* table signing_requests
  approvals,    \* table approvals, a set of rows
  pc,           \* where each call stands
  local,        \* the Go variables of each call
  rpc,          \* ThresholdSign requests on their way to the infrastructure
  signed        \* signatures the infrastructure has produced

tables == <<requests, approvals>>
mpc    == <<rpc, signed>>
vars   == <<requests, approvals, pc, local, rpc, signed>>

Statuses == {"absent", "pending", "completed", "rejected"}
Row      == [status : Statuses, signature : Calls \union {NoSig},
             vault : {"null", "vault"}]
Approval == [id : Calls, request : Requests, user : Users,
             action : {"approve", "reject"}]
SignTask == [call : Calls, request : Requests, tokens : SUBSET Approval]
Steps    == {"new", "check", "insert", "count", "wait",
             "reject_insert", "reject_update", "done", "failed"}

AbsentRow == [status |-> "absent", signature |-> NoSig, vault |-> "null"]
Local     == [user : Users, request : Requests, copy : Row]

\* A call that has not started has no variables yet.
NoLocal == [c |-> "none"]

InFlight == {c \in Calls : pc[c] \notin {"new", "done", "failed"}}

RowsOf(r)     == {a \in approvals : a.request = r}
ApproveRows(r) == {a \in RowsOf(r) : a.action = "approve"}
VotersIn(rows) == {a.user : a \in rows}

GoTo(c, step) == pc' = [pc EXCEPT ![c] = step]

Init ==
  /\ requests = [r \in Requests |-> AbsentRow]
  /\ approvals = {}
  /\ pc = [c \in Calls |-> "new"]
  /\ local = [c \in Calls |-> NoLocal]
  /\ rpc = {}
  /\ signed = {}

-----------------------------------------------------------------------------
(* CreateRequest: one INSERT.  vault_id is left NULL.                      *)
CreateRequest(r) ==
  /\ requests[r].status = "absent"
  /\ requests' = [requests EXCEPT ![r] =
                    [status |-> "pending", signature |-> NoSig, vault |-> "null"]]
  /\ UNCHANGED <<approvals, pc, local, rpc, signed>>

\* Mutant: the status is not looked at.
LoadAny(c, u, r, next) ==
  /\ pc[c] = "new"
  /\ Cardinality(InFlight) < MaxInFlight
  /\ requests[r].status # "absent"
  /\ local' = [local EXCEPT ![c] =
                 [user |-> u, request |-> r, copy |-> requests[r]]]
  /\ GoTo(c, next)
  /\ UNCHANGED <<tables, mpc>>

\* Both votes begin alike: read the row, refuse it unless it is pending.
LoadPending(c, u, r, next) ==
  /\ pc[c] = "new"
  /\ Cardinality(InFlight) < MaxInFlight
  /\ requests[r].status = "pending"
  /\ local' = [local EXCEPT ![c] =
                 [user |-> u, request |-> r, copy |-> requests[r]]]
  /\ GoTo(c, next)
  /\ UNCHANGED <<tables, mpc>>

\* Mutant: the error is logged and the call goes on.
RefuseGoesOn(c, r) ==
  /\ pc[c] = "new"
  /\ Cardinality(InFlight) < MaxInFlight
  /\ requests[r].status # "pending"
  /\ GoTo(c, "check")
  /\ UNCHANGED <<tables, local, mpc>>

\* The error return for a row that is missing or already decided.
Refuse(c, r) ==
  /\ pc[c] = "new"
  /\ Cardinality(InFlight) < MaxInFlight
  /\ requests[r].status # "pending"
  /\ GoTo(c, "done")
  /\ UNCHANGED <<tables, local, mpc>>

-----------------------------------------------------------------------------
(* ApproveRequest *)
ApproveLoad(c, u, r) == LoadPending(c, u, r, "check")

Voted(c) == \E a \in RowsOf(local[c].request) : a.user = local[c].user

\* "user already approved", or go on to the insert.
ApproveCheck(c) ==
  /\ pc[c] = "check"
  /\ GoTo(c, IF Voted(c) THEN "done" ELSE "insert")
  /\ UNCHANGED <<tables, local, mpc>>

\* Mutant: the table has no UNIQUE (request_id, user_id).
InsertVoteAnyway(c, action) ==
  approvals' = approvals \union
    {[id |-> c, request |-> local[c].request, user |-> local[c].user,
      action |-> action]}

\* INSERT INTO approvals under UNIQUE (request_id, user_id).
InsertVote(c, action) ==
  /\ ~Voted(c)
  /\ approvals' = approvals \union
       {[id |-> c, request |-> local[c].request, user |-> local[c].user,
         action |-> action]}

ApproveInsert(c) ==
  /\ pc[c] = "insert"
  /\ \/ InsertVote(c, "approve") /\ GoTo(c, "count")
     \/ Voted(c) /\ GoTo(c, "done") /\ UNCHANGED approvals
  /\ UNCHANGED <<requests, local, mpc>>

\* Mutant: the approval being given is counted a second time.
ApproveCountOneMore(c) ==
  /\ pc[c] = "count"
  /\ LET rows == ApproveRows(local[c].request) IN
       \/ /\ Cardinality(rows) + 1 >= Threshold
          /\ rpc' = rpc \union {[call |-> c, request |-> local[c].request,
                                 tokens |-> rows]}
          /\ GoTo(c, "wait")
       \/ /\ Cardinality(rows) + 1 < Threshold
          /\ GoTo(c, "done")
          /\ UNCHANGED rpc
  /\ UNCHANGED <<tables, local, signed>>

\* Mutant: more approvals than the threshold are wanted.
ApproveCountAbove(c) ==
  /\ pc[c] = "count"
  /\ LET rows == ApproveRows(local[c].request) IN
       \/ /\ Cardinality(rows) > Threshold
          /\ rpc' = rpc \union {[call |-> c, request |-> local[c].request,
                                 tokens |-> rows]}
          /\ GoTo(c, "wait")
       \/ /\ Cardinality(rows) <= Threshold
          /\ GoTo(c, "done")
          /\ UNCHANGED rpc
  /\ UNCHANGED <<tables, local, signed>>

\* SELECT the approvals and, with enough of them, send ThresholdSign the auth
\* tokens that the selected rows carry.
ApproveCount(c) ==
  /\ pc[c] = "count"
  /\ LET rows == ApproveRows(local[c].request) IN
       \/ /\ Cardinality(rows) >= Threshold
          /\ rpc' = rpc \union {[call |-> c, request |-> local[c].request,
                                 tokens |-> rows]}
          /\ GoTo(c, "wait")
       \/ /\ Cardinality(rows) < Threshold
          /\ GoTo(c, "done")
          /\ UNCHANGED rpc
  /\ UNCHANGED <<tables, local, signed>>

\* The signature is back: UPDATE the whole row from the copy loaded first.
ApproveComplete(c) ==
  /\ pc[c] = "wait"
  /\ \E s \in signed : s.call = c
  /\ requests' = [requests EXCEPT ![local[c].request] =
       [local[c].copy EXCEPT !.status = "completed", !.signature = c]]
  /\ GoTo(c, "done")
  /\ UNCHANGED <<approvals, local, mpc>>

-----------------------------------------------------------------------------
(* RejectRequest *)
RejectLoad(c, u, r) == LoadPending(c, u, r, "reject_insert")

\* Mutant: the vote is recorded and the status forgotten.
RejectInsertOnly(c) ==
  /\ pc[c] = "reject_insert"
  /\ \/ InsertVote(c, "reject")
     \/ Voted(c) /\ UNCHANGED approvals
  /\ GoTo(c, "done")
  /\ UNCHANGED <<requests, local, mpc>>

\* Mutant: the error of the INSERT is dropped.
RejectInsertIgnored(c) ==
  /\ pc[c] = "reject_insert"
  /\ \/ InsertVote(c, "reject")
     \/ Voted(c) /\ UNCHANGED approvals
  /\ GoTo(c, "reject_update")
  /\ UNCHANGED <<requests, local, mpc>>

RejectInsert(c) ==
  /\ pc[c] = "reject_insert"
  /\ \/ InsertVote(c, "reject") /\ GoTo(c, "reject_update")
     \/ Voted(c) /\ GoTo(c, "done") /\ UNCHANGED approvals
  /\ UNCHANGED <<requests, local, mpc>>

\* Mutant: only the status column is updated.
RejectUpdateColumn(c) ==
  /\ pc[c] = "reject_update"
  /\ requests' = [requests EXCEPT ![local[c].request].status = "rejected"]
  /\ GoTo(c, "done")
  /\ UNCHANGED <<approvals, local, mpc>>

\* Mutant: the copy is saved before its status is set.
RejectUpdateStale(c) ==
  /\ pc[c] = "reject_update"
  /\ requests' = [requests EXCEPT ![local[c].request] = local[c].copy]
  /\ GoTo(c, "done")
  /\ UNCHANGED <<approvals, local, mpc>>

RejectUpdate(c) ==
  /\ pc[c] = "reject_update"
  /\ requests' = [requests EXCEPT ![local[c].request] =
       [local[c].copy EXCEPT !.status = "rejected"]]
  /\ GoTo(c, "done")
  /\ UNCHANGED <<approvals, local, mpc>>

-----------------------------------------------------------------------------
(* A statement or the RPC fails, the client goes away (its context cancels *)
(* what runs) or the process dies: the call returns between two of its     *)
(* statements and what it has written stays: a vote, too, which its user   *)
(* cannot give again.  A sign task it has sent may still be carried out.   *)
CallFails(c) ==
  /\ Failures
  /\ c \in InFlight
  /\ GoTo(c, "failed")
  /\ UNCHANGED <<tables, local, mpc>>

\* The infrastructure signs.  It is not part of the repository.
MpcSign(t) ==
  /\ t \in rpc
  /\ rpc' = rpc \ {t}
  /\ signed' = signed \union {t}
  /\ UNCHANGED <<tables, pc, local>>

-----------------------------------------------------------------------------
Proceed(c) ==
  \/ ApproveCheck(c) \/ ApproveInsert(c) \/ ApproveCount(c) \/ ApproveComplete(c)
  \/ RejectInsert(c) \/ RejectUpdate(c)

Next ==
  \/ \E r \in Requests : CreateRequest(r)
  \/ \E c \in Calls, u \in Users, r \in Requests :
       ApproveLoad(c, u, r) \/ RejectLoad(c, u, r)
  \/ \E c \in Calls, r \in Requests : Refuse(c, r)
  \/ \E c \in Calls : Proceed(c) \/ CallFails(c)
  \/ \E t \in rpc : MpcSign(t)

Spec == Init /\ [][Next]_vars

\* The Go scheduler and the database do not stop a call for ever, and the
\* infrastructure carries out what it was asked.  Users owe nothing.
FairSpec ==
  /\ Spec
  /\ \A c \in Calls : WF_vars(Proceed(c))
  /\ WF_vars(\E t \in rpc : MpcSign(t))

-----------------------------------------------------------------------------
TypeOK ==
  /\ requests \in [Requests -> Row]
  /\ approvals \subseteq Approval
  /\ pc \in [Calls -> Steps]
  /\ local \in [Calls -> Local \union {NoLocal}]
  /\ \A c \in InFlight : local[c] \in Local
  /\ rpc \subseteq SignTask
  /\ signed \subseteq SignTask

\* Every signature asked of the infrastructure, and every signature it made,
\* carries the approvals of at least Threshold different users of that very
\* request.  The handler counts ROWS (len(approvals) in ApproveRequest): two
\* simultaneous approvals of one user must not make two of them.
SignedByQuorum ==
  \A s \in rpc \union signed :
    /\ s.tokens \subseteq ApproveRows(s.request)
    /\ Cardinality(VotersIn(s.tokens)) >= Threshold

\* A completed request shows a signature made for this request, and a request
\* that is not completed shows none, although several calls overwrite the row
\* with stale copies of it.
CompletedIsSigned ==
  \A r \in Requests :
    LET row == requests[r] IN
      /\ row.status = "completed" <=> row.signature # NoSig
      /\ row.signature # NoSig =>
           \E s \in signed : s.request = r /\ s.call = row.signature

\* A rejected request has a rejecter whose vote is on record: a RejectRequest
\* that lost the race for its approvals row leaves the status alone.
RejectedByVote ==
  \A r \in Requests :
    requests[r].status = "rejected" => \E a \in RowsOf(r) : a.action = "reject"

\* No step turns a decided request back into a pending one, although every
\* UPDATE starts from a copy of the row taken when it was pending.
NeverReopened ==
  [][\A r \in Requests :
       requests[r].status \in {"completed", "rejected"} =>
         requests'[r].status \in {"completed", "rejected"}]_vars

\* A decision is replaced only by a call that is still in flight and had read the
\* request as pending, so no call that begins after a decision can touch it.  (The
\* design wants decisions final, docs/MPCVault_Server_Design.md:494; overlapping
\* calls do replace them.)
DecisionReplacedByOverlap ==
  [][\A r \in Requests :
       requests[r].status \in {"completed", "rejected"} =>
         \/ requests'[r].status = requests[r].status
         \/ \E c \in InFlight : local[c].request = r /\ local[c].copy.status = "pending"]_vars

Decided(r) == requests[r].status \in {"completed", "rejected"}

\* A vote on r is stored whose call failed after that.
VoteLost(r) == \E a \in RowsOf(r) : pc[a.id] = "failed"

\* Once a quorum of approvals is on record the request is decided, unless a call
\* failed whose vote is stored: whichever approval was inserted last counts them
\* all.
QuorumIsDecided ==
  \A r \in Requests :
    Cardinality(ApproveRows(r)) >= Threshold ~> requests[r].status # "pending" \/ VoteLost(r)

\* When everyone has voted and no call on the request is left, nobody can act
\* on it any more: a vote cannot be given again.  Then it had better be decided;
\* the one thing that leaves it pending for good is a call that failed between
\* storing its vote and writing the decision.
EveryoneVotedIsDecided ==
  \A r \in Requests :
    (/\ VotersIn(RowsOf(r)) = Users
     /\ \A c \in InFlight : local[c].request # r) =>
       requests[r].status # "pending" \/ VoteLost(r)

\* The infrastructure is asked once for a signature of a request (:433 locks
\* the request as "signing" first, :486 wants signing idempotent).
SignedAtMostOnce ==
  \A r \in Requests : Cardinality({s \in rpc \union signed : s.request = r}) <= 1

\* A signature is asked for again only while an earlier call still waits for its
\* own or has failed to get it, or by a call that had read the request as pending
\* before it was decided: approvals that begin after the decision never sign.
SignedAgainByOverlap ==
  [][\A s \in rpc' \ rpc, t \in rpc \union signed :
       s.request = t.request =>
         \/ pc[t.call] \in {"wait", "failed"}
         \/ Decided(s.request) /\ local[s.call].copy.status = "pending"]_vars

-----------------------------------------------------------------------------
(* The strengthening that makes the three invariants inductive.            *)

\* UNIQUE (request_id, user_id) holds of the table.
OneVotePerUser ==
  \A a, b \in approvals : a.request = b.request /\ a.user = b.user => a = b

\* The copies that will be written back were pending when they were taken.
CopiesPending ==
  \A c \in InFlight :
    local[c].copy.status = "pending" /\ local[c].copy.signature = NoSig

\* A sign task belongs to a call that has sent it, for its own request.
TasksOfCalls ==
  \A s \in rpc \union signed :
    pc[s.call] \in {"wait", "done", "failed"} /\ local[s.call] \in Local
      /\ local[s.call].request = s.request

\* A call about to write "rejected" has its vote on record.
RejectersVoted ==
  \A c \in Calls :
    pc[c] = "reject_update" => 
      \E a \in RowsOf(local[c].request) : a.action = "reject"

\* The invariant the proofs carry from step to step.
SigningInv ==
  /\ TypeOK
  /\ IsFiniteSet(approvals)
  /\ OneVotePerUser
  /\ CopiesPending
  /\ TasksOfCalls
  /\ RejectersVoted
  /\ SignedByQuorum
  /\ CompletedIsSigned
  /\ RejectedByVote

-----------------------------------------------------------------------------
(* The strengthening for what becomes of votes and of signatures.          *)

\* A vote is stored by a call on that request, which has not looked at the votes
\* before.
VotesOfCalls ==
  \A a \in approvals :
    /\ pc[a.id] \in {"count", "wait", "reject_update", "done", "failed"}
    /\ local[a.id].request = a.request

\* Whoever asked for a signature waits for it, has failed or has written it.
TasksSettled ==
  \A t \in rpc \union signed :
    pc[t.call] \in {"wait", "failed"} \/ Decided(t.request)

\* Behind every rejection on record, and behind some vote of a quorum, stands a
\* call that will write the decision or has failed to.
DecisionComing(r) ==
  /\ \A a \in RowsOf(r) :
       a.action = "reject" => pc[a.id] \in {"reject_update", "failed"}
  /\ ApproveRows(r) # {} /\ Cardinality(ApproveRows(r)) >= Threshold =>
       \E a \in ApproveRows(r) : pc[a.id] \in {"count", "wait", "failed"}

UndecidedHasCalls == \A r \in Requests : Decided(r) \/ DecisionComing(r)

\* What EveryoneVotedIsDecided and SignedAgainByOverlap rest on.
OutcomeInv == VotesOfCalls /\ TasksSettled /\ UndecidedHasCalls

-----------------------------------------------------------------------------
(* The handlers implement SigningVoting: a user's vote is the approvals    *)
(* row, a signature is issued when the infrastructure has made it, and the *)
(* decision is the status column.                                          *)
VoteOf ==
  [r \in Requests |-> [u \in Users |->
     IF \E a \in RowsOf(r) : a.user = u /\ a.action = "approve" THEN "approve"
     ELSE IF \E a \in RowsOf(r) : a.user = u THEN "reject"
     ELSE "none"]]

Voting ==
  INSTANCE SigningVoting WITH
    vote     <- VoteOf,
    issued   <- {s.request : s \in signed},
    decision <- [r \in Requests |-> requests[r].status]

\* Every behaviour of the handlers is one SigningVoting allows: votes are cast
\* once and kept, signatures have a quorum, decisions have their grounds.
ImplementsVoting == Voting!VotingSpec
=============================================================================
