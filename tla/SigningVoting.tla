--------------------------- MODULE SigningVoting ---------------------------
(***************************************************************************)
(* What the signing workflow promises the members of a vault, whatever the *)
(* interleaving of its HTTP handlers: everyone has one vote, and keeps it; *)
(* the MPC infrastructure is only ever asked to sign with a quorum; and a  *)
(* decision rests on the votes and the signature that justify it.          *)
(*                                                                         *)
(* It promises no more than that.  A decision may still be replaced by the *)
(* other one, because nothing serialises the handlers: SigningWorkflow     *)
(* shows where that comes from.                                            *)
(***************************************************************************)
EXTENDS Naturals, FiniteSets

CONSTANTS
  Users,      \* the people who may vote
  Requests,   \* the identities of signing requests
  Threshold   \* approvals needed before a signature is asked for

VARIABLES
  vote,       \* what each user has said of each request
  issued,     \* the requests for which a signature exists
  decision    \* what the request's status column shows

votingVars == <<vote, issued, decision>>

Approvers(r) == {u \in Users : vote[r][u] = "approve"}
Rejecters(r) == {u \in Users : vote[r][u] = "reject"}

VotingInit ==
  /\ vote = [r \in Requests |-> [u \in Users |-> "none"]]
  /\ issued = {}
  /\ decision = [r \in Requests |-> "absent"]

\* A request is filed.
Open(r) ==
  /\ decision[r] = "absent"
  /\ decision' = [decision EXCEPT ![r] = "pending"]
  /\ UNCHANGED <<vote, issued>>

\* A user speaks for the first and the last time about r.  The vote may come
\* after the decision: a handler looks at the status before it inserts the row.
Vote(r, u, v) ==
  /\ decision[r] # "absent"
  /\ vote[r][u] = "none"
  /\ vote' = [vote EXCEPT ![r][u] = v]
  /\ UNCHANGED <<issued, decision>>

\* The MPC infrastructure produces a signature: a quorum stands behind it.
Sign(r) ==
  /\ Cardinality(Approvers(r)) >= Threshold
  /\ issued' = issued \union {r}
  /\ UNCHANGED <<vote, decision>>

Complete(r) ==
  /\ decision[r] # "absent"
  /\ r \in issued
  /\ decision' = [decision EXCEPT ![r] = "completed"]
  /\ UNCHANGED <<vote, issued>>

Reject(r) ==
  /\ decision[r] # "absent"
  /\ Rejecters(r) # {}
  /\ decision' = [decision EXCEPT ![r] = "rejected"]
  /\ UNCHANGED <<vote, issued>>

VotingNext ==
  \E r \in Requests :
    \/ Open(r) \/ Sign(r) \/ Complete(r) \/ Reject(r)
    \/ \E u \in Users, v \in {"approve", "reject"} : Vote(r, u, v)

VotingSpec == VotingInit /\ [][VotingNext]_votingVars
=============================================================================
