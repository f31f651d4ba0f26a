----------------------- MODULE SigningWorkflowProofs -----------------------
(***************************************************************************)
(* Theorems about SigningWorkflow, for every set of users, requests and    *)
(* calls, every threshold, with and without failures.                      *)
(***************************************************************************)
EXTENDS SigningWorkflow, FiniteSetTheorems, TLAPS

-----------------------------------------------------------------------------
(* Type correctness *)

LEMMA InitType == Init => TypeOK
  BY NoSigAssumption
     DEF Init, TypeOK, Row, Statuses, AbsentRow, Steps, InFlight

\* The step of a call that leaves the tables and the infrastructure alone and
\* only moves its pc, to a place where its variables are of the right type.
LEMMA MoveType ==
  ASSUME TypeOK, NEW c \in Calls, NEW step \in Steps,
         step # "done" => local[c] \in Local, GoTo(c, step),
         UNCHANGED local
  PROVE  /\ pc' \in [Calls -> Steps]
         /\ local' \in [Calls -> Local \union {NoLocal}]
         /\ \A d \in InFlight' : local'[d] \in Local
  BY DEF TypeOK, GoTo, InFlight

LEMMA StepType == TypeOK /\ [Next]_vars => TypeOK'
<1> SUFFICES ASSUME TypeOK, [Next]_vars PROVE TypeOK'
    OBVIOUS
<1> USE DEF tables, mpc
<1>1. ASSUME NEW r \in Requests, CreateRequest(r) PROVE TypeOK'
  BY <1>1 DEF CreateRequest, TypeOK, Row, Statuses, InFlight
<1>2. ASSUME NEW c \in Calls, NEW u \in Users, NEW r \in Requests,
             ApproveLoad(c, u, r) \/ RejectLoad(c, u, r)
      PROVE  TypeOK'
  <2>1. PICK step \in {"check", "reject_insert"} : LoadPending(c, u, r, step)
    BY <1>2 DEF ApproveLoad, RejectLoad
  <2>2. [user |-> u, request |-> r, copy |-> requests[r]] \in Local
    BY DEF TypeOK, Local
  <2>3. QED
    BY <2>1, <2>2 DEF LoadPending, TypeOK, GoTo, Steps, InFlight
<1>3. ASSUME NEW c \in Calls, NEW r \in Requests, Refuse(c, r) PROVE TypeOK'
  BY <1>3, MoveType DEF Refuse, TypeOK, Steps
<1>4. ASSUME NEW c \in Calls, ApproveCheck(c) PROVE TypeOK'
  <2>1. local[c] \in Local
    BY <1>4 DEF ApproveCheck, TypeOK, InFlight
  <2>2. QED
    BY <1>4, <2>1, MoveType DEF ApproveCheck, TypeOK, Steps
<1>5. ASSUME NEW c \in Calls, NEW action \in {"approve", "reject"},
             pc[c] \in {"insert", "reject_insert"}, InsertVote(c, action)
      PROVE  approvals' \subseteq Approval
  BY <1>5 DEF InsertVote, TypeOK, Local, Approval, InFlight
<1>6. ASSUME NEW c \in Calls, ApproveInsert(c) PROVE TypeOK'
  <2>1. local[c] \in Local
    BY <1>6 DEF ApproveInsert, TypeOK, InFlight
  <2>2. approvals' \subseteq Approval
    BY <1>5, <1>6 DEF ApproveInsert, TypeOK
  <2>3. QED
    BY <1>6, <2>1, <2>2, MoveType DEF ApproveInsert, TypeOK, Steps
<1>7. ASSUME NEW c \in Calls, ApproveCount(c) PROVE TypeOK'
  <2>1. local[c] \in Local
    BY <1>7 DEF ApproveCount, TypeOK, InFlight
  <2>2. [call |-> c, request |-> local[c].request,
         tokens |-> ApproveRows(local[c].request)] \in SignTask
    BY <2>1 DEF SignTask, Local, ApproveRows, RowsOf, TypeOK
  <2>3. rpc' \subseteq SignTask
    BY <1>7, <2>2 DEF ApproveCount, TypeOK
  <2>4. QED
    BY <1>7, <2>1, <2>3, MoveType DEF ApproveCount, TypeOK, Steps
<1>8. ASSUME NEW c \in Calls, ApproveComplete(c) PROVE TypeOK'
  <2>1. local[c] \in Local
    BY <1>8 DEF ApproveComplete, TypeOK, InFlight
  <2>2. [local[c].copy EXCEPT !.status = "completed", !.signature = c] \in Row
    BY <2>1 DEF Local, Row, Statuses
  <2>3. requests' \in [Requests -> Row]
    BY <1>8, <2>2 DEF ApproveComplete, TypeOK
  <2>4. QED
    BY <1>8, <2>3, MoveType DEF ApproveComplete, TypeOK, Steps
<1>9. ASSUME NEW c \in Calls, RejectInsert(c) PROVE TypeOK'
  <2>1. local[c] \in Local
    BY <1>9 DEF RejectInsert, TypeOK, InFlight
  <2>2. approvals' \subseteq Approval
    BY <1>5, <1>9 DEF RejectInsert, TypeOK
  <2>3. QED
    BY <1>9, <2>1, <2>2, MoveType DEF RejectInsert, TypeOK, Steps
<1>10. ASSUME NEW c \in Calls, RejectUpdate(c) PROVE TypeOK'
  <2>1. local[c] \in Local
    BY <1>10 DEF RejectUpdate, TypeOK, InFlight
  <2>2. [local[c].copy EXCEPT !.status = "rejected"] \in Row
    BY <2>1 DEF Local, Row, Statuses
  <2>3. requests' \in [Requests -> Row]
    BY <1>10, <2>2 DEF RejectUpdate, TypeOK
  <2>4. QED
    BY <1>10, <2>3, MoveType DEF RejectUpdate, TypeOK, Steps
<1>11. ASSUME NEW c \in Calls, CallFails(c) PROVE TypeOK'
  BY <1>11, MoveType DEF CallFails, TypeOK, Steps
<1>12. ASSUME NEW t \in rpc, MpcSign(t) PROVE TypeOK'
  BY <1>12 DEF MpcSign, TypeOK, InFlight
<1>13. CASE UNCHANGED vars
  BY <1>13 DEF vars, TypeOK, InFlight
<1>14. QED
  BY <1>1, <1>2, <1>3, <1>4, <1>6, <1>7, <1>8, <1>9, <1>10, <1>11, <1>12, <1>13
     DEF Next, Proceed

\* Every reachable state of the tables, the calls and the infrastructure has
\* the shape TypeOK gives it.
THEOREM TypeCorrect == Spec => []TypeOK
  BY InitType, StepType, PTL DEF Spec

-----------------------------------------------------------------------------
(* The quorum invariant *)

\* Rows of one request that obey UNIQUE (request_id, user_id) are as many as
\* their voters: this is why counting rows counts people.
LEMMA RowsAreVoters ==
  ASSUME NEW rows, IsFiniteSet(rows),
         \A a, b \in rows : a.user = b.user => a = b
  PROVE  /\ IsFiniteSet(VotersIn(rows))
         /\ Cardinality(VotersIn(rows)) = Cardinality(rows)
<1> DEFINE f == [a \in rows |-> a.user]
<1>1. f \in Bijection(rows, VotersIn(rows))
  BY DEF VotersIn, Bijection, Injection, IsInjective, Surjection
<1>2. QED
  BY <1>1, FS_Bijection DEF ExistsBijection

LEMMA InitInv == Init => SigningInv
<1> SUFFICES ASSUME Init PROVE SigningInv
    OBVIOUS
<1>1. IsFiniteSet(approvals)
  BY FS_EmptySet DEF Init
<1>2. QED
  BY <1>1, InitType
     DEF Init, SigningInv, OneVotePerUser, CopiesPending, TasksOfCalls,
         RejectersVoted, SignedByQuorum, CompletedIsSigned, RejectedByVote,
         InFlight, AbsentRow

\* A vote that passes UNIQUE (request_id, user_id) keeps it true, adds one row
\* and takes none away.
LEMMA InsertedVote ==
  ASSUME SigningInv, NEW c \in Calls, NEW action, InsertVote(c, action)
  PROVE  /\ IsFiniteSet(approvals')
         /\ OneVotePerUser'
         /\ approvals \subseteq approvals'
         /\ \E a \in approvals' : a.request = local[c].request /\ a.action = action
<1>1. IsFiniteSet(approvals')
  BY FS_AddElement DEF SigningInv, InsertVote
<1>2. OneVotePerUser'
  BY DEF SigningInv, InsertVote, OneVotePerUser, Voted, RowsOf
<1>3. [id |-> c, request |-> local[c].request, user |-> local[c].user,
       action |-> action] \in approvals'
  BY DEF InsertVote
<1>4. \E a \in approvals' : a.request = local[c].request /\ a.action = action
  BY <1>3
<1>5. approvals \subseteq approvals'
  BY DEF InsertVote
<1>6. QED
  BY <1>1, <1>2, <1>4, <1>5

\* What has been signed with a quorum stays so while approvals only grow.
LEMMA QuorumMonotone ==
  ASSUME SignedByQuorum, approvals \subseteq approvals',
         (rpc \union signed)' \subseteq rpc \union signed
  PROVE  SignedByQuorum'
  BY DEF SignedByQuorum, ApproveRows, RowsOf, VotersIn

\* A call that goes on to its next statement, with its variables as they were.
LEMMA CallMoved ==
  ASSUME SigningInv, NEW c \in Calls, NEW step \in Steps, GoTo(c, step),
         UNCHANGED local, approvals \subseteq approvals',
         step # "done" => c \in InFlight,
         pc[c] \in {"wait", "done", "failed"} => step \in {"done", "failed"},
         step = "reject_update" =>
           \E a \in approvals' : a.request = local[c].request /\ a.action = "reject"
  PROVE  /\ CopiesPending'
         /\ RejectersVoted'
         /\ UNCHANGED mpc => TasksOfCalls'
<1>0. TypeOK
  BY DEF SigningInv
<1>1. CopiesPending'
  BY <1>0 DEF SigningInv, CopiesPending, InFlight, GoTo, TypeOK
<1>2. RejectersVoted'
  BY <1>0 DEF SigningInv, RejectersVoted, GoTo, TypeOK, RowsOf
<1>3. ASSUME UNCHANGED mpc PROVE TasksOfCalls'
  BY <1>0, <1>3 DEF SigningInv, TasksOfCalls, GoTo, TypeOK, mpc
<1>4. QED
  BY <1>1, <1>2, <1>3

\* The facts about the tables survive a step that leaves the signing_requests
\* table and the infrastructure alone and only adds votes.
LEMMA TablesKept ==
  ASSUME SigningInv, approvals \subseteq approvals', UNCHANGED <<requests, mpc>>
  PROVE  SignedByQuorum' /\ CompletedIsSigned' /\ RejectedByVote'
<1>1. SignedByQuorum'
  BY QuorumMonotone DEF SigningInv, mpc
<1>2. CompletedIsSigned' /\ RejectedByVote'
  BY DEF SigningInv, mpc, CompletedIsSigned, RejectedByVote, RowsOf
<1>3. QED
  BY <1>1, <1>2

LEMMA StepInv == SigningInv /\ [Next]_vars => SigningInv'
<1> SUFFICES ASSUME SigningInv, [Next]_vars PROVE SigningInv'
    OBVIOUS
<1>0. TypeOK /\ TypeOK'
  BY StepType DEF SigningInv
<1>a. ASSUME UNCHANGED approvals
      PROVE  IsFiniteSet(approvals') /\ OneVotePerUser' /\ approvals \subseteq approvals'
  BY <1>a DEF SigningInv, OneVotePerUser
<1>1. ASSUME NEW r \in Requests, CreateRequest(r) PROVE SigningInv'
  <2>1. CompletedIsSigned' /\ RejectedByVote'
    BY <1>0, <1>1
       DEF SigningInv, CreateRequest, CompletedIsSigned, RejectedByVote, TypeOK, RowsOf
  <2>2. QED
    BY <1>0, <1>1, <2>1
       DEF SigningInv, CreateRequest, OneVotePerUser, CopiesPending, TasksOfCalls,
           RejectersVoted, SignedByQuorum, ApproveRows, RowsOf, VotersIn, InFlight
<1>2. ASSUME NEW c \in Calls, NEW u \in Users, NEW r \in Requests,
             ApproveLoad(c, u, r) \/ RejectLoad(c, u, r)
      PROVE  SigningInv'
  <2>1. PICK step \in {"check", "reject_insert"} : LoadPending(c, u, r, step)
    BY <1>2 DEF ApproveLoad, RejectLoad
  <2>2. requests[r].status = "pending" /\ requests[r].signature = NoSig
    BY <2>1 DEF LoadPending, SigningInv, CompletedIsSigned
  <2>3. CopiesPending'
    BY <1>0, <2>1, <2>2 DEF SigningInv, LoadPending, CopiesPending, InFlight, GoTo, TypeOK
  <2>4. TasksOfCalls'
    BY <1>0, <2>1 DEF SigningInv, LoadPending, TasksOfCalls, GoTo, TypeOK, mpc
  <2>5. RejectersVoted'
    BY <1>0, <2>1
       DEF SigningInv, LoadPending, RejectersVoted, GoTo, TypeOK, tables, RowsOf
  <2>6. QED
    BY <1>0, <1>a, <2>1, <2>3, <2>4, <2>5, TablesKept
       DEF LoadPending, SigningInv, tables
<1>3. ASSUME NEW c \in Calls, NEW step \in {"insert", "done", "failed"}, GoTo(c, step),
             step = "insert" => pc[c] = "check", step = "failed" => c \in InFlight,
             UNCHANGED <<tables, local, mpc>>
      PROVE  SigningInv'
  <2>1. CopiesPending' /\ RejectersVoted' /\ TasksOfCalls'
    BY <1>a, <1>3, CallMoved DEF InFlight, tables, Steps
  <2>2. QED
    BY <1>0, <1>a, <1>3, <2>1, TablesKept DEF SigningInv, tables
<1>4. ASSUME NEW c \in Calls, NEW r \in Requests, Refuse(c, r) PROVE SigningInv'
  BY <1>3, <1>4 DEF Refuse
<1>5. ASSUME NEW c \in Calls, ApproveCheck(c) PROVE SigningInv'
  BY <1>3, <1>5 DEF ApproveCheck
<1>6. ASSUME NEW c \in Calls, CallFails(c) PROVE SigningInv'
  BY <1>3, <1>6 DEF CallFails
<1>7. ASSUME NEW c \in Calls, NEW action, NEW step \in {"count", "reject_update"},
             InsertVote(c, action), GoTo(c, step), UNCHANGED <<requests, local, mpc>>,
             pc[c] \in {"insert", "reject_insert"},
             step = "reject_update" => action = "reject"
      PROVE  SigningInv'
  <2>1. /\ IsFiniteSet(approvals') /\ OneVotePerUser'
        /\ approvals \subseteq approvals'
        /\ \E a \in approvals' : a.request = local[c].request /\ a.action = action
    BY <1>7, InsertedVote
  <2>2. CopiesPending' /\ RejectersVoted' /\ TasksOfCalls'
    BY <1>7, <2>1, CallMoved DEF InFlight, Steps
  <2>3. QED
    BY <1>0, <1>7, <2>1, <2>2, TablesKept DEF SigningInv
<1>8. ASSUME NEW c \in Calls, ApproveInsert(c) PROVE SigningInv'
  BY <1>3, <1>7, <1>8 DEF ApproveInsert, tables
<1>9. ASSUME NEW c \in Calls, RejectInsert(c) PROVE SigningInv'
  BY <1>3, <1>7, <1>9 DEF RejectInsert, tables
<1>10. ASSUME NEW c \in Calls, ApproveCount(c) PROVE SigningInv'
  <2> DEFINE rows == ApproveRows(local[c].request)
             task == [call |-> c, request |-> local[c].request, tokens |-> rows]
  <2>1. CASE Cardinality(rows) < Threshold /\ GoTo(c, "done") /\ UNCHANGED rpc
    BY <1>3, <1>10, <2>1 DEF ApproveCount, mpc
  <2>2. CASE /\ Cardinality(rows) >= Threshold
             /\ rpc' = rpc \union {task}
             /\ GoTo(c, "wait")
    <3>1. CopiesPending' /\ RejectersVoted'
      BY <1>a, <1>10, <2>2, CallMoved DEF ApproveCount, InFlight, Steps, tables
    <3>2. local[c] \in Local
      BY <1>0, <1>10 DEF ApproveCount, TypeOK, InFlight
    <3>3. TasksOfCalls'
      BY <1>0, <1>10, <2>2, <3>2
         DEF SigningInv, ApproveCount, TasksOfCalls, GoTo, TypeOK
    <3>4. IsFiniteSet(rows) /\ \A a, b \in rows : a.user = b.user => a = b
      BY FS_Subset DEF SigningInv, OneVotePerUser, ApproveRows, RowsOf
    <3>5. Cardinality(VotersIn(rows)) >= Threshold
      BY <2>2, <3>4, RowsAreVoters
    <3>6. SignedByQuorum'
      <4>1. \A s \in rpc \union signed :
              /\ s.tokens \subseteq ApproveRows(s.request)
              /\ Cardinality(VotersIn(s.tokens)) >= Threshold
        BY DEF SigningInv, SignedByQuorum
      <4>2. \A q : ApproveRows(q)' = ApproveRows(q)
        BY <1>10 DEF ApproveCount, tables, ApproveRows, RowsOf
      <4>3. \A s : VotersIn(s.tokens)' = VotersIn(s.tokens)
        BY DEF VotersIn
      <4>4. \A s \in (rpc \union signed)' : s = task \/ s \in rpc \union signed
        BY <1>10, <2>2 DEF ApproveCount
      <4>5. task.request = local[c].request /\ task.tokens = rows
        OBVIOUS
      <4>6. QED
        BY <3>5, <4>1, <4>2, <4>3, <4>4, <4>5 DEF SignedByQuorum
    <3>7. CompletedIsSigned' /\ RejectedByVote'
      BY <1>10, <2>2
         DEF SigningInv, ApproveCount, CompletedIsSigned, RejectedByVote, RowsOf, tables
    <3>8. QED
      BY <1>0, <1>a, <1>10, <3>1, <3>3, <3>6, <3>7 DEF SigningInv, ApproveCount, tables
  <2>3. QED
    BY <1>10, <2>1, <2>2 DEF ApproveCount
<1>11. ASSUME NEW c \in Calls, ApproveComplete(c) PROVE SigningInv'
  <2> DEFINE r == local[c].request
  <2>1. CopiesPending' /\ RejectersVoted' /\ TasksOfCalls'
    BY <1>a, <1>11, CallMoved DEF ApproveComplete, Steps
  <2>2. PICK s \in signed : s.call = c
    BY <1>11 DEF ApproveComplete
  <2>3. s.request = r
    BY <2>2 DEF SigningInv, TasksOfCalls
  <2>4. local[c] \in Local
    BY <1>0, <1>11 DEF ApproveComplete, TypeOK, InFlight
  <2>5. /\ requests'[r].status = "completed" /\ requests'[r].signature = c
        /\ \A q \in Requests \ {r} : requests'[q] = requests[q]
    BY <1>0, <1>11, <2>4 DEF ApproveComplete, TypeOK, Local, Row
  <2>6. CompletedIsSigned'
    BY <1>11, <2>2, <2>3, <2>5, NoSigAssumption
       DEF SigningInv, ApproveComplete, CompletedIsSigned, mpc
  <2>7. RejectedByVote'
    BY <1>11, <2>5 DEF SigningInv, ApproveComplete, RejectedByVote, RowsOf
  <2>8. SignedByQuorum'
    BY <1>11, QuorumMonotone DEF SigningInv, ApproveComplete, mpc
  <2>9. QED
    BY <1>0, <1>a, <1>11, <2>1, <2>6, <2>7, <2>8 DEF SigningInv, ApproveComplete
<1>12. ASSUME NEW c \in Calls, RejectUpdate(c) PROVE SigningInv'
  <2> DEFINE r == local[c].request
  <2>1. CopiesPending' /\ RejectersVoted' /\ TasksOfCalls'
    BY <1>a, <1>12, CallMoved DEF RejectUpdate, Steps
  <2>2. local[c] \in Local /\ local[c].copy.signature = NoSig
    BY <1>0, <1>12 DEF RejectUpdate, TypeOK, InFlight, SigningInv, CopiesPending
  <2>3. /\ requests'[r].status = "rejected" /\ requests'[r].signature = NoSig
        /\ \A q \in Requests \ {r} : requests'[q] = requests[q]
    BY <1>0, <1>12, <2>2 DEF RejectUpdate, TypeOK, Local, Row
  <2>4. CompletedIsSigned'
    BY <1>12, <2>3 DEF SigningInv, RejectUpdate, CompletedIsSigned, mpc
  <2>5. RejectedByVote'
    BY <1>12, <2>3 DEF SigningInv, RejectUpdate, RejectedByVote, RejectersVoted, RowsOf
  <2>6. SignedByQuorum'
    BY <1>12, QuorumMonotone DEF SigningInv, RejectUpdate, mpc
  <2>7. QED
    BY <1>0, <1>a, <1>12, <2>1, <2>4, <2>5, <2>6 DEF SigningInv, RejectUpdate
<1>13. ASSUME NEW t \in rpc, MpcSign(t) PROVE SigningInv'
  <2>1. TasksOfCalls' /\ CompletedIsSigned' /\ RejectedByVote'
    BY <1>13 DEF SigningInv, MpcSign, TasksOfCalls, CompletedIsSigned, RejectedByVote,
                 RowsOf, tables
  <2>2. SignedByQuorum'
    BY <1>13, QuorumMonotone DEF SigningInv, MpcSign, tables
  <2>3. QED
    BY <1>0, <1>a, <1>13, <2>1, <2>2
       DEF SigningInv, MpcSign, CopiesPending, RejectersVoted, RowsOf, InFlight, tables
<1>14. CASE UNCHANGED vars
  BY <1>0, <1>14
     DEF SigningInv, vars, OneVotePerUser, CopiesPending, TasksOfCalls, RejectersVoted,
         SignedByQuorum, ApproveRows, RowsOf, VotersIn, CompletedIsSigned,
         RejectedByVote, InFlight
<1>15. QED
  BY <1>1, <1>2, <1>4, <1>5, <1>6, <1>8, <1>9, <1>10, <1>11, <1>12, <1>13, <1>14
     DEF Next, Proceed

\* The strengthening holds in every state: rows are people, stale copies are of
\* pending requests, and tasks belong to the calls that sent them.
THEOREM InvHolds == Spec => []SigningInv
  BY InitInv, StepInv, PTL DEF Spec

\* Every signature asked of the infrastructure carries the approvals of at
\* least Threshold different users of the request, whatever the interleaving of
\* approvals, rejections, failures and late answers.
THEOREM QuorumSafety == Spec => []SignedByQuorum
<1>1. SigningInv => SignedByQuorum
  BY DEF SigningInv
<1>2. QED
  BY <1>1, InvHolds, PTL

\* The stale copies that calls write back never leave a completed request
\* without a signature of its own, nor an undecided one with a signature.
THEOREM CompletionSafety == Spec => []CompletedIsSigned
<1>1. SigningInv => CompletedIsSigned
  BY DEF SigningInv
<1>2. QED
  BY <1>1, InvHolds, PTL

\* A rejected request has a rejecter on record.
THEOREM RejectionSafety == Spec => []RejectedByVote
<1>1. SigningInv => RejectedByVote
  BY DEF SigningInv
<1>2. QED
  BY <1>1, InvHolds, PTL

-----------------------------------------------------------------------------
(* The life of a row *)

\* What a step does to the row of a request: nothing, creation, or a decision
\* on a request that exists.
LEMMA RowSteps ==
  ASSUME SigningInv, [Next]_vars, NEW r \in Requests
  PROVE  \/ requests'[r] = requests[r]
         \/ requests[r].status = "absent" /\ requests'[r].status = "pending"
         \/ requests'[r].status \in {"completed", "rejected"}
<1>0. TypeOK
  BY DEF SigningInv
<1>1. ASSUME NEW q \in Requests, CreateRequest(q)
      PROVE  \/ requests'[r] = requests[r]
             \/ requests[r].status = "absent" /\ requests'[r].status = "pending"
  BY <1>0, <1>1 DEF CreateRequest, TypeOK
<1>2. ASSUME NEW c \in Calls, ApproveComplete(c) \/ RejectUpdate(c)
      PROVE  \/ requests'[r] = requests[r]
             \/ requests'[r].status \in {"completed", "rejected"}
  <2>1. local[c].copy \in Row
    BY <1>0, <1>2 DEF ApproveComplete, RejectUpdate, TypeOK, InFlight, Local
  <2>2. PICK status \in {"completed", "rejected"}, sig \in Calls \union {NoSig} :
          requests' = [requests EXCEPT ![local[c].request] =
             [local[c].copy EXCEPT !.status = status, !.signature = sig]]
    <3>1. CASE ApproveComplete(c)
      BY <3>1 DEF ApproveComplete
    <3>2. CASE RejectUpdate(c)
      <4>1. [local[c].copy EXCEPT !.status = "rejected"] =
              [local[c].copy EXCEPT !.status = "rejected",
                                    !.signature = local[c].copy.signature]
        BY <2>1 DEF Row
      <4>2. requests' = [requests EXCEPT ![local[c].request] =
              [local[c].copy EXCEPT !.status = "rejected"]]
        BY <3>2 DEF RejectUpdate
      <4>3. local[c].copy.signature \in Calls \union {NoSig}
        BY <2>1 DEF Row
      <4>4. QED
        BY <4>1, <4>2, <4>3
    <3>3. QED
      BY <1>2, <3>1, <3>2
  <2>3. [local[c].copy EXCEPT !.status = status, !.signature = sig].status = status
    BY <2>1 DEF Row
  <2>4. requests \in [Requests -> Row]
    BY <1>0 DEF TypeOK
  <2>5. QED
    BY <2>2, <2>3, <2>4
<1>3. CASE UNCHANGED requests
  BY <1>3
<1>4. QED
  BY <1>1, <1>2, <1>3
     DEF Next, Proceed, ApproveLoad, RejectLoad, LoadPending, Refuse, ApproveCheck,
         ApproveInsert, ApproveCount, RejectInsert, CallFails, MpcSign, tables, vars

\* No step turns a decided request back into a pending one.
THEOREM NeverReopenedHolds == Spec => NeverReopened
<1>1. ASSUME SigningInv, [Next]_vars, NEW r \in Requests,
             requests[r].status \in {"completed", "rejected"}
      PROVE  requests'[r].status \in {"completed", "rejected"}
  BY <1>1, RowSteps
<1>2. SigningInv /\ [Next]_vars =>
        [\A r \in Requests :
           requests[r].status \in {"completed", "rejected"} =>
             requests'[r].status \in {"completed", "rejected"}]_vars
  BY <1>1
<1>3. QED
  BY <1>2, InvHolds, PTL DEF Spec, NeverReopened

\* A decision is replaced only by a call that read the request as pending.
THEOREM DecisionReplacedHolds == Spec => DecisionReplacedByOverlap
<1>1. ASSUME SigningInv, [Next]_vars, NEW r \in Requests,
             requests[r].status \in {"completed", "rejected"},
             requests'[r].status # requests[r].status
      PROVE  \E c \in InFlight : local[c].request = r /\ local[c].copy.status = "pending"
  <2>0. TypeOK /\ CopiesPending
    BY <1>1 DEF SigningInv
  <2>1. requests \in [Requests -> Row]
    BY <2>0 DEF TypeOK
  <2>2. ASSUME NEW q \in Requests, CreateRequest(q) PROVE FALSE
    <3>1. q # r /\ requests'[r] = requests[r]
      BY <1>1, <2>1, <2>2 DEF CreateRequest
    <3>2. QED
      BY <1>1, <3>1
  <2>3. ASSUME NEW c \in Calls, ApproveComplete(c) \/ RejectUpdate(c)
        PROVE  c \in InFlight /\ local[c].request = r
    <3>1. c \in InFlight
      BY <2>3 DEF ApproveComplete, RejectUpdate, InFlight
    <3>2. PICK row : requests' = [requests EXCEPT ![local[c].request] = row]
      BY <2>3 DEF ApproveComplete, RejectUpdate
    <3>3. local[c].request # r => requests'[r] = requests[r]
      BY <2>1, <3>2
    <3>4. QED
      BY <1>1, <3>1, <3>3
  <2>4. CASE UNCHANGED requests
    BY <1>1, <2>4
  <2>5. ASSUME NEW c \in Calls, ApproveComplete(c) \/ RejectUpdate(c)
        PROVE  \E d \in InFlight : local[d].request = r /\ local[d].copy.status = "pending"
    BY <2>0, <2>3, <2>5 DEF CopiesPending
  <2>6. QED
    BY <1>1, <2>2, <2>4, <2>5
       DEF Next, Proceed, ApproveLoad, RejectLoad, LoadPending, Refuse, ApproveCheck,
           ApproveInsert, ApproveCount, RejectInsert, CallFails, MpcSign, tables, vars
<1>2. SigningInv /\ [Next]_vars =>
        [\A r \in Requests :
           requests[r].status \in {"completed", "rejected"} =>
             \/ requests'[r].status = requests[r].status
             \/ \E c \in InFlight :
                  local[c].request = r /\ local[c].copy.status = "pending"]_vars
  BY <1>1
<1>3. QED
  BY <1>2, InvHolds, PTL DEF Spec, DecisionReplacedByOverlap

\* The request a call works on is in the table.
RequestsExist ==
  \A c \in InFlight : requests[local[c].request].status # "absent"

LEMMA RequestsExistStep ==
  SigningInv /\ RequestsExist /\ [Next]_vars => RequestsExist'
<1> SUFFICES ASSUME SigningInv, RequestsExist, [Next]_vars, NEW c \in InFlight'
             PROVE  requests'[local'[c].request].status # "absent"
    BY DEF RequestsExist
<1>0. TypeOK /\ TypeOK'
  BY StepType DEF SigningInv
<1>1. ASSUME NEW r \in Requests, requests[r].status # "absent"
      PROVE  requests'[r].status # "absent"
  BY <1>1, RowSteps
<1>2. c \in Calls /\ local'[c] \in Local /\ local'[c].request \in Requests
  BY <1>0 DEF TypeOK, InFlight, Local
<1>3. CASE c \in InFlight /\ local'[c] = local[c]
  BY <1>1, <1>2, <1>3 DEF RequestsExist
<1>4. ASSUME NEW u \in Users, NEW r \in Requests, NEW step, LoadPending(c, u, r, step)
      PROVE  requests'[local'[c].request].status # "absent"
  <2>1. local'[c].request = r /\ requests' = requests
    BY <1>0, <1>2, <1>4 DEF LoadPending, TypeOK, tables
  <2>2. QED
    BY <1>4, <2>1 DEF LoadPending
<1>5. ASSUME NEW d \in Calls, NEW u \in Users, NEW r \in Requests, NEW step,
             LoadPending(d, u, r, step), d # c
      PROVE  c \in InFlight /\ local'[c] = local[c]
  BY <1>0, <1>2, <1>5 DEF LoadPending, InFlight, GoTo, TypeOK
<1>6. ASSUME NEW d \in Calls, Proceed(d) \/ CallFails(d)
      PROVE  c \in InFlight /\ local'[c] = local[c]
  BY <1>0, <1>2, <1>6
     DEF Proceed, CallFails, ApproveCheck, ApproveInsert, ApproveCount, ApproveComplete,
         RejectInsert, RejectUpdate, InFlight, GoTo, TypeOK
<1>7. ASSUME NEW d \in Calls, NEW r \in Requests, Refuse(d, r)
      PROVE  c \in InFlight /\ local'[c] = local[c]
  BY <1>0, <1>2, <1>7 DEF Refuse, InFlight, GoTo, TypeOK
<1>8. CASE UNCHANGED <<pc, local>>
  BY <1>3, <1>8 DEF InFlight
<1>9. QED
  BY <1>3, <1>4, <1>5, <1>6, <1>7, <1>8
     DEF Next, ApproveLoad, RejectLoad, CreateRequest, MpcSign, vars

-----------------------------------------------------------------------------
(* What becomes of votes and of signatures, with and without failures *)

\* The step that ends a decision leaves the request decided, whatever the copy
\* that is saved said.
LEMMA DecidingStep ==
  ASSUME TypeOK, NEW c \in Calls, ApproveComplete(c) \/ RejectUpdate(c)
  PROVE  Decided(local[c].request)'
<1>1. local[c] \in Local
  BY DEF ApproveComplete, RejectUpdate, TypeOK, InFlight
<1>2. local[c].request \in Requests /\ local[c].copy \in Row
  BY <1>1 DEF Local
<1>3. requests \in [Requests -> Row] /\ local' = local
  BY DEF TypeOK, ApproveComplete, RejectUpdate
<1>4. CASE ApproveComplete(c)
  <2>1. requests'[local[c].request] =
          [local[c].copy EXCEPT !.status = "completed", !.signature = c]
    BY <1>2, <1>3, <1>4 DEF ApproveComplete
  <2>2. QED
    BY <1>2, <1>3, <2>1 DEF Row, Decided
<1>5. CASE RejectUpdate(c)
  <2>1. requests'[local[c].request] = [local[c].copy EXCEPT !.status = "rejected"]
    BY <1>2, <1>3, <1>5 DEF RejectUpdate
  <2>2. QED
    BY <1>2, <1>3, <2>1 DEF Row, Decided
<1>6. QED
  BY <1>4, <1>5

LEMMA DecidedKept ==
  ASSUME SigningInv, [Next]_vars, NEW r \in Requests, Decided(r)
  PROVE  Decided(r)'
BY RowSteps DEF Decided

\* A call moves on or ends without writing the decision, and the votes and the
\* tasks stay as they are.
LEMMA MovedOutcome ==
  ASSUME SigningInv, OutcomeInv, [Next]_vars, NEW c \in Calls, NEW step \in Steps,
         GoTo(c, step), UNCHANGED <<approvals, mpc>>,
         \A d \in Calls \ {c} : local'[d] = local[d],
         pc[c] \in {"new", "check", "insert", "reject_insert"} \/ step = "failed",
         step = "failed" => c \in InFlight /\ local' = local
  PROVE  OutcomeInv'
<1>0. TypeOK /\ TasksOfCalls
  BY DEF SigningInv
<1>1. pc'[c] = step /\ \A d \in Calls \ {c} : pc'[d] = pc[d]
  BY <1>0 DEF GoTo, TypeOK
<1>2. VotesOfCalls'
  BY <1>0, <1>1 DEF OutcomeInv, VotesOfCalls, TypeOK, Approval, InFlight
<1>3. TasksSettled'
  <2> SUFFICES ASSUME NEW t \in rpc \union signed
               PROVE  pc'[t.call] \in {"wait", "failed"} \/ Decided(t.request)'
      BY DEF TasksSettled, mpc
  <2>1. t.call \in Calls /\ t.request \in Requests
    BY <1>0 DEF TypeOK, SignTask
  <2>2. CASE Decided(t.request)
    BY <2>1, <2>2, DecidedKept
  <2>3. CASE ~Decided(t.request)
    BY <1>0, <1>1, <2>1, <2>3 DEF OutcomeInv, TasksSettled, TasksOfCalls
  <2>4. QED
    BY <2>2, <2>3
<1>4. UndecidedHasCalls'
  <2> SUFFICES ASSUME NEW r \in Requests, ~Decided(r)' PROVE DecisionComing(r)'
      BY DEF UndecidedHasCalls
  <2>1. DecisionComing(r)
    BY DecidedKept DEF OutcomeInv, UndecidedHasCalls
  <2>2. RowsOf(r)' = RowsOf(r) /\ ApproveRows(r)' = ApproveRows(r)
    BY DEF RowsOf, ApproveRows
  <2>3. \A a \in RowsOf(r) : a.id \in Calls /\ (pc'[a.id] = pc[a.id] \/ pc'[a.id] = "failed")
    BY <1>0, <1>1 DEF RowsOf, TypeOK, Approval, OutcomeInv, VotesOfCalls
  <2>4. ApproveRows(r) \subseteq RowsOf(r)
    BY DEF ApproveRows
  <2>5. QED
    BY <2>1, <2>2, <2>3, <2>4 DEF DecisionComing
<1>5. QED
  BY <1>2, <1>3, <1>4 DEF OutcomeInv

\* A new vote comes with the call that inserted it.
LEMMA VotedOutcome ==
  ASSUME SigningInv, OutcomeInv, [Next]_vars, NEW c \in Calls,
         NEW action \in {"approve", "reject"}, InsertVote(c, action),
         GoTo(c, IF action = "approve" THEN "count" ELSE "reject_update"),
         pc[c] \in {"insert", "reject_insert"}, UNCHANGED <<requests, local, mpc>>
  PROVE  OutcomeInv'
<1> DEFINE row == [id |-> c, request |-> local[c].request, user |-> local[c].user,
                   action |-> action]
<1>0. TypeOK /\ TasksOfCalls
  BY DEF SigningInv
<1>1. /\ approvals' = approvals \union {row} /\ row.id = c
      /\ row.request = local[c].request /\ row.action = action
  BY DEF InsertVote
<1> HIDE DEF row
<1>2. /\ pc'[c] = IF action = "approve" THEN "count" ELSE "reject_update"
      /\ \A d \in Calls \ {c} : pc'[d] = pc[d]
  BY <1>0 DEF GoTo, TypeOK
<1>3. \A a \in approvals : a.id \in Calls \ {c}
  BY <1>0 DEF OutcomeInv, VotesOfCalls, TypeOK, Approval
<1>4. VotesOfCalls'
  BY <1>1, <1>2, <1>3 DEF OutcomeInv, VotesOfCalls
<1>5. TasksSettled'
  BY <1>0, <1>2 DEF OutcomeInv, TasksSettled, TasksOfCalls, TypeOK, SignTask, mpc, Decided
<1>6. UndecidedHasCalls'
  <2> SUFFICES ASSUME NEW r \in Requests, ~Decided(r)' PROVE DecisionComing(r)'
      BY DEF UndecidedHasCalls
  <2>1. DecisionComing(r)
    BY DEF OutcomeInv, UndecidedHasCalls, Decided
  <2>2. \A a \in RowsOf(r)' : a = row \/ (a \in RowsOf(r) /\ pc'[a.id] = pc[a.id])
    BY <1>1, <1>2, <1>3 DEF RowsOf
  <2>3. \A a \in RowsOf(r)' : a.action = "reject" => pc'[a.id] \in {"reject_update", "failed"}
    BY <1>1, <1>2, <2>1, <2>2 DEF DecisionComing
  <2>4. CASE row \in ApproveRows(r)'
    BY <1>1, <1>2, <2>3, <2>4 DEF DecisionComing, ApproveRows
  <2>5. CASE row \notin ApproveRows(r)'
    <3>1. ApproveRows(r)' = ApproveRows(r)
      BY <1>1, <2>5 DEF ApproveRows, RowsOf
    <3>2. \A a \in ApproveRows(r) : pc'[a.id] = pc[a.id]
      BY <1>2, <1>3 DEF ApproveRows, RowsOf
    <3>3. QED
      BY <2>1, <2>3, <3>1, <3>2 DEF DecisionComing
  <2>6. QED
    BY <2>4, <2>5
<1>7. QED
  BY <1>4, <1>5, <1>6 DEF OutcomeInv

\* Whoever counts too few approvals leaves a request without a quorum; whoever
\* counts enough waits for the signature.
LEMMA CountedOutcome ==
  ASSUME SigningInv, OutcomeInv, [Next]_vars, NEW c \in Calls, ApproveCount(c)
  PROVE  OutcomeInv'
<1> DEFINE q == local[c].request
           task == [call |-> c, request |-> q, tokens |-> ApproveRows(q)]
<1>0. TypeOK /\ IsFiniteSet(approvals) /\ TasksOfCalls
  BY DEF SigningInv
<1>1. /\ pc[c] = "count" /\ pc'[c] \in {"wait", "done"}
      /\ \A d \in Calls \ {c} : pc'[d] = pc[d]
      /\ UNCHANGED <<requests, approvals, local, signed>>
  BY <1>0 DEF ApproveCount, GoTo, TypeOK, tables
<1>2. VotesOfCalls'
  BY <1>0, <1>1 DEF OutcomeInv, VotesOfCalls, TypeOK, Approval
<1>3. TasksSettled'
  <2>1. \A t \in rpc \union signed : t.call \in Calls \ {c}
    BY <1>0, <1>1 DEF TasksOfCalls, TypeOK, SignTask
  <2>2. \/ rpc' = rpc
        \/ rpc' = rpc \union {task} /\ pc'[c] = "wait" /\ task.call = c
    BY <1>0 DEF ApproveCount, GoTo, TypeOK
  <2> HIDE DEF task
  <2>3. QED
    BY <1>1, <2>1, <2>2 DEF OutcomeInv, TasksSettled, Decided
<1>4. UndecidedHasCalls'
  <2> SUFFICES ASSUME NEW r \in Requests, ~Decided(r)' PROVE DecisionComing(r)'
      BY DEF UndecidedHasCalls
  <2>1. DecisionComing(r) /\ RowsOf(r)' = RowsOf(r) /\ ApproveRows(r)' = ApproveRows(r)
    BY <1>1 DEF OutcomeInv, UndecidedHasCalls, Decided, RowsOf, ApproveRows
  <2>2. \A a \in RowsOf(r) : a.id \in Calls /\ (a.id = c => q = r)
    BY <1>0 DEF RowsOf, TypeOK, Approval, OutcomeInv, VotesOfCalls
  <2>3. \A a \in RowsOf(r) : a.action = "reject" => pc'[a.id] \in {"reject_update", "failed"}
    BY <1>1, <2>1, <2>2 DEF DecisionComing
  <2>4. CASE pc'[c] = "wait" \/ q # r
    <3>1. \A a \in ApproveRows(r) :
            pc[a.id] \in {"count", "wait", "failed"} => pc'[a.id] \in {"count", "wait", "failed"}
      BY <1>1, <2>2, <2>4 DEF ApproveRows
    <3>2. QED
      BY <2>1, <2>3, <3>1 DEF DecisionComing
  <2>5. CASE pc'[c] = "done" /\ q = r
    <3>1. Cardinality(ApproveRows(r)) < Threshold
      BY <1>0, <2>5 DEF ApproveCount, GoTo, TypeOK
    <3>2. Cardinality(ApproveRows(r)) \in Nat
      <4>1. IsFiniteSet(ApproveRows(r))
        BY <1>0, FS_Subset DEF ApproveRows, RowsOf
      <4>2. QED
        BY <4>1, FS_CardinalityType
    <3>3. ~(Cardinality(ApproveRows(r)') >= Threshold)
      BY <2>1, <3>1, <3>2, ThresholdAssumption
    <3>4. QED
      BY <2>1, <2>3, <3>3 DEF DecisionComing
  <2>6. QED
    BY <1>1, <2>4, <2>5
<1>5. QED
  BY <1>2, <1>3, <1>4 DEF OutcomeInv

\* A call that writes the decision settles its task and its vote.
LEMMA DecidedOutcome ==
  ASSUME SigningInv, OutcomeInv, [Next]_vars, NEW c \in Calls,
         ApproveComplete(c) \/ RejectUpdate(c)
  PROVE  OutcomeInv'
<1>0. TypeOK /\ TasksOfCalls
  BY DEF SigningInv
<1>1. /\ pc[c] \in {"wait", "reject_update"} /\ pc'[c] = "done"
      /\ \A d \in Calls \ {c} : pc'[d] = pc[d]
      /\ UNCHANGED <<approvals, local, rpc, signed>>
  BY <1>0 DEF ApproveComplete, RejectUpdate, GoTo, TypeOK, mpc
<1>2. Decided(local[c].request)'
  BY <1>0, DecidingStep
<1>3. VotesOfCalls'
  BY <1>0, <1>1 DEF OutcomeInv, VotesOfCalls, TypeOK, Approval
<1>4. TasksSettled'
  <2> SUFFICES ASSUME NEW t \in rpc \union signed
               PROVE  pc'[t.call] \in {"wait", "failed"} \/ Decided(t.request)'
      BY <1>1 DEF TasksSettled
  <2>1. t.call \in Calls /\ t.request \in Requests /\ local[t.call].request = t.request
    BY <1>0 DEF TypeOK, SignTask, TasksOfCalls
  <2>2. CASE t.call = c
    BY <1>1, <1>2, <2>1, <2>2
  <2>3. CASE t.call # c
    BY <1>1, <2>1, <2>3, DecidedKept DEF OutcomeInv, TasksSettled
  <2>4. QED
    BY <2>2, <2>3
<1>5. UndecidedHasCalls'
  <2> SUFFICES ASSUME NEW r \in Requests, ~Decided(r)' PROVE DecisionComing(r)'
      BY DEF UndecidedHasCalls
  <2>1. DecisionComing(r) /\ RowsOf(r)' = RowsOf(r) /\ ApproveRows(r)' = ApproveRows(r)
    BY <1>1, DecidedKept DEF OutcomeInv, UndecidedHasCalls, RowsOf, ApproveRows
  <2>2. local[c].request # r
    BY <1>1, <1>2
  <2>3. \A a \in RowsOf(r) : pc'[a.id] = pc[a.id]
    BY <1>0, <1>1, <2>2 DEF RowsOf, TypeOK, Approval, OutcomeInv, VotesOfCalls
  <2>4. ApproveRows(r) \subseteq RowsOf(r)
    BY DEF ApproveRows
  <2>5. QED
    BY <2>1, <2>3, <2>4 DEF DecisionComing
<1>6. QED
  BY <1>3, <1>4, <1>5 DEF OutcomeInv

LEMMA OutcomeStep == SigningInv /\ OutcomeInv /\ [Next]_vars => OutcomeInv'
<1> SUFFICES ASSUME SigningInv, OutcomeInv, [Next]_vars PROVE OutcomeInv'
    OBVIOUS
<1>0. TypeOK
  BY DEF SigningInv
\* A step of nobody: the votes and their calls, and which tasks there are, stay.
<1>1. ASSUME UNCHANGED <<approvals, pc, local>>, (rpc \union signed)' = rpc \union signed
      PROVE  OutcomeInv'
  <2>1. VotesOfCalls'
    BY <1>1 DEF OutcomeInv, VotesOfCalls
  <2>2. TasksSettled'
    BY <1>0, <1>1, DecidedKept DEF OutcomeInv, TasksSettled, TypeOK, SignTask
  <2>3. UndecidedHasCalls'
    BY <1>1, DecidedKept DEF OutcomeInv, UndecidedHasCalls, DecisionComing, RowsOf, ApproveRows
  <2>4. QED
    BY <2>1, <2>2, <2>3 DEF OutcomeInv
<1>2. CASE (\E r \in Requests : CreateRequest(r)) \/ (\E t \in rpc : MpcSign(t)) \/ UNCHANGED vars
  BY <1>1, <1>2 DEF CreateRequest, MpcSign, tables, vars
<1>3. ASSUME NEW c \in Calls, NEW u \in Users, NEW r \in Requests,
             ApproveLoad(c, u, r) \/ RejectLoad(c, u, r)
      PROVE  OutcomeInv'
  <2>1. PICK step \in {"check", "reject_insert"} : LoadPending(c, u, r, step)
    BY <1>3 DEF ApproveLoad, RejectLoad
  <2>2. \A d \in Calls \ {c} : local'[d] = local[d]
    BY <1>0, <2>1 DEF LoadPending, TypeOK
  <2>3. QED
    BY <2>1, <2>2, MovedOutcome DEF LoadPending, tables, Steps
<1>4. ASSUME NEW c \in Calls, NEW r \in Requests, Refuse(c, r) PROVE OutcomeInv'
  BY <1>4, MovedOutcome DEF Refuse, tables, Steps
<1>5. ASSUME NEW c \in Calls, ApproveCheck(c) \/ CallFails(c) PROVE OutcomeInv'
  BY <1>5, MovedOutcome DEF ApproveCheck, CallFails, tables, Steps
<1>6. ASSUME NEW c \in Calls, ApproveInsert(c) PROVE OutcomeInv'
  <2>1. CASE InsertVote(c, "approve") /\ GoTo(c, "count")
    BY <1>6, <2>1, VotedOutcome DEF ApproveInsert
  <2>2. CASE GoTo(c, "done") /\ UNCHANGED approvals
    BY <1>6, <2>2, MovedOutcome DEF ApproveInsert, Steps
  <2>3. QED
    BY <1>6, <2>1, <2>2 DEF ApproveInsert
<1>7. ASSUME NEW c \in Calls, RejectInsert(c) PROVE OutcomeInv'
  <2>1. CASE InsertVote(c, "reject") /\ GoTo(c, "reject_update")
    BY <1>7, <2>1, VotedOutcome DEF RejectInsert
  <2>2. CASE GoTo(c, "done") /\ UNCHANGED approvals
    BY <1>7, <2>2, MovedOutcome DEF RejectInsert, Steps
  <2>3. QED
    BY <1>7, <2>1, <2>2 DEF RejectInsert
<1>8. QED
  BY <1>2, <1>3, <1>4, <1>5, <1>6, <1>7, CountedOutcome, DecidedOutcome DEF Next, Proceed

\* In every reachable state, failures or not, an undecided request has a call
\* behind each vote that matters, and every task is settled or waited for.
THEOREM OutcomesHold == Spec => []OutcomeInv
<1>1. Init => OutcomeInv
  BY DEF Init, OutcomeInv, VotesOfCalls, TasksSettled, UndecidedHasCalls,
         DecisionComing, ApproveRows, RowsOf
<1>2. SigningInv /\ OutcomeInv /\ [Next]_vars => OutcomeInv'
  BY OutcomeStep
<1>3. QED
  BY <1>1, <1>2, InvHolds, PTL DEF Spec

\* A request on which everyone has voted and no call is left is decided, unless
\* a call failed after its vote was stored: with a rejection among the votes its
\* rejecter decided it, and without one the approver who inserted last counted
\* them all.
THEOREM EveryoneVotedIsDecidedHolds ==
  ASSUME Users # {}, Threshold <= Cardinality(Users)
  PROVE  Spec => []EveryoneVotedIsDecided
<1>1. ASSUME SigningInv, OutcomeInv PROVE EveryoneVotedIsDecided
  <2> SUFFICES ASSUME NEW r \in Requests, VotersIn(RowsOf(r)) = Users,
                      \A c \in InFlight : local[c].request # r,
                      requests[r].status = "pending", ~VoteLost(r)
               PROVE  FALSE
      BY DEF EveryoneVotedIsDecided
  <2>1. DecisionComing(r)
    BY <1>1 DEF OutcomeInv, UndecidedHasCalls, Decided
  <2>2. \A a \in RowsOf(r) : pc[a.id] = "done"
    <3> TAKE a \in RowsOf(r)
    <3>1. a.id \in Calls /\ local[a.id].request = r
      BY <1>1 DEF SigningInv, TypeOK, Approval, OutcomeInv, VotesOfCalls, RowsOf
    <3>2. pc[a.id] \in {"new", "done", "failed"} /\ pc[a.id] # "failed"
      BY <3>1 DEF InFlight, VoteLost
    <3>3. pc[a.id] # "new"
      BY <1>1 DEF OutcomeInv, VotesOfCalls, RowsOf
    <3>4. QED
      BY <3>2, <3>3
  <2>3. ApproveRows(r) = RowsOf(r)
    BY <1>1, <2>1, <2>2 DEF DecisionComing, ApproveRows, RowsOf, SigningInv, TypeOK, Approval
  <2>4. IsFiniteSet(RowsOf(r)) /\ \A a, b \in RowsOf(r) : a.user = b.user => a = b
    BY <1>1, FS_Subset DEF SigningInv, OneVotePerUser, RowsOf
  <2>5. Cardinality(RowsOf(r)) = Cardinality(Users) /\ Cardinality(Users) \in Nat
    BY <2>4, RowsAreVoters, FS_CardinalityType
  <2>6. RowsOf(r) # {}
    BY DEF VotersIn
  <2>7. QED
    BY <2>1, <2>2, <2>3, <2>5, <2>6, ThresholdAssumption DEF DecisionComing
<1>2. SigningInv /\ OutcomeInv => EveryoneVotedIsDecided
  BY <1>1
<1>3. QED
  BY <1>2, InvHolds, OutcomesHold, PTL

\* A second signature of a request is asked for only beside a first that is
\* waited for or has failed, or by a call older than the decision.
THEOREM SignedAgainByOverlapHolds == Spec => SignedAgainByOverlap
<1>1. ASSUME SigningInv, OutcomeInv, [Next]_vars,
             NEW s \in rpc' \ rpc, NEW t \in rpc \union signed, s.request = t.request
      PROVE  \/ pc[t.call] \in {"wait", "failed"}
             \/ Decided(s.request) /\ local[s.call].copy.status = "pending"
  <2>1. PICK c \in Calls : ApproveCount(c)
    BY <1>1 DEF Next, Proceed, CreateRequest, ApproveLoad, RejectLoad, LoadPending, Refuse,
                ApproveCheck, ApproveInsert, ApproveComplete, RejectInsert, RejectUpdate,
                CallFails, MpcSign, mpc, vars
  <2>2. s.call = c /\ c \in InFlight
    BY <1>1, <2>1 DEF ApproveCount, InFlight
  <2>3. local[c].copy.status = "pending"
    BY <1>1, <2>2 DEF SigningInv, CopiesPending
  <2>4. QED
    BY <1>1, <2>2, <2>3 DEF OutcomeInv, TasksSettled
<1>2. SigningInv /\ OutcomeInv /\ [Next]_vars =>
        [\A s \in rpc' \ rpc, t \in rpc \union signed :
           s.request = t.request =>
             \/ pc[t.call] \in {"wait", "failed"}
             \/ Decided(s.request) /\ local[s.call].copy.status = "pending"]_vars
  BY <1>1
<1>3. QED
  BY <1>2, InvHolds, OutcomesHold, PTL DEF Spec, SignedAgainByOverlap

-----------------------------------------------------------------------------
(* The handlers implement SigningVoting *)

LEMMA InitVoting == Init => Voting!VotingInit
  BY DEF Init, Voting!VotingInit, VoteOf, RowsOf, AbsentRow

\* The votes on record are the rows: with one vote per user, a row with an
\* action is a vote for that action.
LEMMA VoteIsRow ==
  ASSUME OneVotePerUser, approvals \subseteq Approval,
         NEW r \in Requests, NEW u \in Users
  PROVE  /\ VoteOf[r][u] = "approve" <=> \E a \in ApproveRows(r) : a.user = u
         /\ VoteOf[r][u] = "reject" <=>
              \E a \in RowsOf(r) : a.user = u /\ a.action = "reject"
         /\ VoteOf[r][u] = "none" <=> ~ \E a \in RowsOf(r) : a.user = u
  BY DEF VoteOf, ApproveRows, RowsOf, OneVotePerUser, Approval

LEMMA ApproversAreVoters ==
  ASSUME OneVotePerUser, approvals \subseteq Approval, NEW r \in Requests
  PROVE  Voting!Approvers(r) = VotersIn(ApproveRows(r))
<1>1. \A a \in ApproveRows(r) : a.user \in Users
  BY DEF ApproveRows, RowsOf, Approval
<1>2. QED
  BY <1>1, VoteIsRow DEF Voting!Approvers, VotersIn

\* An insert casts the vote of the call's user.
LEMMA InsertCastsVote ==
  ASSUME SigningInv, RequestsExist, NEW c \in InFlight,
         NEW action \in {"approve", "reject"}, InsertVote(c, action),
         UNCHANGED <<requests, signed>>,
         NEW r, r = local[c].request, NEW u, u = local[c].user
  PROVE  Voting!Vote(r, u, action)
<1> DEFINE row == [id |-> c, request |-> r, user |-> u, action |-> action]
<1>0. TypeOK /\ OneVotePerUser /\ r \in Requests /\ u \in Users
  BY DEF SigningInv, TypeOK, Local
<1>1. requests[r].status # "absent"
  BY DEF RequestsExist
<1>2. VoteOf[r][u] = "none"
  BY <1>0, VoteIsRow DEF InsertVote, Voted, TypeOK
<1>3. \A q \in Requests : RowsOf(q)' = RowsOf(q) \union (IF q = r THEN {row} ELSE {})
  BY DEF InsertVote, RowsOf
<1>4. row.user = u /\ row.action = action
  OBVIOUS
<1>5. \A a \in RowsOf(r) : a.user # u
  BY <1>0, <1>2, VoteIsRow DEF TypeOK
<1>6. \A q \in Requests, w \in Users :
         VoteOf'[q][w] = IF q = r /\ w = u THEN action ELSE VoteOf[q][w]
  <2> SUFFICES ASSUME NEW q \in Requests, NEW w \in Users
               PROVE  VoteOf'[q][w] = IF q = r /\ w = u THEN action ELSE VoteOf[q][w]
      OBVIOUS
  <2>1. CASE q = r /\ w = u
    BY <1>3, <1>4, <1>5, <2>1 DEF VoteOf
  <2>2. CASE q # r
    BY <1>3, <2>2 DEF VoteOf
  <2>3. CASE q = r /\ w # u
    <3>1. \A act : (\E a \in RowsOf(q)' : a.user = w /\ a.action = act)
                    <=> (\E a \in RowsOf(q) : a.user = w /\ a.action = act)
      BY <1>3, <1>4, <2>3
    <3>2. (\E a \in RowsOf(q)' : a.user = w) <=> (\E a \in RowsOf(q) : a.user = w)
      BY <1>3, <1>4, <2>3
    <3>3. QED
      BY <2>3, <3>1, <3>2 DEF VoteOf
  <2>4. QED
    BY <2>1, <2>2, <2>3
<1>7. VoteOf' = [VoteOf EXCEPT ![r][u] = action]
  <2> DEFINE Vs == {"none", "approve", "reject"}
             f == VoteOf
             g == VoteOf'
  <2>1. f \in [Requests -> [Users -> Vs]]
    BY DEF VoteOf
  <2>2. g \in [Requests -> [Users -> Vs]]
    BY DEF VoteOf
  <2>3. action \in Vs
    OBVIOUS
  <2>4. \A q \in Requests, w \in Users : g[q][w] = IF q = r /\ w = u THEN action ELSE f[q][w]
    BY <1>6
  <2> HIDE DEF Vs, f, g
  <2>5. ASSUME NEW F \in [Requests -> [Users -> Vs]], NEW G \in [Requests -> [Users -> Vs]],
               \A q \in Requests, w \in Users :
                 G[q][w] = IF q = r /\ w = u THEN action ELSE F[q][w]
        PROVE  G = [F EXCEPT ![r][u] = action]
    <3> DEFINE Gr == G[r]
               Fr == F[r]
    <3>1. Gr \in [Users -> Vs] /\ Fr \in [Users -> Vs]
      BY <1>0, <2>5
    <3>2. \A w \in Users : Gr[w] = IF w = u THEN action ELSE Fr[w]
      BY <1>0, <2>5
    <3> HIDE DEF Gr, Fr
    <3>3. Gr = [Fr EXCEPT ![u] = action]
      BY <1>0, <2>3, <3>1, <3>2
    <3>4. G[r] = [F[r] EXCEPT ![u] = action]
      BY <3>3 DEF Gr, Fr
    <3>5. \A q \in Requests \ {r} : G[q] = F[q]
      BY <2>5
    <3>6. QED
      BY <1>0, <3>4, <3>5, <2>5
  <2>6. g = [f EXCEPT ![r][u] = action]
    BY <2>1, <2>2, <2>4, <2>5
  <2>7. QED
    BY <2>6 DEF f, g
<1>8. [q \in Requests |-> requests[q].status]' = [q \in Requests |-> requests[q].status]
  OBVIOUS
<1>9. {s.request : s \in signed}' = {s.request : s \in signed}
  OBVIOUS
<1>10. [q \in Requests |-> requests[q].status][r] # "absent"
  BY <1>0, <1>1
<1>11. QED
  BY <1>2, <1>7, <1>8, <1>9, <1>10 DEF Voting!Vote

LEMMA StepVoting ==
  SigningInv /\ RequestsExist /\ [Next]_vars => [Voting!VotingNext]_Voting!votingVars
<1> SUFFICES ASSUME SigningInv, RequestsExist, [Next]_vars
             PROVE  Voting!VotingNext \/ UNCHANGED Voting!votingVars
    OBVIOUS
<1>0. TypeOK /\ OneVotePerUser
  BY DEF SigningInv
<1>1. ASSUME UNCHANGED <<requests, approvals, signed>>
      PROVE  UNCHANGED Voting!votingVars
  BY <1>1 DEF Voting!votingVars, VoteOf, RowsOf
<1>2. ASSUME NEW r \in Requests, CreateRequest(r) PROVE Voting!VotingNext
  <2>1. Voting!Open(r)
    BY <1>0, <1>2 DEF CreateRequest, Voting!Open, TypeOK, VoteOf, RowsOf
  <2>2. QED
    BY <2>1 DEF Voting!VotingNext
<1>3. ASSUME NEW c \in InFlight, NEW action \in {"approve", "reject"},
             InsertVote(c, action), UNCHANGED <<requests, signed>>
      PROVE  Voting!VotingNext
  <2>1. PICK r \in Requests, u \in Users : r = local[c].request /\ u = local[c].user
    BY <1>0 DEF TypeOK, Local
  <2>2. Voting!Vote(r, u, action)
    BY <1>3, <2>1, InsertCastsVote
  <2>3. QED
    BY <2>2 DEF Voting!VotingNext
<1>4. ASSUME NEW c \in Calls, ApproveInsert(c) \/ RejectInsert(c)
      PROVE  Voting!VotingNext \/ UNCHANGED Voting!votingVars
  BY <1>1, <1>3, <1>4 DEF ApproveInsert, RejectInsert, InFlight, mpc
<1>5. ASSUME NEW c \in Calls, ApproveComplete(c) PROVE Voting!VotingNext
  <2>1. c \in InFlight /\ local[c] \in Local
    BY <1>0, <1>5 DEF ApproveComplete, InFlight, TypeOK
  <2>0. PICK r \in Requests : r = local[c].request
    BY <2>1 DEF Local
  <2>2. requests[r].status # "absent" /\ local[c].copy \in Row
    BY <2>0, <2>1 DEF Local, RequestsExist
  <2>3. PICK task \in signed : task.call = c
    BY <1>5 DEF ApproveComplete
  <2>4. task.request = r
    BY <2>0, <2>3 DEF SigningInv, TasksOfCalls
  <2>5. requests' = [requests EXCEPT ![r] = requests'[r]] /\ requests'[r].status = "completed"
    BY <1>0, <1>5, <2>0, <2>2 DEF ApproveComplete, TypeOK, Row
  <2>6. Voting!Complete(r)
    <3>1. [q \in Requests |-> requests[q].status]' =
            [[q \in Requests |-> requests[q].status] EXCEPT ![r] = "completed"]
      BY <1>0, <2>5 DEF TypeOK
    <3>2. VoteOf' = VoteOf
      BY <1>5 DEF ApproveComplete, VoteOf, RowsOf
    <3>3. {s.request : s \in signed}' = {s.request : s \in signed}
      BY <1>5 DEF ApproveComplete, mpc
    <3>4. [q \in Requests |-> requests[q].status][r] # "absent"
      BY <2>2
    <3>5. QED
      BY <2>3, <2>4, <3>1, <3>2, <3>3, <3>4 DEF Voting!Complete
  <2>7. QED
    BY <2>6 DEF Voting!VotingNext
<1>6. ASSUME NEW c \in Calls, RejectUpdate(c) PROVE Voting!VotingNext
  <2>1. c \in InFlight /\ local[c] \in Local
    BY <1>0, <1>6 DEF RejectUpdate, InFlight, TypeOK
  <2>0. PICK r \in Requests : r = local[c].request
    BY <2>1 DEF Local
  <2>2. requests[r].status # "absent" /\ local[c].copy \in Row
    BY <2>0, <2>1 DEF Local, RequestsExist
  <2>3. PICK a \in RowsOf(r) : a.action = "reject"
    BY <1>6, <2>0 DEF RejectUpdate, SigningInv, RejectersVoted
  <2>4. a.user \in Users
    BY <1>0 DEF TypeOK, RowsOf, Approval
  <2>5. a.user \in Voting!Rejecters(r)
    BY <1>0, <2>2, <2>3, <2>4, VoteIsRow DEF Voting!Rejecters, TypeOK
  <2>6. requests' = [requests EXCEPT ![r] = requests'[r]] /\ requests'[r].status = "rejected"
    BY <1>0, <1>6, <2>0, <2>2 DEF RejectUpdate, TypeOK, Row
  <2>7. Voting!Reject(r)
    <3>1. [q \in Requests |-> requests[q].status]' =
            [[q \in Requests |-> requests[q].status] EXCEPT ![r] = "rejected"]
      BY <1>0, <2>6 DEF TypeOK
    <3>2. VoteOf' = VoteOf
      BY <1>6 DEF RejectUpdate, VoteOf, RowsOf
    <3>3. {s.request : s \in signed}' = {s.request : s \in signed}
      BY <1>6 DEF RejectUpdate, mpc
    <3>4. [q \in Requests |-> requests[q].status][r] # "absent"
      BY <2>2
    <3>5. QED
      BY <2>5, <3>1, <3>2, <3>3, <3>4 DEF Voting!Reject
  <2>8. QED
    BY <2>7 DEF Voting!VotingNext
<1>7. ASSUME NEW t \in rpc, MpcSign(t) PROVE Voting!VotingNext
  <2>1. PICK r \in Requests : r = t.request
    BY <1>0 DEF TypeOK, SignTask
  <2> DEFINE rows == ApproveRows(r)
  <2>2. t.tokens \subseteq rows /\ Cardinality(VotersIn(t.tokens)) >= Threshold
    BY <2>1 DEF SigningInv, SignedByQuorum
  <2>3. IsFiniteSet(rows) /\ \A a, b \in rows : a.user = b.user => a = b
    BY FS_Subset DEF SigningInv, OneVotePerUser, ApproveRows, RowsOf
  <2>4. IsFiniteSet(VotersIn(rows)) /\ VotersIn(t.tokens) \subseteq VotersIn(rows)
    BY <2>2, <2>3, RowsAreVoters DEF VotersIn
  <2>5. /\ Cardinality(VotersIn(t.tokens)) <= Cardinality(VotersIn(rows))
        /\ Cardinality(VotersIn(t.tokens)) \in Nat
        /\ Cardinality(VotersIn(rows)) \in Nat
    BY <2>4, FS_Subset, FS_CardinalityType
  <2>6. Cardinality(Voting!Approvers(r)) >= Threshold
    BY <1>0, <2>1, <2>2, <2>5, ApproversAreVoters, ThresholdAssumption DEF TypeOK
  <2>7. Voting!Sign(r)
    <3>1. {s.request : s \in signed}' = {s.request : s \in signed} \union {r}
      BY <1>7, <2>1 DEF MpcSign
    <3>2. VoteOf' = VoteOf
      BY <1>7 DEF MpcSign, VoteOf, RowsOf, tables
    <3>3. [q \in Requests |-> requests[q].status]' = [q \in Requests |-> requests[q].status]
      BY <1>7 DEF MpcSign, tables
    <3>4. Voting!Cardinality(Voting!Approvers(r)) = Cardinality(Voting!Approvers(r))
      BY DEF Voting!Cardinality, Cardinality
    <3>5. QED
      BY <2>6, <3>1, <3>2, <3>3, <3>4 DEF Voting!Sign
  <2>8. QED
    BY <2>7 DEF Voting!VotingNext
<1>8. QED
  BY <1>1, <1>2, <1>4, <1>5, <1>6, <1>7
     DEF Next, Proceed, ApproveLoad, RejectLoad, LoadPending, Refuse, ApproveCheck,
         ApproveCount, CallFails, tables, mpc, vars

\* Every behaviour of the handlers is a behaviour of SigningVoting.
THEOREM WorkflowImplementsVoting == Spec => ImplementsVoting
<1>1. Init => RequestsExist
  BY DEF Init, RequestsExist, InFlight
<1>2. QED
  BY <1>1, InvHolds, RequestsExistStep, InitVoting, StepVoting, PTL
     DEF Spec, ImplementsVoting, Voting!VotingSpec
=============================================================================
