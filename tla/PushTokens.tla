------------------------------ MODULE PushTokens ------------------------------
(***************************************************************************)
(* The push tokens of users: registering and replacing one                 *)
(* (internal/data/local/service_push.go), and sending to a user, which     *)
(* drops the tokens that a provider calls invalid                          *)
(* (internal/push/service.go).  The registration inserts through the pool  *)
(* while its transaction is open, so it needs two connections.             *)
(*                                                                         *)
(* A call is one HTTP request or one use of the push service; calls are    *)
(* numbered as they arrive, and a row is named by the call that made it.   *)
(***************************************************************************)
EXTENDS Integers, FiniteSets

CONSTANTS
  Users, Tokens, Providers,
  Offers,        \* the tokens and providers that clients register together
  Earlier,       \* the tables that earlier days may have left
  MaxCalls,      \* bound: calls of a behaviour
  MaxInFlight,   \* bound: calls at once
  Conns,         \* DB_MAX_OPEN_CONNS
  None,          \* no token
  Failures       \* whether statements and COMMIT may fail

ASSUME BoundsAssumption == MaxCalls \in Nat /\ MaxInFlight \in Nat
ASSUME ConnsAssumption == Conns \in Nat \ {0}
ASSUME NoneAssumption == None \notin Tokens /\ None \notin Providers
ASSUME FailuresAssumption == Failures \in BOOLEAN

ASSUME OffersAssumption == Offers \subseteq Tokens \X Providers
ASSUME EarlierAssumption ==
  \A rows \in Earlier :
    /\ \A r \in rows : r \in [id : {0}, token : Tokens, user : Users, provider : Providers]
    /\ \A r, s \in rows : r.token = s.token => r = s

VARIABLES
  table,     \* push_tokens
  conns,     \* calls that hold a connection for their transaction
  pc, local,
  answer,    \* what a call was answered
  dropped,   \* rows deleted, with the call that did it
  unsaved    \* calls whose COMMIT failed, which they were not told

vars == <<table, conns, pc, local, answer, dropped, unsaved>>

Calls == 1 .. MaxCalls

\* Rows numbered 0 are of earlier days.
Row == [id : 0 .. MaxCalls, token : Tokens, user : Users, provider : Providers]
NoRow == [token |-> None]

TxSteps == {"insert", "find", "delete", "commit"}
Steps == TxSteps \union {"idle", "done", "load", "clean"}

\* A registration's token, the token it replaces and the row it found of that;
\* a delivery's providers to come, and the rows it was told are invalid.
Local == [user : Users, token : Tokens \union {None}, provider : Providers \union {None},
          old : Tokens \union {None}, row : Row \union {NoRow},
          left : SUBSET Providers, invalid : SUBSET Row]
NoLocal == [old |-> None]

TypeOK ==
  /\ table \subseteq Row
  /\ conns \subseteq Calls
  /\ pc \in [Calls -> Steps]
  /\ local \in [Calls -> Local \union {NoLocal}]
  /\ answer \in [Calls -> {"none", "ok", "conflict", "not found", "sent", "failed"}]
  /\ dropped \subseteq [row : Row, by : Calls]
  /\ unsaved \subseteq Calls

Init ==
  /\ table \in Earlier
  /\ conns = {}
  /\ pc = [c \in Calls |-> "idle"]
  /\ local = [c \in Calls |-> NoLocal]
  /\ answer = [c \in Calls |-> "none"]
  /\ dropped = {} /\ unsaved = {}

InFlight == {c \in Calls : pc[c] \notin {"idle", "done"}}

-----------------------------------------------------------------------------
(* Connections, locks and calls *)

ConnFree == Cardinality(conns) < Conns

Arrives(c) ==
  /\ pc[c] = "idle"
  /\ \A d \in Calls : d < c => pc[d] # "idle"
  /\ Cardinality(InFlight) < MaxInFlight
  /\ ConnFree

GoTo(c, step) == pc' = [pc EXCEPT ![c] = step] /\ UNCHANGED answer
Ends(c, result) ==
  /\ pc' = [pc EXCEPT ![c] = "done"]
  /\ answer' = [answer EXCEPT ![c] = result]

\* Mutant: the transaction is left open.
EndsTxForgotten(c, result) == Ends(c, result) /\ UNCHANGED conns

\* The end of a transaction gives its connection back.
EndsTx(c, result) == Ends(c, result) /\ conns' = conns \ {c}

\* Another transaction has deleted the row and not ended.
Locked(c, r) == \E d \in Calls \ {c} : pc[d] = "commit" /\ local[d].row = r

\* Mutant: the rows survive as rows of nobody's.
DropUnnamed(c, rows) ==
  /\ table' = (table \ rows) \union {NoRow : r \in rows \intersect table}
  /\ dropped' = dropped \union {[row |-> r, by |-> c] : r \in rows \intersect table}

Drop(c, rows) ==
  /\ table' = table \ rows
  /\ dropped' = dropped \union {[row |-> r, by |-> c] : r \in rows \intersect table}

-----------------------------------------------------------------------------
(* UpdatePushToken *)

\* BEGIN, and whether the token is there: a conflict, rolled back.
Check(c, u, t, p, old) ==
  /\ Arrives(c)
  /\ IF \E r \in table : r.token = t
     THEN Ends(c, "conflict") /\ UNCHANGED conns
     ELSE GoTo(c, "insert") /\ conns' = conns \union {c}
  /\ local' = [local EXCEPT ![c] =
       [user |-> u, token |-> t, provider |-> p, old |-> old, row |-> NoRow,
        left |-> {}, invalid |-> {}]]
  /\ UNCHANGED <<table, dropped, unsaved>>

\* Mutant: a refused row is taken for a stored one.
InsertQuietly(c) ==
  /\ pc[c] = "insert"
  /\ ConnFree
  /\ \A r \in table : r.token = local[c].token => ~Locked(c, r)
  /\ IF \E r \in table : r.token = local[c].token
     THEN UNCHANGED table
     ELSE table' = table \union {[id |-> c, token |-> local[c].token,
                                  user |-> local[c].user, provider |-> local[c].provider]}
  /\ GoTo(c, IF local[c].old = None THEN "commit" ELSE "find")
  /\ UNCHANGED <<conns, local, dropped, unsaved>>

\* The new row, through the pool: it is stored at once.  UNIQUE (token) waits
\* for an open transaction that has deleted the token and refuses a stored one.
Insert(c) ==
  /\ pc[c] = "insert"
  /\ ConnFree
  /\ \A r \in table : r.token = local[c].token => ~Locked(c, r)
  /\ IF \E r \in table : r.token = local[c].token
     THEN EndsTx(c, "failed") /\ UNCHANGED table
     ELSE /\ table' = table \union {[id |-> c, token |-> local[c].token,
                                     user |-> local[c].user, provider |-> local[c].provider]}
          /\ GoTo(c, IF local[c].old = None THEN "commit" ELSE "find")
          /\ UNCHANGED conns
  /\ UNCHANGED <<local, dropped, unsaved>>

\* Mutant: the token to replace may be anybody's.
FindAnyones(c) ==
  /\ pc[c] = "find"
  /\ LET found == {r \in table : r.token = local[c].old} IN
       \/ /\ found = {}
          /\ EndsTx(c, "not found")
          /\ UNCHANGED local
       \/ \E r \in found :
          /\ local' = [local EXCEPT ![c].row = r]
          /\ GoTo(c, "delete")
          /\ UNCHANGED conns
  /\ UNCHANGED <<table, dropped, unsaved>>

\* The token to replace, if it is the user's.  Not found: the transaction is
\* rolled back, and the new token stays, as put_update_push_token_test.go wants.
Find(c) ==
  /\ pc[c] = "find"
  /\ LET found == {r \in table : r.token = local[c].old /\ r.user = local[c].user} IN
       \/ /\ found = {}
          /\ EndsTx(c, "not found")
          /\ UNCHANGED local
       \/ \E r \in found :
          /\ local' = [local EXCEPT ![c].row = r]
          /\ GoTo(c, "delete")
          /\ UNCHANGED conns
  /\ UNCHANGED <<table, dropped, unsaved>>

\* DELETE by primary key, which waits for the row's lock; it may be gone then.
Delete(c) ==
  /\ pc[c] = "delete"
  /\ ~Locked(c, local[c].row)
  /\ GoTo(c, "commit")
  /\ UNCHANGED <<table, conns, local, dropped, unsaved>>

Commit(c) ==
  /\ pc[c] = "commit"
  /\ Drop(c, {local[c].row})
  /\ EndsTx(c, "ok")
  /\ UNCHANGED <<local, unsaved>>

-----------------------------------------------------------------------------
(* SendToUser *)

Send(c, u) ==
  /\ Arrives(c)
  /\ local' = [local EXCEPT ![c] =
       [user |-> u, token |-> None, provider |-> None, old |-> None, row |-> NoRow,
        left |-> Providers, invalid |-> {}]]
  /\ GoTo(c, "load")
  /\ UNCHANGED <<table, conns, dropped, unsaved>>

\* The user's tokens for one provider, in the order of the Go map, are sent to;
\* the provider calls some of them invalid.
Load(c) ==
  /\ pc[c] = "load"
  /\ ConnFree
  /\ \E p \in local[c].left :
       \E invalid \in SUBSET {r \in table : r.provider = p /\ r.user = local[c].user} :
         local' = [local EXCEPT ![c].left = @ \ {p}, ![c].invalid = invalid]
  /\ GoTo(c, "clean")
  /\ UNCHANGED <<table, conns, dropped, unsaved>>

\* Mutant: the delivery returns where it should go on.
CleanOnce(c) ==
  /\ pc[c] = "clean"
  /\ ConnFree
  /\ LET rows == {r \in table : /\ r.user = local[c].user
                                /\ \E i \in local[c].invalid : i.token = r.token}
     IN  (\A r \in rows : ~Locked(c, r)) /\ Drop(c, rows)
  /\ Ends(c, "sent")
  /\ UNCHANGED <<conns, local, unsaved>>

\* DELETE by token and user, waiting for locks; then the next provider.
Clean(c) ==
  /\ pc[c] = "clean"
  /\ ConnFree
  /\ LET rows == {r \in table : /\ r.user = local[c].user
                                /\ \E i \in local[c].invalid : i.token = r.token}
     IN  (\A r \in rows : ~Locked(c, r)) /\ Drop(c, rows)
  /\ IF local[c].left = {} THEN Ends(c, "sent") ELSE GoTo(c, "load")
  /\ UNCHANGED <<conns, local, unsaved>>

-----------------------------------------------------------------------------

\* COMMIT fails: the old token stays, and the helper reports success.
CommitFails(c) ==
  /\ Failures
  /\ pc[c] = "commit"
  /\ EndsTx(c, "ok")
  /\ unsaved' = unsaved \union {c}
  /\ UNCHANGED <<table, local, dropped>>

\* A statement fails, also one that cleans up after one of the providers, or the
\* request is cancelled: the transaction, if any, is rolled back.
CallFails(c) ==
  /\ Failures
  /\ c \in InFlight
  /\ EndsTx(c, "failed")
  /\ UNCHANGED <<table, local, dropped, unsaved>>

Proceed(c) == Insert(c) \/ Find(c) \/ Delete(c) \/ Commit(c) \/ Load(c) \/ Clean(c)

Arrive(c) ==
  \E u \in Users :
    \/ \E o \in Offers, old \in Tokens \union {None} : Check(c, u, o[1], o[2], old)
    \/ Send(c, u)

Next == \E c \in Calls : Arrive(c) \/ Proceed(c) \/ CommitFails(c) \/ CallFails(c)

Spec == Init /\ [][Next]_vars

\* Goroutines run, the database answers, locks and connections that are free go
\* to a call that waits.
FairSpec == Spec /\ \A c \in Calls : WF_vars(Proceed(c))

-----------------------------------------------------------------------------
(* Properties *)

\* A token is registered once, although looking for it and inserting it are two
\* statements on two connections.
OneRowPerToken == \A r, s \in table : r.token = s.token => r = s

\* A user's token disappears only by a registration or a delivery of the same
\* user, even if it has changed hands since that call read it.
RemovedByOwner ==
  [][\A r \in table \ table' :
       \E d \in dropped' \ dropped : d.row = r /\ local[d.by].user = r.user]_vars

\* What a registration was answered is what the table shows: "ok" and "not found"
\* mean that the new token was stored and stays until another call removes it,
\* "ok" that the old one is gone, "conflict" that nothing was inserted.  Excepted
\* are a failed COMMIT and a token that is to replace itself, which is inserted
\* and then deleted as the old one.
AnswersTrue ==
  \A c \in Calls :
    /\ answer[c] \in {"ok", "not found"} /\ local[c].old # local[c].token =>
         \/ \E r \in table : r.id = c /\ r.token = local[c].token
         \/ \E d \in dropped : d.row.id = c /\ d.by # c
    /\ answer[c] = "ok" /\ c \notin unsaved => local[c].row \notin table
    /\ answer[c] = "conflict" => \A r \in table : r.id # c

\* A delivery that reports success has served every provider, and none of the
\* rows the last one called invalid is left.
DeliveryComplete ==
  \A c \in Calls : answer[c] = "sent" => local[c].left = {} /\ local[c].invalid \intersect table = {}

\* Every connection is held by a registration that waits for a second one.
Starved == ~ConnFree /\ \A c \in conns : pc[c] = "insert"

\* Connections are held by open transactions and by nothing else.
ConnsOfTransactions == conns = {c \in Calls : pc[c] \in TxSteps}

\* The next statement of the call waits: for a connection, or for a row that an
\* open transaction has deleted.
Waits(c) ==
  \/ pc[c] \in {"insert", "load", "clean"} /\ ~ConnFree
  \/ pc[c] = "insert" /\ \E r \in table : r.token = local[c].token /\ Locked(c, r)
  \/ pc[c] = "delete" /\ Locked(c, local[c].row)
  \/ pc[c] = "clean" /\ \E r \in table :
       /\ r.user = local[c].user /\ Locked(c, r)
       /\ \E i \in local[c].invalid : i.token = r.token

\* When every call waits, it is for connections that as many registrations hold as
\* the pool has: locks close no circle, and deliveries alone starve nobody.
GridlockIsStarvation ==
  InFlight # {} /\ (\A c \in InFlight : Waits(c)) =>
    Starved /\ Cardinality({c \in Calls : pc[c] = "insert"}) >= Conns

\* Every call is answered unless the pool is full of registrations that wait for
\* a second connection; waiting for rows does not close a circle.
AnsweredUnlessStarved == \A c \in Calls : c \in InFlight ~> c \notin InFlight \/ Starved
=============================================================================
