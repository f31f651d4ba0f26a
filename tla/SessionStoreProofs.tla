------------------------- MODULE SessionStoreProofs -------------------------
(***************************************************************************)
(* Theorems about the order in which the transactions of AccountSessions   *)
(* lock, and that they implement SessionStore, for every set of accounts,  *)
(* passwords and calls, with and without failures.                         *)
(***************************************************************************)
EXTENDS AccountSessionsProofs

-----------------------------------------------------------------------------
(* The invariant StoreInv: initially, and step by step *)

LEMMA InitStoreInv == Init => StoreInv
<1> SUFFICES ASSUME Init PROVE StoreInv
    OBVIOUS
<1>1. InTx = {} /\ Loaded = {} /\ tokens = {}
  BY DEF Init, InTx, TxSteps, Loaded, InFlight
<1>2. \A c \in Calls : RowsInOrder(c)
  BY NamesAssumption DEF Init, RowsInOrder, Touched
<1>3. QED
  BY <1>1, <1>2, InitInv DEF StoreInv, TokensIssued, GoneIsEmpty

\* A step of one call, which has not ended, leaves the other calls their rows
\* and the sessions that were issued.
LEMMA OthersKept ==
  ASSUME StoreInv, NEW c \in Calls, pc[c] # "ok",
         \A d \in Calls \ {c} :
           /\ pc'[d] = pc[d] /\ local'[d] = local[d]
           /\ todo'[d] = todo[d] /\ deleted'[d] = deleted[d],
         \A d \in Calls \ {c}, u \in Users : userLock[u] = d => userLock'[u] = d,
         \A t \in tokens' \ tokens : t[2] = c
  PROVE  /\ Issued \subseteq Issued'
         /\ \A d \in Calls \ {c} : RowsInOrder(d)'
         /\ \A d \in InTx' \ {c} : ShownFound(d)'
         /\ \A d \in Loaded' \ {c} : ShownWasIssued(d)'
         /\ c \in Loaded /\ local'[c] = local[c] => ShownWasIssued(c)'
<1>1. Issued \subseteq Issued'
  BY DEF Issued, UserOf
<1>2. ASSUME NEW d \in Calls \ {c} PROVE RowsInOrder(d)'
  <2>1. RowsInOrder(d) /\ pc'[d] = pc[d] /\ local'[d] = local[d]
        /\ todo'[d] = todo[d] /\ deleted'[d] = deleted[d]
    BY DEF StoreInv
  <2>2. Touched(d)' = Touched(d) /\ Shown(d)' = Shown(d) /\ UserOf(d)' = UserOf(d)
    BY <2>1 DEF Touched, Shown, UserOf
  <2>3. MayDelete(d) \intersect Row \subseteq MayDelete(d)'
    BY <2>1, <2>2 DEF MayDelete, Row, UserOf
  <2>4. d \in InTx' <=> d \in InTx
    BY <2>1 DEF InTx
  <2>5. Touched(d) # {} => UserOf(d) \in Users
    BY <2>1, InTxFacts DEF RowsInOrder, StoreInv
  <2>6. QED
    BY <2>1, <2>2, <2>3, <2>4, <2>5 DEF RowsInOrder
<1>3. ASSUME NEW d \in Loaded, d # c
      PROVE  Shown(d)' \intersect tokens' \subseteq Shown(d) \intersect tokens
  <2>1. ShownWasIssued(d) /\ d \in Calls /\ Shown(d)' = Shown(d)
    BY <1>3 DEF StoreInv, Loaded, InFlight, Shown
  <2>2. \A t \in Shown(d) : t[2] # c
    BY <2>1, NamesAssumption DEF Shown, ShownWasIssued, Issued
  <2>3. QED
    BY <2>1, <2>2
<1>4. ASSUME NEW d \in InTx', d # c PROVE ShownFound(d)'
  <2>1. d \in Loaded /\ d \in InTx /\ ShownFound(d)
        /\ pc'[d] = pc[d] /\ local'[d] = local[d] /\ Touched(d)' = Touched(d)
    BY <1>4 DEF InTx, Loaded, InFlight, TxSteps, Answers, StoreInv, Touched
  <2>2. AccessRows' = AccessRows
    BY DEF AccessRows, Row
  <2>3. QED
    BY <1>3, <1>4, <2>1, <2>2 DEF ShownFound
<1>5. ASSUME NEW d \in Loaded, local'[d] = local[d] PROVE ShownWasIssued(d)'
  <2>1. ShownWasIssued(d) /\ UserOf(d)' = UserOf(d)
    BY <1>5 DEF StoreInv, UserOf
  <2>2. \A e \in Calls : pc[e] = "ok" => pc'[e] = "ok"
    OBVIOUS
  <2>3. local[d] \in Local
    BY DEF StoreInv, SessionInv, TypeOK
  <2>4. QED
    BY <1>1, <1>5, <2>1, <2>2, <2>3 DEF ShownWasIssued, Local
<1>6. ASSUME NEW d \in Loaded' \ {c} PROVE ShownWasIssued(d)'
  BY <1>5, <1>6 DEF Loaded, InFlight
<1>7. QED
  BY <1>1, <1>2, <1>4, <1>5, <1>6

\* A step that commits nothing: what remains is the call itself.
LEMMA QuietStep ==
  ASSUME StoreInv, SessionInv', NEW c \in Calls, pc[c] # "ok",
         \A d \in Calls \ {c} :
           /\ pc'[d] = pc[d] /\ local'[d] = local[d]
           /\ todo'[d] = todo[d] /\ deleted'[d] = deleted[d],
         \A d \in Calls \ {c}, u \in Users : userLock[u] = d => userLock'[u] = d,
         UNCHANGED <<password, tokens>>,
         RowsInOrder(c)',
         c \in InTx' => ShownFound(c)',
         \/ c \in Loaded' => ShownWasIssued(c)'
         \/ c \in Loaded /\ local'[c] = local[c]
  PROVE  StoreInv'
<1>1. /\ Issued \subseteq Issued'
      /\ \A d \in Calls \ {c} : RowsInOrder(d)'
      /\ \A d \in InTx' \ {c} : ShownFound(d)'
      /\ \A d \in Loaded' \ {c} : ShownWasIssued(d)'
      /\ c \in Loaded /\ local'[c] = local[c] => ShownWasIssued(c)'
  BY OthersKept
<1>2. \A t \in tokens : t[2] \in Calls \ {c} /\ UserOf(t[2])' = UserOf(t[2])
  <2> TAKE t \in tokens
  <2>1. <<t[2], UserOf(t[2])>> \in Issued
    BY DEF StoreInv, TokensIssued
  <2>2. t[2] \in Calls /\ pc[t[2]] = "ok"
    BY <2>1 DEF Issued
  <2>3. t[2] # c
    BY <2>2
  <2>4. QED
    BY <2>2, <2>3 DEF UserOf
<1>3. TokensIssued' /\ GoneIsEmpty'
  BY <1>1, <1>2 DEF StoreInv, TokensIssued, GoneIsEmpty
<1>4. QED
  BY <1>1, <1>3 DEF StoreInv

\* A call arrives.
LEMMA BeginsStoreInv ==
  ASSUME StoreInv, SessionInv', NEW c \in Calls, NEW kind \in Kinds,
         NEW u \in Users, NEW p \in Passwords \union {Nothing},
         NEW access \in Calls \union {Nothing},
         NEW refresh \in Calls \union {Nothing},
         NEW step \in {"insert", "refresh_user", "reset_user", "auth_user"},
         step = "insert" => kind = "login",
         kind = "refresh" => <<refresh, u>> \in Issued,
         kind \in {"change", "logout", "delete"} => <<access, u>> \in Issued,
         refresh # Nothing => pc[refresh] = "ok",
         Arrives(c), Begins(c, kind, u, p, access, refresh, step)
  PROVE  StoreInv'
<1> DEFINE row == [kind |-> kind, user |-> u, password |-> p,
                   access |-> access, refresh |-> refresh]
<1>1. /\ pc[c] = "new" /\ pc'[c] = step /\ local'[c] = row
      /\ \A d \in Calls \ {c} : pc'[d] = pc[d] /\ local'[d] = local[d]
      /\ UNCHANGED <<password, tokens, todo, deleted, userLock>>
  BY DEF Begins, Arrives, GoTo, tx, StoreInv, SessionInv, TypeOK
<1> HIDE DEF row
<1>r. /\ row.kind = kind /\ row.user = u
      /\ row.access = access /\ row.refresh = refresh
  BY DEF row
<1>2. RowsInOrder(c)'
  <2>1. Touched(c) = {}
    BY <1>1 DEF StoreInv, RowsInOrder, InTx, TxSteps
  <2>2. Touched(c)' = {}
    BY <1>1, <2>1 DEF Touched
  <2>3. QED
    BY <2>2 DEF RowsInOrder, Touched
<1>3. ShownFound(c)'
  BY <1>1, <1>r DEF ShownFound
<1>4. ShownWasIssued(c)'
  <2>1. Issued \subseteq Issued'
    BY <1>1 DEF Issued, UserOf
  <2>2. refresh # Nothing => pc'[refresh] = "ok"
    BY <1>1
  <2>3. QED
    BY <1>1, <1>r, <2>1, <2>2 DEF ShownWasIssued, UserOf
<1>5. QED
  BY <1>1, <1>2, <1>3, <1>4, QuietStep

LEMMA StartStoreInv ==
  ASSUME StoreInv, SessionInv', NEW c \in Calls, Start(c)
  PROVE  StoreInv'
<1> USE NamesAssumption DEF Kinds
<1>a. Arrives(c) /\ pc[c] = "new"
  BY DEF Start, Arrives
<1>1. ASSUME NEW d \in Calls, NEW table \in Tables, <<table, d>> \in tokens
      PROVE  /\ <<d, UserOf(d)>> \in Issued /\ UserOf(d) \in Users
             /\ pc[d] = "ok"
  BY <1>1 DEF StoreInv, TokensIssued, Issued
<1>2. ASSUME NEW u \in Users, NEW p \in Passwords, LoginLoad(c, u, p)
      PROVE  StoreInv'
  BY <1>a, <1>2, BeginsStoreInv DEF LoginLoad
<1>3. ASSUME NEW u \in Users, NEW p \in Passwords, ResetLoadToken(c, u, p)
      PROVE  StoreInv'
  BY <1>a, <1>3, BeginsStoreInv DEF ResetLoadToken
<1>4. ASSUME NEW d \in Calls, RefreshLoadToken(c, d)
      PROVE  StoreInv'
  BY <1>a, <1>4, <1>1, BeginsStoreInv DEF RefreshLoadToken, Tables
<1>5. ASSUME NEW kind \in Kinds, NEW d \in Calls, NEW p \in Passwords \union {Nothing},
             NEW refresh \in Calls \union {Nothing},
             AuthLoadToken(c, kind, d, p, refresh)
      PROVE  StoreInv'
  BY <1>a, <1>5, <1>1, BeginsStoreInv DEF AuthLoadToken, UserRoutes, Tables
<1>6. ASSUME HandlerPanics(c) \/ Refuse(c) PROVE StoreInv'
  <2>1. /\ pc'[c] \in {"panic", "error"}
        /\ \A d \in Calls \ {c} : pc'[d] = pc[d]
        /\ UNCHANGED <<password, tokens, local, todo, deleted, userLock>>
    BY <1>6 DEF HandlerPanics, Refuse, GoTo, tx, StoreInv, SessionInv, TypeOK
  <2>2. Touched(c)' = {}
    BY <1>a, <2>1 DEF Touched, StoreInv, RowsInOrder, InTx, TxSteps
  <2>3. RowsInOrder(c)' /\ c \notin InTx' /\ c \notin Loaded'
    BY <2>1, <2>2
       DEF RowsInOrder, Touched, InTx, TxSteps, Loaded, InFlight, Answers
  <2>4. QED
    BY <1>a, <2>1, <2>3, QuietStep
<1>7. QED
  BY <1>2, <1>3, <1>4, <1>5, <1>6 DEF Start

\* The second lookup of a refresh or of the middleware.
LEMMA LoadUserStoreInv ==
  ASSUME StoreInv, SessionInv', NEW c \in Calls,
         RefreshLoadUser(c) \/ ResetLoadUser(c) \/ AuthLoadUser(c)
  PROVE  StoreInv'
<1>1. /\ pc[c] \in {"refresh_user", "reset_user", "auth_user"}
      /\ pc'[c] \in {"refresh_delete", "set_password", "logout_access",
                     "delete_user", "error", "panic"}
      /\ \A d \in Calls \ {c} : pc'[d] = pc[d] /\ local'[d] = local[d]
      /\ UNCHANGED <<password, tokens, todo, deleted, userLock>>
  BY DEF RefreshLoadUser, ResetLoadUser, AuthLoadUser, GoTo, tx, StoreInv,
         SessionInv, TypeOK
<1>2. Touched(c)' = {}
  BY <1>1 DEF Touched, StoreInv, RowsInOrder, InTx, TxSteps
<1>3. RowsInOrder(c)' /\ ShownFound(c)'
  BY <1>1, <1>2 DEF RowsInOrder, Touched, ShownFound
<1>4. c \in Loaded /\ local[c] \in Local
  BY <1>1 DEF Loaded, InFlight, Answers, StoreInv, SessionInv, TypeOK
<1>5. /\ local'[c].kind = local[c].kind /\ local'[c].user = local[c].user
      /\ local'[c].access = local[c].access /\ local'[c].refresh = local[c].refresh
  <2>1. \/ local'[c] = local[c]
        \/ local'[c] = [local[c] EXCEPT !.password = password[UserOf(c)]]
    BY DEF RefreshLoadUser, ResetLoadUser, AuthLoadUser, StoreInv, SessionInv,
           TypeOK
  <2>2. QED
    BY <1>4, <2>1 DEF Local
<1>6. ShownWasIssued(c)'
  <2>1. ShownWasIssued(c)
    BY <1>4 DEF StoreInv
  <2>2. Issued \subseteq Issued'
    BY <1>1 DEF Issued, UserOf
  <2>3. \A d \in Calls : pc[d] = "ok" => pc'[d] = "ok"
    BY <1>1
  <2>4. QED
    BY <1>4, <1>5, <2>1, <2>2, <2>3 DEF ShownWasIssued, UserOf, Local
<1>7. QED
  BY <1>1, <1>3, <1>6, QuietStep

\* A call ends without effect, whatever it answers.
LEMMA RollbackStoreInv ==
  ASSUME StoreInv, SessionInv', NEW c \in InFlight,
         NEW answer \in {"ok", "error"}, Rollback(c, answer)
  PROVE  StoreInv'
<1>1. /\ c \in Calls /\ c \in Loaded /\ pc[c] # "ok" /\ pc'[c] = answer
      /\ \A d \in Calls \ {c} :
           /\ pc'[d] = pc[d] /\ local'[d] = local[d]
           /\ todo'[d] = todo[d] /\ deleted'[d] = deleted[d]
      /\ todo'[c] = {} /\ deleted'[c] = {} /\ local'[c] = local[c]
      /\ \A d \in Calls \ {c}, u \in Users : userLock[u] = d => userLock'[u] = d
      /\ UNCHANGED <<password, tokens>>
  BY DEF Rollback, GoTo, InFlight, Loaded, Answers, StoreInv, SessionInv, TypeOK
<1>2. Touched(c)' = {}
  BY <1>1 DEF Touched
<1>3. RowsInOrder(c)' /\ c \notin InTx'
  BY <1>1, <1>2 DEF RowsInOrder, Touched, InTx, TxSteps
<1>4. QED
  BY <1>1, <1>3, QuietStep

-----------------------------------------------------------------------------
(* The statements of a transaction *)

\* A statement of c: what remains is the order of c's rows.
LEMMA StatementStoreInv ==
  ASSUME StoreInv, SessionInv', NEW c \in InTx, NEW step \in TxSteps,
         pc' = [pc EXCEPT ![c] = step],
         UNCHANGED <<password, tokens, local>>,
         \A d \in Calls \ {c} : todo'[d] = todo[d] /\ deleted'[d] = deleted[d],
         userLock' = userLock \/ (RowFree(c, UserOf(c)) /\ LockUser(c)),
         RowsInOrder(c)', ShownFound(c)'
  PROVE  StoreInv'
<1>1. /\ c \in Calls /\ pc[c] # "ok" /\ c \in Loaded
      /\ \A d \in Calls \ {c} : pc'[d] = pc[d]
  BY DEF InTx, TxSteps, Loaded, InFlight, Answers, StoreInv, SessionInv, TypeOK
<1>2. \A d \in Calls \ {c}, u \in Users : userLock[u] = d => userLock'[u] = d
  <2>1. userLock \in [Users -> Calls \union {Nothing}] /\ Nothing \notin Calls
    BY NamesAssumption DEF StoreInv, SessionInv, TypeOK
  <2>2. QED
    BY <2>1 DEF RowFree, LockUser
<1>3. QED
  BY <1>1, <1>2, QuietStep

\* What a call in its transaction may delete does not change under it.
LEMMA MayDeleteKept ==
  ASSUME StoreInv, NEW c \in InTx, NEW step \in TxSteps,
         pc' = [pc EXCEPT ![c] = step], UNCHANGED local
  PROVE  /\ MayDelete(c)' = MayDelete(c) /\ Shown(c)' = Shown(c)
         /\ UserOf(c)' = UserOf(c) /\ pc'[c] = step /\ step # "ok"
         /\ AccessRows' = AccessRows /\ RefreshRows' = RefreshRows
<1>1. /\ pc \in [Calls -> Steps] /\ c \in Calls /\ pc[c] # "ok" /\ step # "ok"
      /\ pc'[c] = step
  BY DEF InTx, TxSteps, StoreInv, SessionInv, TypeOK
<1>2. Shown(c)' = Shown(c) /\ UserOf(c)' = UserOf(c)
  BY DEF Shown, UserOf
<1>3. \A d \in Calls : pc'[d] = "ok" <=> pc[d] = "ok"
  BY <1>1
<1>4. MayDelete(c)' = MayDelete(c)
  BY <1>2, <1>3 DEF MayDelete, Row, UserOf
<1>5. QED
  BY <1>1, <1>2, <1>4 DEF AccessRows, RefreshRows, Row

\* The sessions of an account are rows that a call may delete by account.
LEMMA SessionsMayBeDeleted ==
  ASSUME StoreInv, NEW c \in InTx,
         local[c].kind \in Changing \union {"delete"}
  PROVE  /\ SessionsOf(UserOf(c)) \subseteq MayDelete(c) \intersect Row
         /\ RowsOf(UserOf(c), "access") \subseteq MayDelete(c) \intersect AccessRows
         /\ RowsOf(UserOf(c), "refresh") \subseteq MayDelete(c) \intersect RefreshRows
         /\ password[UserOf(c)] = Gone => SessionsOf(UserOf(c)) = {}
         /\ \A table : RowsOf(UserOf(c), table) \subseteq SessionsOf(UserOf(c))
<1>1. \A t \in tokens : t \in Row /\ pc[t[2]] = "ok" /\ password[UserOf(t[2])] # Gone
  BY DEF StoreInv, SessionInv, TypeOK, MintersEnded, GoneIsEmpty
<1>2. QED
  BY <1>1 DEF SessionsOf, RowsOf, MayDelete, AccessRows, RefreshRows, UserOf

LEMMA FirstStatementsStoreInv ==
  ASSUME StoreInv, SessionInv', NEW c \in Calls,
         SetPassword(c) \/ DeleteUser(c)
  PROVE  StoreInv'
<1>1. PICK step \in {"delete_access", "commit"} :
        /\ pc' = [pc EXCEPT ![c] = step]
        /\ step = "delete_access" => SetPassword(c)
        /\ step = "commit" => DeleteUser(c)
  BY DEF SetPassword, DeleteUser, GoTo
<1>2. /\ c \in InTx /\ step \in TxSteps
      /\ pc[c] \in {"set_password", "delete_user"}
      /\ UNCHANGED <<password, tokens, local, deleted>>
      /\ userLock' = userLock \/ (RowFree(c, UserOf(c)) /\ LockUser(c))
      /\ \A d \in Calls \ {c} : todo'[d] = todo[d]
  <2>1. /\ userLock' = userLock \/ (RowFree(c, UserOf(c)) /\ LockUser(c))
        /\ pc[c] \in {"set_password", "delete_user"}
        /\ UNCHANGED <<password, tokens, local, deleted>>
    BY DEF SetPassword, DeleteUser
  <2>2. \A d \in Calls \ {c} : todo'[d] = todo[d]
    BY DEF SetPassword, DeleteUser, StoreInv, SessionInv, TypeOK
  <2>3. QED
    BY <2>1, <2>2 DEF InTx, TxSteps
<1>3. Touched(c) = {} /\ StepFits(c)
  BY <1>2, InTxFacts DEF StoreInv, RowsInOrder
<1>4. /\ MayDelete(c)' = MayDelete(c) /\ UserOf(c)' = UserOf(c) /\ pc'[c] = step
  BY <1>1, <1>2, MayDeleteKept
<1>5. CASE SetPassword(c)
  <2>1. Touched(c)' = {}
    BY <1>3, <1>5 DEF SetPassword, Touched
  <2>2. local'[c].kind \in Changing
    BY <1>2, <1>3, <1>5 DEF SetPassword, StepFits
  <2>3. RowsInOrder(c)' /\ ShownFound(c)'
    BY <2>1, <2>2 DEF RowsInOrder, Touched, ShownFound, Changing
  <2>4. QED
    BY <1>1, <1>2, <2>3, StatementStoreInv
<1>6. CASE DeleteUser(c)
  <2>1. /\ local[c].kind = "delete" /\ pc'[c] = "commit" /\ deleted'[c] = {}
        /\ todo'[c] \in {{}, SessionsOf(UserOf(c))}
    BY <1>2, <1>3, <1>6
       DEF DeleteUser, StepFits, GoTo, Touched, StoreInv, SessionInv, TypeOK
  <2>2. todo'[c] \subseteq MayDelete(c) \intersect Row
    BY <1>2, <2>1, SessionsMayBeDeleted
  <2>3. RowsInOrder(c)' /\ ShownFound(c)'
    BY <1>2, <1>4, <2>1, <2>2
       DEF RowsInOrder, Touched, ShownFound, Changing, Minting, Row, InTx, TxSteps
  <2>4. QED
    BY <1>1, <1>2, <2>3, StatementStoreInv
<1>7. QED
  BY <1>5, <1>6

\* A DELETE finds its rows.
LEMMA FindRowsStoreInv ==
  ASSUME StoreInv, SessionInv', NEW c \in Calls,
         \/ DeleteAccess(c) \/ DeleteRefresh(c)
         \/ RefreshDelete(c) \/ LogoutAccess(c) \/ LogoutRefresh(c)
  PROVE  StoreInv'
<1>1. PICK rows \in SUBSET Row,
           next \in {"delete_refresh", "insert", "logout_refresh", "commit"} :
        /\ FindRows(c, rows, next)
        /\ DeleteAccess(c) => next = "delete_refresh" /\ rows = RowsOf(UserOf(c), "access")
        /\ DeleteRefresh(c) => next = "insert" /\ rows = RowsOf(UserOf(c), "refresh")
        /\ RefreshDelete(c) => next = "insert"
             /\ rows = {<<"refresh", local[c].refresh>>} \intersect tokens
        /\ LogoutAccess(c) => next = "logout_refresh"
             /\ rows = {<<"access", local[c].access>>} \intersect tokens
        /\ LogoutRefresh(c) => next = "commit"
             /\ rows = {<<"refresh", local[c].refresh>>} \intersect tokens
  <2>1. tokens \subseteq Row
    BY DEF StoreInv, SessionInv, TypeOK
  <2>2. \A u, table : RowsOf(u, table) \subseteq Row
    BY <2>1 DEF RowsOf
  <2>3. QED
    BY <2>1, <2>2
       DEF DeleteAccess, DeleteRefresh, RefreshDelete, LogoutAccess, LogoutRefresh
<1>2. /\ c \in InTx /\ next \in TxSteps /\ todo[c] = {}
      /\ pc' = [pc EXCEPT ![c] = next]
      /\ todo'[c] = rows \ deleted[c]
      /\ \A d \in Calls \ {c} : todo'[d] = todo[d]
      /\ UNCHANGED <<password, tokens, local, deleted, userLock>>
  BY <1>1 DEF FindRows, GoTo, DeleteAccess, DeleteRefresh, RefreshDelete,
              LogoutAccess, LogoutRefresh, InTx, TxSteps, StoreInv, SessionInv,
              TypeOK
<1>3. /\ RowsInOrder(c) /\ ShownFound(c) /\ StepFits(c) /\ tokens \subseteq Row
      /\ NeedsUser(c) => userLock[UserOf(c)] = c
  BY <1>2, InTxFacts DEF StoreInv, SessionInv, TypeOK
<1>4. /\ MayDelete(c)' = MayDelete(c) /\ Shown(c)' = Shown(c)
      /\ UserOf(c)' = UserOf(c) /\ pc'[c] = next /\ c \in InTx'
      /\ AccessRows' = AccessRows /\ RefreshRows' = RefreshRows
  BY <1>2, MayDeleteKept DEF InTx
<1>f. ASSUME RowsInOrder(c)', ShownFound(c)' PROVE StoreInv'
  <2>1. \A d \in Calls \ {c} : todo'[d] = todo[d] /\ deleted'[d] = deleted[d]
    BY <1>2
  <2>2. /\ UNCHANGED <<password, tokens, local>>
        /\ userLock' = userLock \/ (RowFree(c, UserOf(c)) /\ LockUser(c))
    BY <1>2
  <2>3. c \in InTx /\ next \in TxSteps /\ pc' = [pc EXCEPT ![c] = next]
    BY <1>2
  <2>4. QED
    BY <1>f, <2>1, <2>2, <2>3, StatementStoreInv
<1>5. CASE DeleteAccess(c) \/ DeleteRefresh(c)
  <2>1. /\ local[c].kind \in Changing
        /\ Touched(c) \subseteq AccessRows
        /\ pc[c] \in {"delete_access", "delete_refresh"}
    BY <1>3, <1>5 DEF DeleteAccess, DeleteRefresh, StepFits, RowsInOrder
  <2>2. /\ rows \subseteq MayDelete(c) \intersect Row
        /\ DeleteAccess(c) => rows \subseteq AccessRows /\ Touched(c) = {}
        /\ DeleteRefresh(c) => rows \subseteq RefreshRows
    BY <1>1, <1>2, <1>3, <1>5, <2>1, SessionsMayBeDeleted
       DEF AccessRows, RefreshRows, RowsInOrder, DeleteAccess
  <2>3. rows # {} => password[UserOf(c)] # Gone
    BY <1>1, <1>2, <1>5, <2>1, SessionsMayBeDeleted
  <2>4. Touched(c)' # {} => userLock[UserOf(c)] = c
    BY <1>2, <1>3, <2>1, <2>3 DEF Touched, RowsInOrder, NeedsUser
  <2>5. ShownFound(c)'
    BY <1>2, <2>1 DEF ShownFound, Changing
  <2>6. RowsInOrder(c)'
    BY <1>1, <1>2, <1>3, <1>4, <1>5, <2>1, <2>2, <2>4
       DEF RowsInOrder, Touched, Changing
  <2>7. QED
    BY <1>f, <2>5, <2>6
<1>6. CASE RefreshDelete(c)
  <2>1. /\ local[c].kind = "refresh" /\ Touched(c) = {} /\ next = "insert"
        /\ rows = Shown(c) \intersect tokens /\ Shown(c) = {<<"refresh", local[c].refresh>>}
    BY <1>1, <1>3, <1>6 DEF RefreshDelete, StepFits, RowsInOrder, Shown
  <2>2. MayDelete(c) = Shown(c) /\ rows \subseteq RefreshRows
    BY <1>3, <2>1 DEF MayDelete, Changing, RefreshRows, Row
  <2>3. RowsInOrder(c)' /\ ShownFound(c)'
    BY <1>2, <1>3, <1>4, <2>1, <2>2
       DEF RowsInOrder, ShownFound, Touched, Changing, RefreshRows
  <2>4. QED
    BY <1>f, <2>3
<1>7. CASE LogoutAccess(c)
  <2>1. /\ local[c].kind = "logout" /\ Touched(c) = {} /\ next = "logout_refresh"
        /\ rows = {<<"access", local[c].access>>} \intersect tokens
        /\ Shown(c) = {<<"access", local[c].access>>, <<"refresh", local[c].refresh>>}
    BY <1>1, <1>3, <1>7 DEF LogoutAccess, StepFits, RowsInOrder, Shown
  <2>2. MayDelete(c) = Shown(c) /\ rows = Shown(c) \intersect tokens \intersect AccessRows
    BY <1>3, <2>1 DEF MayDelete, Changing, AccessRows, Row
  <2>3. RowsInOrder(c)' /\ ShownFound(c)'
    BY <1>2, <1>3, <1>4, <2>1, <2>2
       DEF RowsInOrder, ShownFound, Touched, Changing, AccessRows
  <2>4. QED
    BY <1>f, <2>3
<1>8. CASE LogoutRefresh(c)
  <2>1. /\ local[c].kind = "logout" /\ Touched(c) \subseteq AccessRows
        /\ pc[c] = "logout_refresh" /\ next = "commit"
        /\ rows = {<<"refresh", local[c].refresh>>} \intersect tokens
        /\ Shown(c) = {<<"access", local[c].access>>, <<"refresh", local[c].refresh>>}
        /\ Shown(c) \intersect tokens \intersect AccessRows \subseteq Touched(c)
    BY <1>1, <1>3, <1>8
       DEF LogoutRefresh, StepFits, RowsInOrder, Shown, ShownFound
  <2>2. /\ MayDelete(c) = Shown(c)
        /\ rows = Shown(c) \intersect tokens \intersect RefreshRows
        /\ tokens = (tokens \intersect AccessRows) \union (tokens \intersect RefreshRows)
    BY <1>3, <2>1 DEF MayDelete, Changing, AccessRows, RefreshRows, Row, Tables
  <2>3. RowsInOrder(c)'
    BY <1>2, <1>3, <1>4, <2>1, <2>2
       DEF RowsInOrder, Touched, Changing, Minting, RefreshRows
  <2>4. ShownFound(c)'
    BY <1>2, <1>4, <2>1, <2>2 DEF ShownFound, Touched
  <2>5. QED
    BY <1>f, <2>3, <2>4
<1>9. QED
  BY <1>5, <1>6, <1>7, <1>8

LEMMA LockRowStoreInv ==
  ASSUME StoreInv, SessionInv', NEW c \in Calls, NEW t \in Row, LockRow(c, t)
  PROVE  StoreInv'
<1>1. /\ t \in todo[c]
      /\ todo'[c] = todo[c] \ {t}
      /\ deleted'[c] = deleted[c] \union ({t} \intersect tokens)
      /\ \A d \in Calls \ {c} : todo'[d] = todo[d] /\ deleted'[d] = deleted[d]
      /\ UNCHANGED <<password, tokens, pc, local, userLock>>
  BY DEF LockRow, StoreInv, SessionInv, TypeOK
<1>2. RowsInOrder(c) /\ c \in InTx
  BY <1>1 DEF StoreInv, RowsInOrder, Touched
<1>3. ShownFound(c) /\ c \in Loaded /\ pc[c] # "ok"
  BY <1>2 DEF StoreInv, InTx, TxSteps, Loaded, InFlight, Answers
<1>4. /\ MayDelete(c)' = MayDelete(c) /\ Shown(c)' = Shown(c)
      /\ UserOf(c)' = UserOf(c) /\ InTx' = InTx
      /\ AccessRows' = AccessRows /\ RefreshRows' = RefreshRows
  BY <1>1 DEF MayDelete, Shown, UserOf, InTx, AccessRows, RefreshRows, Row
<1>5. Touched(c)' \subseteq Touched(c) /\ Touched(c) \intersect tokens \subseteq Touched(c)'
  BY <1>1 DEF Touched
<1>6. RowsInOrder(c)'
  <2>1. /\ todo'[c] \subseteq todo[c]
        /\ todo'[c] \intersect deleted'[c] = {}
    BY <1>1, <1>2 DEF RowsInOrder
  <2>2. QED
    BY <1>1, <1>2, <1>4, <1>5, <2>1 DEF RowsInOrder
<1>7. ShownFound(c)'
  BY <1>1, <1>3, <1>4, <1>5 DEF ShownFound
<1>8. QED
  BY <1>1, <1>3, <1>6, <1>7, QuietStep

LEMMA InsertTouchStoreInv ==
  ASSUME StoreInv, SessionInv', NEW c \in Calls,
         InsertTokens(c) \/ TouchUser(c)
  PROVE  StoreInv'
<1>1. CASE Rollback(c, "error")
  <2>1. c \in InFlight
    BY DEF InsertTokens, TouchUser, InFlight, Answers
  <2>2. QED
    BY <1>1, <2>1, RollbackStoreInv
<1>2. CASE ~Rollback(c, "error")
  <2>1. PICK step \in {"touch", "commit"} : pc' = [pc EXCEPT ![c] = step]
    BY <1>2 DEF InsertTokens, TouchUser, GoTo
  <2>2. /\ pc[c] \in {"insert", "touch"}
        /\ pc[c] = "insert" => todo[c] = {}
        /\ UNCHANGED <<password, tokens, local, todo, deleted>>
        /\ userLock' = userLock \/ (RowFree(c, UserOf(c)) /\ LockUser(c))
    BY <1>2 DEF InsertTokens, TouchUser, tx
  <2>3. c \in InTx /\ step \in TxSteps /\ pc'[c] = step
    BY <2>1, <2>2 DEF InTx, TxSteps, StoreInv, SessionInv, TypeOK
  <2>4. /\ RowsInOrder(c) /\ ShownFound(c) /\ StepFits(c) /\ UserOf(c) \in Users
        /\ userLock \in [Users -> Calls \union {Nothing}]
    BY <2>3, InTxFacts DEF StoreInv, SessionInv, TypeOK
  <2>5. /\ MayDelete(c)' = MayDelete(c) /\ Shown(c)' = Shown(c)
        /\ UserOf(c)' = UserOf(c) /\ AccessRows' = AccessRows
        /\ Touched(c)' = Touched(c) /\ c \in InTx'
    BY <2>1, <2>2, <2>3, MayDeleteKept DEF Touched, InTx
  <2>6. local[c].kind \in Minting /\ todo[c] = {}
    BY <2>2, <2>4 DEF StepFits, RowsInOrder
  <2>7. userLock[UserOf(c)] = c => userLock'[UserOf(c)] = c
    BY <2>2, <2>4 DEF LockUser
  <2>8. RowsInOrder(c)'
    BY <2>2, <2>3, <2>4, <2>5, <2>6, <2>7 DEF RowsInOrder, Minting
  <2>9. ShownFound(c)'
    BY <2>2, <2>3, <2>4, <2>5, <2>6 DEF ShownFound, Minting
  <2>10. QED
    BY <2>1, <2>2, <2>3, <2>8, <2>9, StatementStoreInv
<1>3. QED
  BY <1>1, <1>2

LEMMA CommitStoreInv ==
  ASSUME StoreInv, SessionInv', NEW c \in Calls, Commit(c)
  PROVE  StoreInv'
<1>1. /\ pc[c] = "commit" /\ pc'[c] = "ok" /\ todo[c] = {}
      /\ password' = [password EXCEPT ![UserOf(c)] = Written(c)]
      /\ tokens' = (tokens \ deleted[c]) \union Minted(c)
      /\ todo' = todo /\ local' = local /\ deleted'[c] = {}
      /\ \A d \in Calls \ {c} : pc'[d] = pc[d] /\ deleted'[d] = deleted[d]
      /\ \A d \in Calls \ {c}, u \in Users : userLock[u] = d => userLock'[u] = d
  BY DEF Commit, GoTo, StoreInv, SessionInv, TypeOK
<1>2. /\ c \in InTx /\ c \in Loaded /\ UserOf(c) \in Users
      /\ \A t \in Minted(c) : t[2] = c
      /\ local[c].kind # "delete" /\ password[UserOf(c)] # Gone => Written(c) # Gone
  BY <1>1, CommitFacts DEF Loaded, InFlight, Answers, StoreInv
<1>3. /\ Issued \subseteq Issued'
      /\ \A d \in Calls \ {c} : RowsInOrder(d)'
      /\ \A d \in InTx' \ {c} : ShownFound(d)'
      /\ \A d \in Loaded' \ {c} : ShownWasIssued(d)'
      /\ c \in Loaded /\ local'[c] = local[c] => ShownWasIssued(c)'
  BY <1>1, <1>2, OthersKept
<1>4. RowsInOrder(c)' /\ c \notin InTx'
  BY <1>1 DEF RowsInOrder, Touched, InTx, TxSteps
<1>5. \A u : UserOf(u)' = UserOf(u)
  BY <1>1 DEF UserOf
<1>6. ASSUME NEW t \in tokens', t \notin tokens
      PROVE  <<t[2], UserOf(t[2])>> \in Issued' /\ password'[UserOf(t[2])] # Gone
  <2>1. t[2] = c /\ local[c].kind \in Minting
    BY <1>1, <1>2, <1>6 DEF Minted
  <2>2. password[UserOf(c)] # Gone /\ local[c].kind # "delete"
    BY <1>1, <1>2, <2>1, InTxFacts DEF StoreInv, ShareHeld, KeySharers, Minting
  <2>3. password'[UserOf(c)] = Written(c)
    BY <1>1, <1>2 DEF StoreInv, SessionInv, TypeOK
  <2>4. QED
    BY <1>1, <1>2, <1>5, <2>1, <2>2, <2>3 DEF Issued
<1>7. ASSUME NEW t \in tokens, t \in tokens'
      PROVE  <<t[2], UserOf(t[2])>> \in Issued' /\ password'[UserOf(t[2])] # Gone
  <2>1. /\ <<t[2], UserOf(t[2])>> \in Issued /\ password[UserOf(t[2])] # Gone
        /\ UserOf(t[2]) \in Users /\ pc[t[2]] = "ok"
    BY DEF StoreInv, TokensIssued, GoneIsEmpty, Issued
  <2>2. password'[UserOf(t[2])] = password[UserOf(t[2])]
    BY <1>7, <2>1, StepRevokes DEF StoreInv
  <2>3. QED
    BY <1>3, <2>1, <2>2
<1>8. TokensIssued' /\ GoneIsEmpty'
  BY <1>5, <1>6, <1>7 DEF TokensIssued, GoneIsEmpty
<1>9. QED
  BY <1>1, <1>2, <1>3, <1>4, <1>8 DEF StoreInv

LEMMA StepStoreInv == StoreInv /\ [Next]_vars => StoreInv'
<1> SUFFICES ASSUME StoreInv, [Next]_vars PROVE StoreInv'
    OBVIOUS
<1>0. SessionInv'
  BY StepInv DEF StoreInv
<1>1. CASE UNCHANGED vars
  <2>1. /\ Issued' = Issued /\ InTx' = InTx /\ Loaded' = Loaded
        /\ TokensIssued' /\ GoneIsEmpty'
    BY <1>1 DEF vars, StoreInv, TokensIssued, GoneIsEmpty, Issued, UserOf, InTx,
                Loaded, InFlight
  <2>2. \A c : UserOf(c)' = UserOf(c) /\ Touched(c)' = Touched(c) /\ Shown(c)' = Shown(c)
    BY <1>1 DEF vars, UserOf, Touched, Shown
  <2>3. \A c : MayDelete(c)' = MayDelete(c)
    BY <1>1, <2>2 DEF vars, MayDelete, Row, UserOf
  <2>4. \A c \in Calls : RowsInOrder(c)'
    BY <1>1, <2>1, <2>2, <2>3
       DEF vars, StoreInv, RowsInOrder, AccessRows, RefreshRows, Row
  <2>5. \A c \in InTx : ShownFound(c)'
    BY <1>1, <2>1, <2>2 DEF vars, StoreInv, ShownFound, AccessRows, Row
  <2>6. \A c \in Loaded : ShownWasIssued(c)'
    BY <1>1, <2>1, <2>2 DEF vars, StoreInv, ShownWasIssued
  <2>7. QED
    BY <1>0, <2>1, <2>4, <2>5, <2>6 DEF StoreInv
<1>2. ASSUME NEW c \in Calls, Start(c) PROVE StoreInv'
  BY <1>0, <1>2, StartStoreInv
<1>3. ASSUME NEW c \in Calls, CallFails(c) \/ CommitFails(c) \/ DeadlockVictim(c)
      PROVE  StoreInv'
  <2>1. c \in InFlight /\ \E answer \in {"ok", "error"} : Rollback(c, answer)
    BY <1>3 DEF CallFails, CommitFails, DeadlockVictim, InFlight, InTx, TxSteps,
                Answers
  <2>2. QED
    BY <1>0, <2>1, RollbackStoreInv
<1>4. ASSUME NEW c \in Calls, Proceed(c), ~DeadlockVictim(c) PROVE StoreInv'
  BY <1>0, <1>4, LoadUserStoreInv, FirstStatementsStoreInv, FindRowsStoreInv,
     LockRowStoreInv, InsertTouchStoreInv, CommitStoreInv
     DEF Proceed
<1>5. QED
  BY <1>1, <1>2, <1>3, <1>4 DEF Next

\* In every reachable state the rows of a transaction are locked in order, and
\* tokens are shown for the account they were issued to.
THEOREM StoreInvariant == Spec => []StoreInv
<1>1. Init => StoreInv
  BY InitStoreInv
<1>2. StoreInv /\ [Next]_vars => StoreInv'
  BY StepStoreInv
<1>3. QED
  BY <1>1, <1>2, PTL DEF Spec

-----------------------------------------------------------------------------
(* What a step changes *)

StepOf(c) == Start(c) \/ Proceed(c) \/ CommitFails(c) \/ CallFails(c)

\* A step is one of a call that has no answer yet, and only a COMMIT shows.
LEMMA StepOfOne ==
  ASSUME StoreInv, NEW c \in Calls, StepOf(c)
  PROVE  /\ pc[c] \notin Answers
         /\ Start(c) \/ c \in InFlight
         /\ \/ Start(c)
            \/ RefreshLoadUser(c) \/ ResetLoadUser(c) \/ AuthLoadUser(c)
            \/ c \in InTx' => c \in InTx
         /\ \A d \in Calls \ {c} : pc'[d] = pc[d] /\ local'[d] = local[d]
         /\ Commit(c) \/ UNCHANGED <<password, tokens>>
         /\ pc'[c] = "ok" => Commit(c) \/ CommitFails(c)
         /\ Start(c) \/ RefreshLoadUser(c) \/ local' = local
<1>t. /\ pc \in [Calls -> Steps] /\ local \in [Calls -> Local \union {NoLocal}]
      /\ c \in InFlight <=> pc[c] \notin {"new"} \union Answers
  BY DEF StoreInv, SessionInv, TypeOK, InFlight
<1> USE <1>t
<1>1. CASE Start(c)
  BY <1>1 DEF Start, Arrives, LoginLoad, ResetLoadToken, RefreshLoadToken,
              AuthLoadToken, Begins, HandlerPanics, Refuse, GoTo, Answers
<1>2. CASE CallFails(c) \/ CommitFails(c) \/ DeadlockVictim(c)
  BY <1>2 DEF CallFails, CommitFails, DeadlockVictim, Rollback, GoTo,
              InTx, TxSteps, Answers
<1>3. CASE RefreshLoadUser(c) \/ ResetLoadUser(c) \/ AuthLoadUser(c)
  BY <1>3 DEF RefreshLoadUser, ResetLoadUser, AuthLoadUser, GoTo, Answers
<1>4. CASE \/ DeleteAccess(c) \/ DeleteRefresh(c) \/ RefreshDelete(c)
           \/ LogoutAccess(c) \/ LogoutRefresh(c)
  BY <1>4 DEF DeleteAccess, DeleteRefresh, RefreshDelete, LogoutAccess,
              LogoutRefresh, FindRows, GoTo, Answers, InTx, TxSteps
<1>5. CASE SetPassword(c) \/ DeleteUser(c) \/ InsertTokens(c) \/ TouchUser(c)
  BY <1>5 DEF SetPassword, DeleteUser, InsertTokens, TouchUser, Rollback, GoTo,
              Answers, InTx, TxSteps
<1>6. ASSUME NEW t \in Row, LockRow(c, t)
      PROVE  c \in InFlight /\ UNCHANGED <<password, tokens, pc, local>>
  <2>1. c \in InTx
    BY <1>6 DEF LockRow, StoreInv, RowsInOrder, Touched
  <2>2. QED
    BY <1>6, <2>1 DEF LockRow, InTx, TxSteps, Answers
<1>7. CASE Commit(c)
  BY <1>7 DEF Commit, GoTo, Answers, InTx, TxSteps
<1>8. QED
  BY <1>1, <1>2, <1>3, <1>4, <1>5, <1>6, <1>7 DEF StepOf, Proceed, Answers, InTx

-----------------------------------------------------------------------------
(* No circle among logins, logouts and password changes *)

\* Whoever waits without a row to wait for waits for the users row.
LEMMA WaitersForUser ==
  ASSUME StoreInv, NEW c \in InTx, local[c].kind \notin {"refresh", "delete"},
         todo[c] = {}, NEW d \in Blockers(c), local[d].kind # "delete"
  PROVE  pc[c] \in {"set_password", "touch"} /\ d = userLock[UserOf(c)] /\ d # c
<1>1. pc[c] # "delete_user"
  BY InTxFacts DEF StoreInv, StepFits
<1>2. QED
  BY <1>1 DEF Blockers

\* Two password changes never have or want the same row: each of them has the
\* users row first.
LEMMA ChangesShareNoRow ==
  ASSUME StoreInv, NEW c \in InTx, NEW d \in InTx,
         local[c].kind \in Changing, local[d].kind \in Changing,
         NEW t \in Touched(c), t \in Touched(d)
  PROVE  c = d
<1>1. c \in Calls /\ d \in Calls /\ RowsInOrder(c) /\ RowsInOrder(d)
  BY DEF InTx, StoreInv
<1>2. UserOf(t[2]) = UserOf(c) /\ UserOf(t[2]) = UserOf(d)
  BY <1>1 DEF RowsInOrder, MayDelete
<1>3. userLock[UserOf(c)] = c /\ userLock[UserOf(d)] = d
  BY <1>1 DEF RowsInOrder
<1>4. QED
  BY <1>2, <1>3

LEMMA NoCircle ==
  ASSUME StoreInv
  PROVE  NoCircleOfChanges
<1> SUFFICES ASSUME NEW W \in SUBSET {c \in InTx : local[c].kind \notin {"refresh", "delete"}},
                    W # {}, \A c \in W : Blockers(c) \intersect W # {}
             PROVE  FALSE
    BY DEF NoCircleOfChanges
<1>1. \A c \in W :
        /\ c \in Calls /\ c \in InTx /\ RowsInOrder(c) /\ StepFits(c)
        /\ local[c].kind \in {"login", "logout"} \union Changing
        /\ local[c].kind \notin {"refresh", "delete"}
  BY InTxFacts DEF InTx, StoreInv, Local, Kinds, Changing
<1>2. ASSUME NEW c \in W, todo[c] = {}
      PROVE  /\ pc[c] \in {"set_password", "touch"}
             /\ userLock[UserOf(c)] \in W /\ userLock[UserOf(c)] # c
  <2>1. PICK d \in W : d \in Blockers(c)
    BY <1>2
  <2>2. QED
    BY <1>1, <1>2, <2>1, WaitersForUser
<1>3. ASSUME NEW c \in W, todo[c] # {}
      PROVE  \E d \in W : d # c /\ \E t \in todo[c] : t \in deleted[d]
  BY <1>1, <1>3 DEF Blockers
\* A login has no rows.
<1>4. ASSUME NEW c \in W, local[c].kind = "login"
      PROVE  Touched(c) = {}
  BY <1>1, <1>4 DEF RowsInOrder, MayDelete, Shown, Changing
\* A change that has rows waits for rows.
<1>5. ASSUME NEW c \in W, local[c].kind \in Changing, Touched(c) # {}
      PROVE  /\ todo[c] # {} /\ pc[c] \in {"delete_refresh", "insert"}
             /\ pc[c] = "insert" => todo[c] \subseteq RefreshRows
             /\ pc[c] = "delete_refresh" => Touched(c) \subseteq AccessRows
  <2>1. userLock[UserOf(c)] = c /\ RowsInOrder(c) /\ pc[c] # "set_password"
    BY <1>1, <1>5 DEF RowsInOrder
  <2>2. todo[c] # {}
    BY <1>2, <2>1
  <2>3. pc[c] \in TxSteps
    BY <1>1 DEF InTx
  <2>4. QED
    BY <1>1, <1>5, <2>1, <2>2, <2>3 DEF RowsInOrder, TxSteps, StepFits, Changing, Minting
\* A logout waits for its access token or, having that, for its refresh token.
<1>6. ASSUME NEW c \in W, local[c].kind = "logout"
      PROVE  /\ todo[c] # {} /\ deleted[c] \subseteq AccessRows
             /\ deleted[c] # {} => todo[c] \subseteq RefreshRows
  <2>1. todo[c] # {}
    BY <1>1, <1>2, <1>6 DEF StepFits, Changing, Minting
  <2>2. pc[c] \in {"logout_refresh", "commit"}
    BY <1>1, <1>6, <2>1
       DEF InTx, TxSteps, RowsInOrder, Touched, StepFits, Changing, Minting
  <2>3. /\ Touched(c) \subseteq Row
        /\ Touched(c) \subseteq {<<"access", local[c].access>>, <<"refresh", local[c].refresh>>}
    BY <1>1, <1>6 DEF RowsInOrder, MayDelete, Shown, Changing
  <2>4. CASE pc[c] = "logout_refresh"
    <3>1. Touched(c) \subseteq AccessRows /\ todo[c] \intersect deleted[c] = {}
      BY <1>1, <2>4 DEF RowsInOrder
    <3>2. Touched(c) \subseteq {<<"access", local[c].access>>}
      BY <2>3, <3>1 DEF AccessRows
    <3>3. deleted[c] = {}
      BY <2>1, <3>1, <3>2 DEF Touched
    <3>4. QED
      BY <2>1, <3>3
  <2>5. CASE pc[c] = "commit"
    <3>1. todo[c] \subseteq RefreshRows /\ todo[c] \intersect deleted[c] = {}
      BY <1>1, <1>6, <2>5 DEF RowsInOrder
    <3>2. <<"refresh", local[c].refresh>> \in todo[c]
      BY <2>1, <2>3, <3>1 DEF RefreshRows, Touched
    <3>3. deleted[c] \subseteq {<<"access", local[c].access>>}
      BY <2>3, <3>1, <3>2 DEF Touched
    <3>4. QED
      BY <2>1, <2>3, <3>1, <3>3 DEF AccessRows, Touched
  <2>6. QED
    BY <2>2, <2>4, <2>5
\* No change waits for a refresh token.
<1>7. ASSUME NEW c \in W, local[c].kind \in Changing, Touched(c) # {}
      PROVE  pc[c] = "delete_refresh"
  <2> SUFFICES ASSUME pc[c] = "insert" PROVE FALSE
    BY <1>5, <1>7
  <2>1. todo[c] # {} /\ todo[c] \subseteq RefreshRows
    BY <1>5, <1>7
  <2>2. PICK d \in W, t \in todo[c] : d # c /\ t \in deleted[d]
    BY <1>3, <2>1
  <2>3. t \in RefreshRows /\ t \notin AccessRows /\ t \in Touched(c) /\ t \in Touched(d)
    BY <2>1, <2>2 DEF RefreshRows, AccessRows, Touched
  <2>4. local[d].kind \in Changing
    BY <1>1, <1>4, <1>6, <2>2, <2>3
  <2>5. QED
    BY <1>1, <1>7, <2>2, <2>3, <2>4, ChangesShareNoRow
\* Nobody has a refresh token, and so no logout has its access token.
<1>8. ASSUME NEW d \in W PROVE deleted[d] \intersect RefreshRows = {}
  BY <1>1, <1>4, <1>5, <1>6, <1>7 DEF Touched, AccessRows, RefreshRows
<1>9. ASSUME NEW c \in W, local[c].kind = "logout" PROVE deleted[c] = {}
  BY <1>3, <1>6, <1>8, <1>9
\* So no change waits for an access token either, and nobody has a row.
<1>10. ASSUME NEW c \in W PROVE deleted[c] = {}
  <2>1. ASSUME local[c].kind \in Changing, deleted[c] # {} PROVE FALSE
    <3>1. todo[c] # {}
      BY <1>5, <2>1 DEF Touched
    <3>2. PICK d \in W, t \in todo[c] : d # c /\ t \in deleted[d]
      BY <1>3, <3>1
    <3>3. local[d].kind \in Changing /\ t \in Touched(c) /\ t \in Touched(d)
      BY <1>1, <1>4, <1>9, <3>2 DEF Touched
    <3>4. QED
      BY <1>1, <2>1, <3>2, <3>3, ChangesShareNoRow
  <2>2. QED
    BY <1>1, <1>4, <1>9, <2>1 DEF Touched
<1>11. \A c \in W : todo[c] = {}
  BY <1>3, <1>10
\* What is left are waiters for the users row, whose holder does not wait.
<1>12. PICK c \in W : TRUE
  OBVIOUS
<1>13. PICK h \in W : h = userLock[UserOf(c)] /\ UserOf(c) \in Users
  BY <1>1, <1>2, <1>11, InTxFacts DEF StoreInv
<1>14. UserOf(h) = UserOf(c) /\ pc[h] # "set_password"
  BY <1>1, <1>13 DEF StoreInv, SessionInv, LocksHeld
<1>15. QED
  BY <1>2, <1>11, <1>13, <1>14

\* Whatever logins, logouts and password changes run at the same time, one of
\* them can go on: only a refresh or the deletion of an account closes a circle.
THEOREM NoCircleOfChangesHolds == Spec => []NoCircleOfChanges
<1>1. StoreInv => NoCircleOfChanges
  BY NoCircle
<1>2. QED
  BY <1>1, StoreInvariant, PTL

-----------------------------------------------------------------------------
(* The transactions implement SessionStore *)

\* The sessions of an account, in the words of either module.
LEMMA SessionsAreOwned ==
  ASSUME StoreInv, NEW u \in Users
  PROVE  Store!SessionsOwned(u) = SessionsOf(u)
<1>1. \A t \in tokens : t[2] \in Calls /\ <<t[2], UserOf(t[2])>> \in Issued
  BY DEF StoreInv, TokensIssued, Issued
<1>2. \A t \in tokens : <<t[2], u>> \in Issued <=> UserOf(t[2]) = u
  BY <1>1 DEF Issued
<1>3. QED
  BY <1>2 DEF Store!SessionsOwned, SessionsOf, UserOf

\* Whoever is not answered with a session is issued none.
LEMMA NothingIssued ==
  ASSUME NEW c \in Calls, pc[c] # "ok",
         \A d \in Calls \ {c} : pc'[d] = pc[d] /\ local'[d] = local[d],
         pc'[c] = "ok" => local'[c].kind \notin Minting
  PROVE  Issued' = Issued /\ Redeemed' = Redeemed
<1>1. \A e \in Calls, u \in Users :
        (pc'[e] = "ok" /\ local'[e].kind \in Minting /\ local'[e].user = u)
          <=> (pc[e] = "ok" /\ local[e].kind \in Minting /\ local[e].user = u)
  <2> TAKE e \in Calls, u \in Users
  <2>1. CASE e = c
    BY <2>1
  <2>2. CASE e # c
    BY <2>2
  <2>3. QED
    BY <2>1, <2>2
<1>2. Issued' = Issued
  BY <1>1 DEF Issued, UserOf
<1>3. \A e \in Calls :
        (pc'[e] = "ok" /\ local'[e].kind = "refresh")
          <=> (pc[e] = "ok" /\ local[e].kind = "refresh")
  BY DEF Minting
<1>4. \A e \in Calls :
        pc[e] = "ok" => local'[e] = local[e]
  OBVIOUS
<1>5. Redeemed' = Redeemed
  BY <1>3, <1>4 DEF Redeemed
<1>6. QED
  BY <1>2, <1>5

\* A call that ends well is issued a session of its account, its first.
LEMMA SessionIssued ==
  ASSUME NEW c \in Calls, pc[c] # "ok", pc'[c] = "ok", local' = local,
         \A d \in Calls \ {c} : pc'[d] = pc[d],
         local[c].kind \in Minting, UserOf(c) \in Users
  PROVE  /\ Store!Issue(c, UserOf(c))
         /\ local[c].kind # "refresh" => Redeemed' = Redeemed
         /\ local[c].kind = "refresh" /\ local[c].refresh \in Calls
              => Redeemed' = Redeemed \union {local[c].refresh}
<1>1. \A v \in Users : <<c, v>> \notin Issued
  BY DEF Issued
<1>2. \A e \in Calls, u \in Users :
        <<e, u>> \in Issued' <=> <<e, u>> \in Issued \/ (e = c /\ u = UserOf(c))
  <2> TAKE e \in Calls, u \in Users
  <2>1. CASE e = c
    BY <2>1 DEF Issued, UserOf
  <2>2. CASE e # c
    BY <2>2 DEF Issued, UserOf
  <2>3. QED
    BY <2>1, <2>2
<1>3. Issued' = Issued \union {<<c, UserOf(c)>>}
  <2>1. Issued' \subseteq Calls \X Users /\ Issued \subseteq Calls \X Users
    BY DEF Issued
  <2>2. QED
    BY <1>2, <2>1
<1>4. \A e \in Calls :
        pc'[e] = "ok" /\ local[e].kind = "refresh"
          <=> (pc[e] = "ok" /\ local[e].kind = "refresh")
                \/ (e = c /\ local[c].kind = "refresh")
  OBVIOUS
<1>5. /\ local[c].kind # "refresh" => Redeemed' = Redeemed
      /\ local[c].kind = "refresh" /\ local[c].refresh \in Calls
           => Redeemed' = Redeemed \union {local[c].refresh}
  BY <1>4 DEF Redeemed
<1>6. QED
  BY <1>1, <1>3, <1>5 DEF Store!Issue

\* What a COMMIT publishes is what SessionStore says of a call of its kind.
LEMMA CommitRefines ==
  ASSUME StoreInv, StoreInv', NEW c \in Calls, Commit(c)
  PROVE  [Store!StoreNext]_(Store!storeVars)
<1> DEFINE u == UserOf(c)
<1>1. /\ pc[c] = "commit" /\ pc[c] # "ok" /\ pc'[c] = "ok" /\ todo[c] = {}
      /\ password' = [password EXCEPT ![u] = Written(c)]
      /\ tokens' = (tokens \ deleted[c]) \union Minted(c)
      /\ local' = local /\ \A d \in Calls \ {c} : pc'[d] = pc[d]
  BY DEF Commit, GoTo, StoreInv, SessionInv, TypeOK
<1>2. /\ c \in InTx /\ c \in Loaded /\ u \in Users /\ local[c] \in Local
      /\ password \in [Users -> Passwords \union {Gone}] /\ tokens \subseteq Row
  BY <1>1, CommitFacts DEF Loaded, InFlight, Answers, StoreInv, SessionInv, TypeOK
<1>3. /\ RowsInOrder(c) /\ ShownFound(c) /\ ShownWasIssued(c) /\ ShareHeld(c)
      /\ NeedsUser(c) => userLock[u] = c
      /\ userLock[u] = c => Swept(c)
  BY <1>2, InTxFacts DEF StoreInv
<1>4. deleted[c] \subseteq MayDelete(c) /\ Touched(c) = deleted[c]
  BY <1>1, <1>3 DEF RowsInOrder, Touched
<1>5. local[c].kind \in Minting =>
        /\ Minted(c) = Store!Session(c) /\ password[u] # Gone
        /\ Store!Issue(c, u) /\ userLock[u] = c
        /\ local[c].kind # "refresh" => Redeemed' = Redeemed
        /\ local[c].kind = "refresh" /\ local[c].refresh \in Calls
             => Redeemed' = Redeemed \union {local[c].refresh}
  <2> SUFFICES ASSUME local[c].kind \in Minting
               PROVE  /\ Minted(c) = Store!Session(c) /\ password[u] # Gone
                      /\ Store!Issue(c, u) /\ userLock[u] = c
                      /\ local[c].kind # "refresh" => Redeemed' = Redeemed
                      /\ local[c].kind = "refresh" /\ local[c].refresh \in Calls
                           => Redeemed' = Redeemed \union {local[c].refresh}
    OBVIOUS
  <2>1. Minted(c) = Store!Session(c)
    BY DEF Minted, Store!Session, Tables
  <2>2. password[u] # Gone /\ userLock[u] = c
    BY <1>1, <1>2, <1>3 DEF ShareHeld, KeySharers, NeedsUser
  <2>3. /\ Store!Issue(c, u)
        /\ local[c].kind # "refresh" => Redeemed' = Redeemed
        /\ local[c].kind = "refresh" /\ local[c].refresh \in Calls
             => Redeemed' = Redeemed \union {local[c].refresh}
    BY <1>1, <1>2, SessionIssued
  <2>4. QED
    BY <2>1, <2>2, <2>3
<1>6. local[c].kind \notin Minting =>
        Minted(c) = {} /\ Issued' = Issued /\ Redeemed' = Redeemed
  BY <1>1, NothingIssued DEF Minted
\* What was swept are the sessions of the account.
<1>7. ASSUME local[c].kind \in Changing \union {"delete"}, userLock[u] = c
      PROVE  tokens \ deleted[c] = tokens \ Store!SessionsOwned(u)
  <2>1. Found(c, "access") /\ Found(c, "refresh")
    BY <1>1, <1>3, <1>7 DEF Swept
  <2>2. \A t \in tokens : t[1] \in {"access", "refresh"}
    BY <1>2 DEF Row, Tables
  <2>3. SessionsOf(u) \subseteq deleted[c]
    BY <1>1, <2>1, <2>2 DEF Found, RowsOf, SessionsOf, UserOf
  <2>4. deleted[c] \intersect tokens \subseteq SessionsOf(u)
    BY <1>4, <1>7 DEF MayDelete, SessionsOf, UserOf
  <2>5. QED
    BY <1>2, <2>3, <2>4, SessionsAreOwned
<1> HIDE DEF u
<1>8. CASE local[c].kind = "login"
  <2>1. deleted[c] = {} /\ Written(c) = password[u]
    BY <1>4, <1>8 DEF MayDelete, Shown, Changing, Written, u
  <2>2. password' = password
    BY <1>1, <1>2, <2>1
  <2>3. Store!Login(c, u)
    BY <1>1, <1>5, <1>8, <2>1, <2>2 DEF Store!Login, Minting
  <2>4. QED
    BY <1>2, <2>3 DEF Store!StoreNext
<1>9. CASE local[c].kind = "refresh"
  <2>1. Shown(c) = {<<"refresh", local[c].refresh>>} /\ MayDelete(c) = Shown(c)
    BY <1>9 DEF Shown, MayDelete, Changing
  <2>2. tokens \ deleted[c] = tokens \ {<<"refresh", local[c].refresh>>}
    BY <1>1, <1>3, <1>4, <1>9, <2>1 DEF ShownFound
  <2>3. Written(c) = password[u]
    BY <1>9 DEF Written, Changing, u
  <2>4. password' = password
    BY <1>1, <1>2, <2>3
  <2>5. <<local[c].refresh, u>> \in Issued /\ local[c].refresh \in Calls
    BY <1>3, <1>9 DEF ShownWasIssued, Issued, u
  <2>6. Store!Refresh(c, local[c].refresh, u)
    BY <1>1, <1>5, <1>9, <2>2, <2>4, <2>5 DEF Store!Refresh, Minting
  <2>7. QED
    BY <1>2, <2>5, <2>6 DEF Store!StoreNext
<1>10. CASE local[c].kind \in Changing
  <2>1. Written(c) = local[c].password /\ local[c].password \in Passwords
    BY <1>2, <1>10 DEF Written, Local
  <2>2. local[c].kind \in Minting /\ local[c].kind # "refresh"
    BY <1>10 DEF Changing, Minting
  <2>3. Store!ChangePassword(c, u, local[c].password)
    BY <1>1, <1>5, <1>7, <1>10, <2>1, <2>2 DEF Store!ChangePassword
  <2>4. QED
    BY <1>2, <2>1, <2>3 DEF Store!StoreNext
<1>11. CASE local[c].kind = "logout"
  <2> DEFINE named == {local[c].refresh} \intersect Calls
             gone == {<<"access", local[c].access>>} \union {"refresh"} \X named
  <2>1. /\ Shown(c) = {<<"access", local[c].access>>, <<"refresh", local[c].refresh>>}
        /\ MayDelete(c) = Shown(c)
    BY <1>11 DEF Shown, MayDelete, Changing
  <2>2. tokens \ deleted[c] = tokens \ Shown(c)
    BY <1>1, <1>3, <1>4, <1>11, <2>1 DEF ShownFound
  <2>3. Shown(c) \intersect tokens = gone \intersect tokens
    BY <1>2, <2>1 DEF Row
  <2>4. tokens' = tokens \ gone
    BY <1>1, <1>6, <1>11, <2>2, <2>3 DEF Minting
  <2>5. Written(c) = password[u] /\ Issued' = Issued /\ Redeemed' = Redeemed
    BY <1>6, <1>11 DEF Written, Changing, Minting, u
  <2>6. password' = password
    BY <1>1, <1>2, <2>5
  <2>7. Store!Logout(local[c].access, named)
    BY <2>4, <2>5, <2>6 DEF Store!Logout
  <2>8. local[c].access \in Calls /\ named \in SUBSET Calls
    BY <1>3, <1>11 DEF ShownWasIssued, Issued
  <2>9. QED
    BY <2>7, <2>8 DEF Store!StoreNext
<1>12. CASE local[c].kind = "delete"
  <2>1. /\ <<local[c].access, u>> \in Issued /\ local[c].access \in Calls
        /\ Written(c) = Gone /\ Minted(c) = {}
        /\ Issued' = Issued /\ Redeemed' = Redeemed
    BY <1>3, <1>6, <1>12 DEF ShownWasIssued, Issued, Written, Changing, Minting, u
  <2>2. tokens \ deleted[c] = tokens \ Store!SessionsOwned(u)
    <3>1. CASE password[u] # Gone
      BY <1>1, <1>3, <1>7, <1>12, <3>1 DEF NeedsUser, u
    <3>2. CASE password[u] = Gone
      <4>1. SessionsOf(u) = {}
        BY <1>2, <1>12, <3>2, SessionsMayBeDeleted DEF u
      <4>2. deleted[c] \intersect tokens \subseteq SessionsOf(u)
        BY <1>4, <1>12 DEF MayDelete, SessionsOf, UserOf, u
      <4>3. QED
        BY <1>2, <4>1, <4>2, SessionsAreOwned
    <3>3. QED
      BY <3>1, <3>2
  <2>3. Store!DeleteAccount(local[c].access, u)
    BY <1>1, <2>1, <2>2 DEF Store!DeleteAccount
  <2>4. QED
    BY <1>2, <2>1, <2>3 DEF Store!StoreNext
<1>13. QED
  BY <1>2, <1>8, <1>9, <1>10, <1>11, <1>12 DEF Local, Kinds, Changing

\* Every other step hands out nothing, or a session whose COMMIT was lost.
LEMMA QuietRefines ==
  ASSUME StoreInv, NEW c \in Calls, pc[c] # "ok", UNCHANGED <<password, tokens>>,
         \A d \in Calls \ {c} : pc'[d] = pc[d] /\ local'[d] = local[d],
         pc'[c] = "ok" => local' = local /\ c \in InTx
  PROVE  [Store!StoreNext]_(Store!storeVars)
<1>1. CASE pc'[c] = "ok" /\ local[c].kind \in Minting
  <2>1. UserOf(c) \in Users /\ local' = local /\ c \in Loaded
    BY <1>1, InTxFacts DEF StoreInv, InTx, TxSteps, Loaded, InFlight, Answers
  <2>2. CASE local[c].kind = "refresh"
    <3>1. <<local[c].refresh, UserOf(c)>> \in Issued /\ local[c].refresh \in Calls
      BY <2>1, <2>2 DEF StoreInv, ShownWasIssued, Issued
    <3>2. Store!LoseRefresh(c, local[c].refresh, UserOf(c))
      BY <1>1, <2>1, <2>2, <3>1, SessionIssued DEF Store!LoseRefresh
    <3>3. QED
      BY <2>1, <3>1, <3>2 DEF Store!StoreNext
  <2>3. CASE local[c].kind # "refresh"
    <3>1. Store!LoseCommit(c, UserOf(c))
      BY <1>1, <2>1, <2>3, SessionIssued DEF Store!LoseCommit
    <3>2. QED
      BY <2>1, <3>1 DEF Store!StoreNext
  <2>4. QED
    BY <2>2, <2>3
<1>2. CASE pc'[c] # "ok" \/ local[c].kind \notin Minting
  <2>1. Issued' = Issued /\ Redeemed' = Redeemed
    BY <1>2, NothingIssued
  <2>2. QED
    BY <2>1 DEF Store!storeVars
<1>3. QED
  BY <1>1, <1>2

LEMMA StepRefines ==
  StoreInv /\ StoreInv' /\ [Next]_vars => [Store!StoreNext]_(Store!storeVars)
<1> SUFFICES ASSUME StoreInv, StoreInv', [Next]_vars
             PROVE  [Store!StoreNext]_(Store!storeVars)
    OBVIOUS
<1>1. CASE UNCHANGED vars
  BY <1>1 DEF vars, Store!storeVars, Issued, Redeemed, UserOf
<1>2. ASSUME NEW c \in Calls, StepOf(c)
      PROVE  [Store!StoreNext]_(Store!storeVars)
  <2>1. CASE Commit(c)
    BY <2>1, CommitRefines
  <2>2. CASE ~Commit(c)
    <3>1. /\ pc[c] # "ok" /\ UNCHANGED <<password, tokens>>
          /\ \A d \in Calls \ {c} : pc'[d] = pc[d] /\ local'[d] = local[d]
      BY <1>2, <2>2, StepOfOne DEF Answers
    <3>2. pc'[c] = "ok" => local' = local /\ c \in InTx
      BY <1>2, <2>2, StepOfOne
         DEF CommitFails, Rollback, InTx, TxSteps
    <3>3. QED
      BY <3>1, <3>2, QuietRefines
  <2>3. QED
    BY <2>1, <2>2
<1>3. QED
  BY <1>1, <1>2 DEF Next, StepOf

\* Every login, refresh, logout, password change and deletion of an account
\* takes effect in one step, on the sessions as they are when it commits, or
\* its COMMIT is lost.
THEOREM SessionsImplementStore == Spec => ImplementsStore
<1>1. Init => Store!StoreInit
  BY DEF Init, Store!StoreInit, Issued, Redeemed
<1>2. StoreInv /\ StoreInv' /\ [Next]_vars => [Store!StoreNext]_(Store!storeVars)
  BY StepRefines
<1>3. QED
  BY <1>1, <1>2, StoreInvariant, PTL DEF Spec, ImplementsStore, Store!StoreSpec

-----------------------------------------------------------------------------
(* When no COMMIT fails *)

\* The token that a refresh or an earlier one redeemed is not the call's own.
LEMMA RedeemedWasIssued ==
  ASSUME StoreInv, NEW d \in Redeemed
  PROVE  d \in Calls /\ pc[d] = "ok"
BY DEF StoreInv, ShownWasIssued, Issued, Redeemed, Loaded

LEMMA StepRedeemedGone ==
  ASSUME "commit" \notin Failures, StoreInv, RedeemedIsGone, [Next]_vars
  PROVE  RedeemedIsGone'
<1>1. CASE UNCHANGED vars
  BY <1>1 DEF vars, RedeemedIsGone, Redeemed
<1>2. ASSUME NEW c \in Calls, StepOf(c) PROVE RedeemedIsGone'
  <2>0. /\ pc[c] # "ok"
        /\ \A d \in Calls \ {c} : pc'[d] = pc[d] /\ local'[d] = local[d]
        /\ pc'[c] = "ok" => Commit(c)
    BY <1>2, StepOfOne DEF Answers, CommitFails
  <2>1. CASE ~Commit(c)
    <3>1. Redeemed' = Redeemed
      BY <2>0, <2>1, NothingIssued
    <3>2. QED
      BY <1>2, <2>1, <3>1, StepOfOne DEF RedeemedIsGone
  <2>2. CASE Commit(c)
    <3>1. /\ tokens' = (tokens \ deleted[c]) \union Minted(c)
          /\ local' = local /\ pc[c] = "commit" /\ todo[c] = {}
      BY <2>2 DEF Commit
    <3>2. c \in InTx /\ c \in Loaded /\ \A t \in Minted(c) : t[2] = c
      BY <2>2, CommitFacts DEF StoreInv, InTx, TxSteps, Loaded, InFlight, Answers
    <3>3. ASSUME NEW d \in Redeemed PROVE <<"refresh", d>> \notin tokens'
      <4>1. d # c
        BY <2>0, <3>3, RedeemedWasIssued
      <4>2. QED
        BY <3>1, <3>2, <3>3, <4>1 DEF RedeemedIsGone
    <3>4. ASSUME local[c].kind = "refresh"
          PROVE  <<"refresh", local[c].refresh>> \notin tokens'
      <4>1. Shown(c) = {<<"refresh", local[c].refresh>>} /\ ShownFound(c)
        BY <3>2, <3>4 DEF Shown, StoreInv
      <4>2. local[c].refresh # c
        BY <2>0, <3>2, <3>4 DEF StoreInv, ShownWasIssued, Issued
      <4>3. QED
        BY <3>1, <3>2, <3>4, <4>1, <4>2 DEF ShownFound, Touched
    <3>5. \A d \in Redeemed' :
            d \in Redeemed \/ (local[c].kind = "refresh" /\ local[c].refresh = d)
      BY <2>0, <3>1 DEF Redeemed
    <3>6. QED
      BY <3>3, <3>4, <3>5 DEF RedeemedIsGone
  <2>3. QED
    BY <2>1, <2>2
<1>3. QED
  BY <1>1, <1>2 DEF Next, StepOf

\* As long as no COMMIT fails, a refresh token that was exchanged is never
\* valid again, whatever calls overlap.
THEOREM RedeemedIsGoneHolds ==
  ASSUME "commit" \notin Failures
  PROVE  Spec => []RedeemedIsGone
<1>1. Init => RedeemedIsGone
  BY DEF Init, RedeemedIsGone, Redeemed
<1>2. StoreInv /\ RedeemedIsGone /\ [Next]_vars => RedeemedIsGone'
  BY StepRedeemedGone
<1>3. QED
  BY <1>1, <1>2, StoreInvariant, PTL DEF Spec

\* As long as no COMMIT fails, a refresh token that was exchanged is refused from then on:
\* a second exchange is of a call that had loaded it before.
THEOREM RedeemedIsRefusedHolds ==
  ASSUME "commit" \notin Failures
  PROVE  Spec => RedeemedIsRefused
<1> DEFINE Refused ==
      \A c \in Calls :
        pc[c] = "new" /\ pc'[c] = "refresh_user" => local'[c].refresh \notin Redeemed
<1>1. StoreInv /\ RedeemedIsGone /\ [Next]_vars => [Refused]_vars
  <2> SUFFICES ASSUME StoreInv, RedeemedIsGone, Next,
                      NEW c \in Calls, pc[c] = "new", pc'[c] = "refresh_user"
               PROVE  local'[c].refresh \notin Redeemed
      BY DEF vars
  <2>t. pc \in [Calls -> Steps] /\ local \in [Calls -> Local \union {NoLocal}]
    BY DEF StoreInv, SessionInv, TypeOK
  <2>1. Start(c)
    <3>1. PICK d \in Calls : StepOf(d)
      BY DEF Next, StepOf
    <3>2. d = c
      BY <3>1, StepOfOne
    <3>3. QED
      BY <3>1, <3>2, StepOfOne DEF InFlight
  <2>2. PICK d \in Calls : RefreshLoadToken(c, d)
    BY <2>t, <2>1 DEF Start, LoginLoad, ResetLoadToken, AuthLoadToken, Begins,
                      HandlerPanics, Refuse, GoTo
  <2>3. local'[c].refresh = d /\ <<"refresh", d>> \in tokens
    BY <2>t, <2>2 DEF RefreshLoadToken, Begins
  <2>4. QED
    BY <2>3 DEF RedeemedIsGone
<1>2. QED
  BY <1>1, StoreInvariant, RedeemedIsGoneHolds, PTL DEF Spec, RedeemedIsRefused
=============================================================================
