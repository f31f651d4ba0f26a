----------------------- MODULE AccountSessionsProofs -----------------------
(***************************************************************************)
(* Theorems about AccountSessions, for every set of accounts, passwords    *)
(* and calls, with and without failures.                                   *)
(***************************************************************************)
EXTENDS AccountSessions, TLAPS

-----------------------------------------------------------------------------
(* The invariant SessionInv: initially, and step by step *)

LEMMA InitInv == Init => SessionInv
<1> SUFFICES ASSUME Init PROVE SessionInv
    OBVIOUS
<1>1. TypeOK
  BY NamesAssumption
     DEF Init, TypeOK, Loaded, InFlight, Steps, Answers, Row
<1>2. InTx = {}
  BY DEF Init, InTx, TxSteps
<1>3. QED
  BY <1>1, <1>2, NamesAssumption
     DEF Init, SessionInv, LocksHeld, CommitHoldsUser, MintersEnded,
         StepsOfKind, StepFits, KeyShareHeld, SweepComplete

\* The steps at which a call of each kind arrives.
LEMMA BeginsInv ==
  ASSUME SessionInv, NEW c \in Calls, NEW kind \in Kinds, NEW u \in Users,
         NEW p \in Passwords \union {Nothing},
         NEW access \in Calls \union {Nothing},
         NEW refresh \in Calls \union {Nothing},
         NEW step \in {"insert", "refresh_user", "reset_user", "auth_user"},
         kind \in Changing => p # Nothing,
         step = "insert" => kind \in Minting,
         step = "insert" => kind \notin Changing,
         step = "reset_user" => kind = "reset",
         step = "refresh_user" => kind = "refresh",
         Arrives(c), Begins(c, kind, u, p, access, refresh, step)
  PROVE  SessionInv'
<1> DEFINE row == [kind |-> kind, user |-> u, password |-> p,
                   access |-> access, refresh |-> refresh]
<1>1. /\ row \in Local
      /\ pc[c] = "new"
      /\ local' = [local EXCEPT ![c] = row]
      /\ pc' = [pc EXCEPT ![c] = step]
      /\ UNCHANGED <<password, tokens, todo, deleted, userLock>>
  BY DEF Begins, Arrives, GoTo, Local, tx
<1> HIDE DEF row
<1>r. row.kind = kind /\ row.user = u
  BY DEF row
<1>2. TypeOK'
  BY <1>1 DEF SessionInv, TypeOK, Loaded, InFlight, Steps, Answers, TxSteps
<1>3. /\ c \notin InTx
      /\ InTx' \in {InTx, InTx \union {c}}
      /\ \A d \in InTx : pc'[d] = pc[d] /\ local'[d] = local[d]
      /\ \A v \in Users : userLock[v] # c
      /\ \A t \in tokens : local'[t[2]] = local[t[2]] /\ pc'[t[2]] = pc[t[2]]
  BY <1>1 DEF SessionInv, TypeOK, LocksHeld, MintersEnded, InTx, TxSteps, Row
<1>4. LocksHeld'
  BY <1>1, <1>3 DEF SessionInv, LocksHeld, UserOf, InTx
<1>5. CommitHoldsUser'
  BY <1>1, <1>3, <1>r
     DEF SessionInv, CommitHoldsUser, NeedsUser, UserOf, InTx, TypeOK
<1>6. MintersEnded'
  BY <1>1, <1>3 DEF SessionInv, MintersEnded
<1>7. StepsOfKind'
  BY <1>1, <1>r DEF SessionInv, StepsOfKind, StepFits, TypeOK
<1>8. KeyShareHeld'
  <2> SUFFICES ASSUME NEW e \in InTx', e \in KeySharers(UserOf(e))'
               PROVE  password'[UserOf(e)'] # Gone /\ ~BeingDeleted(e, UserOf(e))'
    BY DEF KeyShareHeld, ShareHeld
  <2>1. e \in InTx /\ local'[e] = local[e] /\ pc'[e] = pc[e]
    BY <1>1, <1>3 DEF KeySharers, SessionInv, TypeOK
  <2>2. e \in KeySharers(UserOf(e)) /\ UserOf(e) \in Users
    BY <1>1, <2>1
       DEF KeySharers, UserOf, SessionInv, TypeOK, Loaded, InFlight, InTx,
           Local, TxSteps, Answers
  <2>3. \A d \in Calls : userLock[UserOf(e)] = d => local'[d] = local[d]
    BY <1>3, <2>2 DEF SessionInv, LocksHeld
  <2>4. QED
    BY <1>1, <2>1, <2>2, <2>3
       DEF SessionInv, KeyShareHeld, ShareHeld, BeingDeleted, UserOf
<1>9. SweepComplete'
  <2>1. \A v, table : RowsOf(v, table)' = RowsOf(v, table)
    BY <1>1, <1>3 DEF RowsOf
  <2>2. userLock'[UserOf(c)'] # c
    BY <1>1, <1>3, <1>r DEF UserOf, SessionInv, TypeOK
  <2>3. \A d \in InTx : Swept(d) => Swept(d)'
    BY <1>1, <1>3, <2>1 DEF Swept, Found, UserOf
  <2>4. QED
    BY <1>1, <1>3, <2>2, <2>3 DEF SessionInv, SweepComplete, UserOf
<1>10. QED
  BY <1>2, <1>4, <1>5, <1>6, <1>7, <1>8, <1>9 DEF SessionInv

\* A call ends before its transaction has begun.
LEMMA EndsInv ==
  ASSUME SessionInv, NEW c \in Calls, c \notin InTx, pc[c] # "ok",
         NEW answer \in {"error", "panic"}, GoTo(c, answer),
         UNCHANGED <<password, tokens, local, tx>>
  PROVE  SessionInv'
<1>1. InTx' = InTx /\ \A d \in InTx : pc'[d] = pc[d]
  BY DEF GoTo, InTx, TxSteps, SessionInv, TypeOK
<1>2. TypeOK'
  BY DEF GoTo, SessionInv, TypeOK, Loaded, InFlight, Steps, Answers, tx
<1>3. LocksHeld' /\ CommitHoldsUser' /\ MintersEnded' /\ StepsOfKind'
  BY <1>1 DEF GoTo, SessionInv, TypeOK, LocksHeld, CommitHoldsUser, NeedsUser,
              MintersEnded, StepsOfKind, StepFits, UserOf, tx, Row
<1>4. KeyShareHeld' /\ SweepComplete'
  BY <1>1 DEF SessionInv, KeyShareHeld, ShareHeld, BeingDeleted, KeySharers,
              SweepComplete, Swept, Found, RowsOf, UserOf, tx
<1>5. QED
  BY <1>2, <1>3, <1>4 DEF SessionInv

\* A step inside the call's transaction: it may take the users row, and it may
\* find and lock token rows.  What remains is to show that the invariant holds
\* of this very call.
LEMMA StatementInv ==
  ASSUME SessionInv, NEW c \in Calls, NEW step \in TxSteps,
         pc[c] \in TxSteps \union {"auth_user", "refresh_user", "reset_user"},
         pc' = [pc EXCEPT ![c] = step],
         UNCHANGED <<password, tokens, local>>,
         todo' \in [Calls -> SUBSET Row], deleted' \in [Calls -> SUBSET Row],
         \A d \in Calls \ {c} : todo'[d] = todo[d] /\ deleted'[d] = deleted[d],
         \/ UNCHANGED userLock
         \/ /\ RowFree(c, UserOf(c)) /\ LockUser(c)
            /\ local[c].kind = "delete" => KeySharers(UserOf(c)) = {},
         (NeedsUser(c) => userLock[UserOf(c)] = c)',
         StepFits(c)', ShareHeld(c)',
         (userLock[UserOf(c)] = c => Swept(c))',
         step \in {"set_password", "delete_user"} => (userLock[UserOf(c)] # c)'
  PROVE  SessionInv'
<1>1. /\ InTx' = InTx \union {c}
      /\ \A d \in Calls \ {c} : pc'[d] = pc[d]
      /\ pc'[c] = step
  BY DEF InTx, SessionInv, TypeOK
<1>2. \A d \in InTx' : UserOf(d) \in Users /\ UserOf(d)' = UserOf(d)
  BY <1>1 DEF SessionInv, TypeOK, Loaded, InFlight, InTx, TxSteps, Answers,
              Local, UserOf
<1>3. /\ \A d \in Calls \ {c}, u \in Users : userLock'[u] = d <=> userLock[u] = d
      /\ \A u \in Users : userLock'[u] = c => userLock[u] = c \/ u = UserOf(c)
      /\ userLock' \in [Users -> Calls \union {Nothing}]
  <2>1. CASE UNCHANGED userLock
    BY <2>1 DEF SessionInv, TypeOK
  <2>2. CASE RowFree(c, UserOf(c)) /\ LockUser(c)
    <3>1. /\ userLock \in [Users -> Calls \union {Nothing}]
          /\ userLock' = [userLock EXCEPT ![UserOf(c)] = c]
          /\ userLock[UserOf(c)] \in {Nothing, c}
          /\ Nothing \notin Calls
      BY <2>2, NamesAssumption DEF LockUser, RowFree, SessionInv, TypeOK
    <3>2. QED
      BY <3>1
  <2>3. QED
    BY <2>1, <2>2
<1>5. TypeOK'
  BY <1>1, <1>2, <1>3
     DEF SessionInv, TypeOK, Loaded, InFlight, Steps, Answers,
                    TxSteps
<1>6. LocksHeld'
  BY <1>1, <1>2, <1>3 DEF SessionInv, LocksHeld
<1>7. CommitHoldsUser'
  BY <1>1, <1>2, <1>3 DEF SessionInv, CommitHoldsUser, NeedsUser, InTx
<1>8. MintersEnded' /\ StepsOfKind'
  BY <1>1 DEF SessionInv, MintersEnded, StepsOfKind, StepFits, TypeOK, Row,
              TxSteps
<1>9. KeyShareHeld'
  <2> SUFFICES ASSUME NEW e \in InTx', e # c PROVE ShareHeld(e)'
    BY DEF KeyShareHeld
  <2>1. e \in InTx /\ ShareHeld(e)
    BY <1>1 DEF SessionInv, KeyShareHeld
  <2>2. e \in KeySharers(UserOf(e))' <=> e \in KeySharers(UserOf(e))
    BY <1>1, <1>2, <2>1 DEF KeySharers
  <2>3. CASE UNCHANGED userLock
    BY <1>2, <2>1, <2>2, <2>3 DEF ShareHeld, BeingDeleted
  <2>4. CASE /\ RowFree(c, UserOf(c)) /\ LockUser(c)
             /\ local[c].kind = "delete" => KeySharers(UserOf(c)) = {}
    <3>1. ASSUME NEW d \in Calls \ {e}, userLock'[UserOf(e)] = d,
                 local[d].kind = "delete", e \in KeySharers(UserOf(e))
          PROVE  userLock[UserOf(e)] = d
      BY <1>1, <1>2, <1>3, <2>4, <3>1
    <3>2. QED
      BY <1>2, <2>1, <2>2, <3>1 DEF ShareHeld, BeingDeleted
  <2>5. QED
    BY <2>3, <2>4
<1>10. SweepComplete'
  <2>1. \A v, table : RowsOf(v, table)' = RowsOf(v, table)
    BY DEF RowsOf
  <2>2. \A d \in InTx \ {c} : Swept(d) => Swept(d)'
    BY <1>1, <1>2, <2>1 DEF Swept, Found, InTx
  <2>3. QED
    BY <1>1, <1>2, <1>3, <2>2 DEF SessionInv, SweepComplete, InTx
<1>11. QED
  BY <1>5, <1>6, <1>7, <1>8, <1>9, <1>10 DEF SessionInv

-----------------------------------------------------------------------------
(* The calls arrive *)

LEMMA StartInv ==
  ASSUME SessionInv, NEW c \in Calls, Start(c)
  PROVE  SessionInv'
<1> USE NamesAssumption DEF Kinds, Minting, Changing
<1>a. Arrives(c)
  BY DEF Start
<1>1. ASSUME NEW d \in Calls, NEW table \in Tables, <<table, d>> \in tokens
      PROVE  UserOf(d) \in Users
  BY <1>1 DEF SessionInv, MintersEnded, TypeOK, Loaded, Local, UserOf
<1>2. ASSUME NEW u \in Users, NEW p \in Passwords, LoginLoad(c, u, p)
      PROVE  SessionInv'
  BY <1>a, <1>2, BeginsInv DEF LoginLoad
<1>3. ASSUME NEW u \in Users, NEW p \in Passwords, ResetLoadToken(c, u, p)
      PROVE  SessionInv'
  BY <1>a, <1>3, BeginsInv DEF ResetLoadToken
<1>4. ASSUME NEW d \in Calls, RefreshLoadToken(c, d)
      PROVE  SessionInv'
  BY <1>a, <1>4, <1>1, BeginsInv DEF RefreshLoadToken, Tables
<1>5. ASSUME NEW kind \in Kinds, NEW d \in Calls, NEW p \in Passwords \union {Nothing},
             NEW refresh \in Calls \union {Nothing},
             AuthLoadToken(c, kind, d, p, refresh)
      PROVE  SessionInv'
  BY <1>a, <1>5, <1>1, BeginsInv DEF AuthLoadToken, UserRoutes, Tables
<1>6. ASSUME HandlerPanics(c) \/ Refuse(c) PROVE SessionInv'
  <2>1. c \notin InTx /\ pc[c] # "ok"
    BY <1>a DEF Arrives, InTx, TxSteps
  <2>2. QED
    BY <1>6, <2>1, EndsInv DEF HandlerPanics, Refuse
<1>7. QED
  BY <1>2, <1>3, <1>4, <1>5, <1>6 DEF Start

LEMMA RefreshLoadUserInv ==
  ASSUME SessionInv, NEW c \in Calls, RefreshLoadUser(c)
  PROVE  SessionInv'
<1>1. pc[c] = "refresh_user" /\ c \notin InTx /\ local[c] \in Local
  BY DEF RefreshLoadUser, InTx, TxSteps, SessionInv, TypeOK, Loaded, InFlight,
         Answers
<1>2. CASE password[UserOf(c)] = Gone
  BY <1>1, <1>2, EndsInv DEF RefreshLoadUser
<1>3. CASE password[UserOf(c)] # Gone
  <2>1. /\ pc' = [pc EXCEPT ![c] = "refresh_delete"]
        /\ local' = [local EXCEPT ![c].password = password[UserOf(c)]]
        /\ UNCHANGED <<password, tokens, todo, deleted, userLock>>
    BY <1>3 DEF RefreshLoadUser, GoTo, tx
  <2>2. /\ password[UserOf(c)] \in Passwords
        /\ local' \in [Calls -> Local \union {NoLocal}]
        /\ local'[c] \in Local
        /\ local'[c].kind = "refresh"
        /\ \A d \in Calls \ {c} : local'[d] = local[d] /\ pc'[d] = pc[d]
        /\ \A d \in Calls : UserOf(d)' = UserOf(d) /\ local'[d].kind = local[d].kind
    <3>1. /\ password[UserOf(c)] \in Passwords
          /\ local \in [Calls -> Local \union {NoLocal}]
          /\ local[c].kind = "refresh"
      BY <1>1, <1>3
         DEF SessionInv, TypeOK, Local, UserOf, StepsOfKind, StepFits
    <3>2. [local[c] EXCEPT !.password = password[UserOf(c)]] \in Local
      BY <1>1, <3>1 DEF Local, Changing
    <3>3. /\ local' \in [Calls -> Local \union {NoLocal}]
          /\ local'[c] = [local[c] EXCEPT !.password = password[UserOf(c)]]
          /\ \A d \in Calls \ {c} : local'[d] = local[d] /\ pc'[d] = pc[d]
      BY <2>1, <3>1, <3>2 DEF SessionInv, TypeOK
    <3>4. local'[c].kind = local[c].kind /\ local'[c].user = local[c].user
      BY <1>1, <3>3 DEF Local
    <3>5. QED
      BY <1>1, <3>1, <3>2, <3>3, <3>4 DEF UserOf
  <2>3. InTx' = InTx \union {c} /\ pc'[c] = "refresh_delete"
    BY <2>1 DEF SessionInv, TypeOK, InTx, TxSteps
  <2>4. TypeOK'
    BY <1>1, <2>1, <2>2
       DEF SessionInv, TypeOK, Loaded, InFlight, Steps, Answers, TxSteps
  <2>t. userLock[UserOf(c)] # c
    BY <1>1 DEF SessionInv, LocksHeld, Local, UserOf
  <2>5. LocksHeld'
    BY <2>1, <2>2, <2>3 DEF SessionInv, LocksHeld
  <2>h. CommitHoldsUser'
    BY <2>1, <2>2, <2>3
       DEF SessionInv, CommitHoldsUser, NeedsUser, InTx
  <2>m. MintersEnded' /\ StepsOfKind'
    BY <1>1, <2>1, <2>2, <2>3
       DEF SessionInv, MintersEnded, StepsOfKind, StepFits, Row
  <2>6. \A u, table : RowsOf(u, table)' = RowsOf(u, table)
    BY <2>1, <2>2 DEF RowsOf, SessionInv, TypeOK, Row, UserOf
  <2>7. \A u : KeySharers(u)' = KeySharers(u)
    BY <2>1, <2>2, <2>3, <1>1 DEF KeySharers, InTx
  <2>8. KeyShareHeld'
    <3> SUFFICES ASSUME NEW e \in InTx' PROVE ShareHeld(e)'
      BY DEF KeyShareHeld
    <3>1. CASE e = c
      BY <2>2, <2>3, <3>1 DEF ShareHeld, KeySharers
    <3>2. CASE e # c
      <4>1. ShareHeld(e)
        BY <2>3, <3>2 DEF SessionInv, KeyShareHeld
      <4>2. QED
        BY <2>1, <2>2, <2>3, <2>7, <3>2, <4>1 DEF ShareHeld, BeingDeleted, InTx
    <3>3. QED
      BY <3>1, <3>2
  <2>9. SweepComplete'
    <3> SUFFICES ASSUME NEW e \in InTx', userLock'[UserOf(e)'] = e PROVE Swept(e)'
      BY DEF SweepComplete
    <3>1. e # c
      BY <2>1, <2>2, <2>t
    <3>2. e \in InTx /\ Swept(e)
      BY <2>1, <2>2, <2>3, <3>1 DEF SessionInv, SweepComplete, InTx
    <3>3. QED
      BY <2>1, <2>2, <2>6, <3>1, <3>2 DEF Swept, Found, InTx
  <2>10. QED
    BY <2>4, <2>5, <2>h, <2>m, <2>8, <2>9 DEF SessionInv
<1>4. QED
  BY <1>2, <1>3

LEMMA ResetLoadUserInv ==
  ASSUME SessionInv, NEW c \in Calls, ResetLoadUser(c)
  PROVE  SessionInv'
<1>1. /\ pc[c] = "reset_user" /\ c \notin InTx /\ local[c] \in Local
      /\ local[c].kind = "reset"
      /\ UNCHANGED <<password, tokens, local, tx>>
  BY DEF ResetLoadUser, InTx, TxSteps, SessionInv, TypeOK, Loaded, InFlight,
         Answers, StepsOfKind, StepFits
<1>2. CASE GoTo(c, "panic")
  BY <1>1, <1>2, EndsInv
<1>3. CASE GoTo(c, "set_password")
  <2>1. userLock[UserOf(c)] # c
    BY <1>1 DEF SessionInv, LocksHeld, Local, UserOf
  <2>2. pc'[c] = "set_password"
    BY <1>3 DEF GoTo, SessionInv, TypeOK
  <2>3. StepFits(c)' /\ ~NeedsUser(c)'
    BY <1>1, <2>2 DEF StepFits, NeedsUser, Changing
  <2>4. ShareHeld(c)' /\ userLock'[UserOf(c)'] # c
    BY <1>1, <2>1, <2>2 DEF ShareHeld, KeySharers, UserOf, tx
  <2>5. QED
    BY <1>1, <1>3, <2>3, <2>4, StatementInv
       DEF GoTo, TxSteps, tx, SessionInv, TypeOK
<1>4. QED
  BY <1>2, <1>3 DEF ResetLoadUser

LEMMA AuthLoadUserInv ==
  ASSUME SessionInv, NEW c \in Calls, AuthLoadUser(c)
  PROVE  SessionInv'
<1>1. /\ pc[c] = "auth_user" /\ c \notin InTx /\ local[c] \in Local
      /\ UNCHANGED <<password, tokens, local, tx>>
  BY DEF AuthLoadUser, InTx, TxSteps, SessionInv, TypeOK, Loaded, InFlight,
         Answers
<1>2. ASSUME NEW answer \in {"error", "panic"}, GoTo(c, answer)
      PROVE  SessionInv'
  BY <1>1, <1>2, EndsInv
<1>3. ASSUME NEW step \in {"set_password", "logout_access", "delete_user"},
             GoTo(c, step),
             step = "set_password" => local[c].kind = "change",
             step = "logout_access" => local[c].kind = "logout",
             step = "delete_user" => local[c].kind = "delete"
      PROVE  SessionInv'
  <2>1. userLock[UserOf(c)] # c
    BY <1>1 DEF SessionInv, LocksHeld, Local, UserOf
  <2>2. pc'[c] = step
    BY <1>3 DEF GoTo, SessionInv, TypeOK
  <2>3. StepFits(c)' /\ ~NeedsUser(c)'
    BY <1>1, <1>3, <2>2 DEF StepFits, NeedsUser, Changing
  <2>4. ShareHeld(c)' /\ userLock'[UserOf(c)'] # c
    BY <1>1, <1>3, <2>1, <2>2 DEF ShareHeld, KeySharers, UserOf, tx
  <2>5. QED
    BY <1>1, <1>3, <2>3, <2>4, StatementInv
       DEF GoTo, TxSteps, tx, SessionInv, TypeOK
<1>4. QED
  BY <1>2, <1>3 DEF AuthLoadUser

-----------------------------------------------------------------------------
(* The statements of a transaction *)

\* What is known of a call about to run a statement.
LEMMA InTxFacts ==
  ASSUME SessionInv, NEW c \in InTx
  PROVE  /\ c \in Calls /\ local[c] \in Local /\ UserOf(c) \in Users
         /\ StepFits(c) /\ ShareHeld(c)
         /\ NeedsUser(c) => userLock[UserOf(c)] = c
         /\ userLock[UserOf(c)] = c => Swept(c)
  BY DEF SessionInv, TypeOK, Loaded, InFlight, InTx, TxSteps, Answers, Local,
         UserOf, StepsOfKind, KeyShareHeld, CommitHoldsUser, SweepComplete

LEMMA SetPasswordInv ==
  ASSUME SessionInv, NEW c \in Calls, SetPassword(c)
  PROVE  SessionInv'
<1>1. /\ pc[c] = "set_password" /\ c \in InTx
      /\ pc' = [pc EXCEPT ![c] = "delete_access"] /\ pc'[c] = "delete_access"
      /\ UNCHANGED <<password, tokens, local, todo, deleted>>
  BY DEF SetPassword, GoTo, InTx, TxSteps, SessionInv, TypeOK
<1>2. local[c].kind \in Changing /\ UserOf(c) \in Users /\ UserOf(c)' = UserOf(c)
  BY <1>1, InTxFacts DEF StepFits, UserOf
<1>3. \/ UNCHANGED userLock
      \/ RowFree(c, UserOf(c)) /\ LockUser(c)
  BY DEF SetPassword
<1>4. StepFits(c)' /\ ShareHeld(c)' /\ Swept(c)'
  BY <1>1, <1>2 DEF StepFits, ShareHeld, KeySharers, Swept, Changing
<1>5. (NeedsUser(c) => userLock[UserOf(c)] = c)'
  <2>1. CASE password[UserOf(c)] = Gone
    BY <1>1, <1>2, <2>1 DEF NeedsUser
  <2>2. CASE password[UserOf(c)] # Gone
    BY <1>2, <2>2 DEF SetPassword, LockUser, SessionInv, TypeOK
  <2>3. QED
    BY <2>1, <2>2
<1>6. QED
  BY <1>1, <1>2, <1>3, <1>4, <1>5, StatementInv
     DEF TxSteps, SessionInv, TypeOK, Changing

\* A DELETE that finds rows only has to fit the call and to sweep enough.
LEMMA FindRowsInv ==
  ASSUME SessionInv, NEW c \in InTx, NEW rows \in SUBSET Row,
         NEW next \in TxSteps \ {"touch", "delete_access", "set_password", "delete_user"},
         FindRows(c, rows, next),
         next = "commit" => local[c].kind = "logout",
         (local[c].kind \in Changing /\ next \in {"delete_refresh", "insert"})
           => NeedsUser(c) \/ password[UserOf(c)] = Gone,
         StepFits(c)', Swept(c)'
  PROVE  SessionInv'
<1>1. /\ c \in Calls /\ UserOf(c)' = UserOf(c) /\ pc'[c] = next
      /\ pc[c] \in TxSteps /\ pc' = [pc EXCEPT ![c] = next]
      /\ UNCHANGED <<password, tokens, local, deleted, userLock>>
  BY DEF FindRows, GoTo, UserOf, InTx, SessionInv, TypeOK
<1>2. /\ todo' \in [Calls -> SUBSET Row]
      /\ \A d \in Calls \ {c} : todo'[d] = todo[d]
  BY DEF FindRows, SessionInv, TypeOK
<1>3. ShareHeld(c)'
  BY <1>1 DEF ShareHeld, KeySharers, Minting
<1>4. (NeedsUser(c) => userLock[UserOf(c)] = c)'
  BY <1>1, InTxFacts DEF NeedsUser, Minting, Changing
<1>5. QED
  BY <1>1, <1>2, <1>3, <1>4, StatementInv DEF SessionInv, TypeOK

\* The DELETEs of authenticateUser, refresh and logout.
LEMMA DeletesInv ==
  ASSUME SessionInv, NEW c \in Calls,
         \/ DeleteAccess(c) \/ DeleteRefresh(c)
         \/ RefreshDelete(c) \/ LogoutAccess(c) \/ LogoutRefresh(c)
  PROVE  SessionInv'
<1>1. c \in InTx
  BY DEF DeleteAccess, DeleteRefresh, RefreshDelete, LogoutAccess,
         LogoutRefresh, InTx, TxSteps
<1>2. /\ StepFits(c) /\ tokens \subseteq Row
      /\ pc \in [Calls -> Steps] /\ todo \in [Calls -> SUBSET Row]
  BY <1>1, InTxFacts DEF SessionInv, TypeOK
<1>3. CASE DeleteAccess(c)
  <2>1. /\ pc[c] = "delete_access" /\ pc'[c] = "delete_refresh"
        /\ todo'[c] = RowsOf(UserOf(c), "access") \ deleted[c]
        /\ UNCHANGED <<tokens, local, deleted>>
        /\ local[c].kind \in Changing
    BY <1>2, <1>3 DEF DeleteAccess, FindRows, GoTo, StepFits
  <2>2. Swept(c)' /\ StepFits(c)'
    BY <2>1 DEF Swept, Found, RowsOf, UserOf, StepFits, Changing
  <2>3. QED
    BY <1>1, <1>2, <1>3, <2>1, <2>2, FindRowsInv
       DEF DeleteAccess, RowsOf, NeedsUser, TxSteps
<1>4. CASE DeleteRefresh(c)
  <2>1. /\ pc[c] = "delete_refresh" /\ pc'[c] = "insert" /\ todo[c] = {}
        /\ todo'[c] = RowsOf(UserOf(c), "refresh") \ deleted[c]
        /\ UNCHANGED <<password, tokens, local, deleted, userLock>>
        /\ local[c].kind \in Changing
    BY <1>2, <1>4 DEF DeleteRefresh, FindRows, GoTo, StepFits
  <2>2. StepFits(c)'
    BY <2>1 DEF StepFits, Changing, Minting
  <2>3. CASE userLock[UserOf(c)] = c
    <3>1. Found(c, "access")
      BY <1>1, <2>1, <2>3, InTxFacts DEF Swept
    <3>2. Swept(c)'
      BY <2>1, <3>1 DEF Swept, Found, RowsOf, UserOf, Changing
    <3>3. QED
      BY <1>1, <1>2, <1>4, <2>1, <2>2, <3>2, FindRowsInv
         DEF DeleteRefresh, RowsOf, NeedsUser, TxSteps
  <2>4. CASE userLock[UserOf(c)] # c
    <3>1. ~NeedsUser(c) /\ password[UserOf(c)] = Gone
      BY <1>1, <2>1, <2>4, InTxFacts DEF NeedsUser
    <3>2. ~NeedsUser(c)' /\ ShareHeld(c)' /\ userLock'[UserOf(c)'] # c
      BY <2>1, <2>4, <3>1 DEF NeedsUser, UserOf, ShareHeld, KeySharers
    <3>3. /\ todo' \in [Calls -> SUBSET Row]
          /\ \A d \in Calls \ {c} : todo'[d] = todo[d]
          /\ pc' = [pc EXCEPT ![c] = "insert"]
      BY <1>2, <1>4 DEF DeleteRefresh, FindRows, GoTo, RowsOf
    <3>4. QED
      BY <1>2, <2>1, <2>2, <3>2, <3>3, StatementInv
         DEF TxSteps, SessionInv, TypeOK
  <2>5. QED
    BY <2>3, <2>4
<1>5. CASE RefreshDelete(c) \/ LogoutAccess(c) \/ LogoutRefresh(c)
  <2>1. PICK rows \in SUBSET Row, next \in {"insert", "logout_refresh", "commit"} :
          /\ FindRows(c, rows, next)
          /\ next = "insert" => local[c].kind = "refresh"
          /\ next # "insert" => local[c].kind = "logout"
    BY <1>2, <1>5 DEF RefreshDelete, LogoutAccess, LogoutRefresh, StepFits
  <2>2. pc'[c] = next /\ UNCHANGED local
    BY <1>2, <2>1 DEF FindRows, GoTo
  <2>3. Swept(c)' /\ StepFits(c)'
    BY <2>1, <2>2 DEF Swept, StepFits, Changing, Minting
  <2>4. QED
    BY <1>1, <2>1, <2>3, FindRowsInv DEF TxSteps, Changing
<1>6. QED
  BY <1>3, <1>4, <1>5

LEMMA DeleteUserInv ==
  ASSUME SessionInv, NEW c \in Calls, DeleteUser(c)
  PROVE  SessionInv'
<1>1. /\ pc[c] = "delete_user" /\ c \in InTx
      /\ pc' = [pc EXCEPT ![c] = "commit"] /\ pc'[c] = "commit"
      /\ UNCHANGED <<password, tokens, local, deleted>>
  BY DEF DeleteUser, GoTo, InTx, TxSteps, SessionInv, TypeOK
<1>2. /\ local[c].kind = "delete" /\ UserOf(c) \in Users
      /\ UserOf(c)' = UserOf(c)
      /\ NeedsUser(c) => userLock[UserOf(c)] = c
  BY <1>1, InTxFacts DEF StepFits, UserOf
<1>3. StepFits(c)' /\ ShareHeld(c)'
  BY <1>1, <1>2 DEF StepFits, ShareHeld, KeySharers, Minting
<1>4. CASE password[UserOf(c)] = Gone
  <2>1. UNCHANGED <<todo, userLock>>
    BY <1>4 DEF DeleteUser
  <2>2. ~NeedsUser(c)'
    BY <1>1, <1>2, <1>4 DEF NeedsUser, Minting
  <2>3. userLock[UserOf(c)] # c
    BY <1>1, <1>2 DEF SessionInv, LocksHeld
  <2>4. QED
    BY <1>1, <1>2, <1>3, <2>1, <2>2, <2>3, StatementInv
       DEF TxSteps, SessionInv, TypeOK
<1>5. CASE password[UserOf(c)] # Gone
  <2>1. /\ RowFree(c, UserOf(c)) /\ LockUser(c) /\ KeySharers(UserOf(c)) = {}
        /\ todo' = [todo EXCEPT ![c] = SessionsOf(UserOf(c))]
    BY <1>5 DEF DeleteUser
  <2>2. userLock'[UserOf(c)'] = c
    BY <1>2, <2>1 DEF LockUser, SessionInv, TypeOK
  <2>3. /\ todo' \in [Calls -> SUBSET Row]
        /\ todo'[c] = SessionsOf(UserOf(c))
        /\ \A d \in Calls \ {c} : todo'[d] = todo[d]
    BY <2>1 DEF SessionsOf, SessionInv, TypeOK
  <2>4. Swept(c)'
    BY <1>1, <1>2, <2>3 DEF Swept, Found, RowsOf, SessionsOf, UserOf, Changing
  <2>5. QED
    BY <1>1, <1>2, <1>3, <2>1, <2>2, <2>3, <2>4, StatementInv
       DEF TxSteps, SessionInv, TypeOK
<1>6. QED
  BY <1>4, <1>5

LEMMA LockRowInv ==
  ASSUME SessionInv, NEW c \in Calls, NEW t \in Row, LockRow(c, t)
  PROVE  SessionInv'
<1>1. /\ UNCHANGED <<password, tokens, pc, local, userLock>>
      /\ t \in todo[c]
      /\ todo' = [todo EXCEPT ![c] = @ \ {t}]
      /\ deleted' = [deleted EXCEPT ![c] = @ \union ({t} \intersect tokens)]
  BY DEF LockRow
<1>2. TypeOK'
  BY <1>1 DEF SessionInv, TypeOK, Loaded, InFlight
<1>3. /\ LocksHeld' /\ CommitHoldsUser' /\ MintersEnded' /\ StepsOfKind'
      /\ KeyShareHeld'
  BY <1>1 DEF SessionInv, LocksHeld, CommitHoldsUser, NeedsUser, MintersEnded,
              StepsOfKind, StepFits, KeyShareHeld, ShareHeld, KeySharers,
              BeingDeleted, UserOf, InTx
<1>4. \A d \in Calls : \A r \in tokens :
        r \in todo[d] \union deleted[d] => r \in todo'[d] \union deleted'[d]
  BY <1>1 DEF SessionInv, TypeOK
<1>5. SweepComplete'
  <2>1. \A d \in Calls : \A table : Found(d, table) => Found(d, table)'
    BY <1>1, <1>4 DEF Found, RowsOf, UserOf
  <2>2. \A d \in InTx : Swept(d) => Swept(d)'
    BY <1>1, <2>1 DEF Swept, InTx
  <2>3. QED
    BY <1>1, <2>2 DEF SessionInv, SweepComplete, InTx, UserOf
<1>6. QED
  BY <1>2, <1>3, <1>5 DEF SessionInv

\* The transaction of a call ends without effect, with any answer.
LEMMA RollbackInv ==
  ASSUME SessionInv, NEW c \in InFlight, NEW answer \in {"ok", "error"},
         Rollback(c, answer)
  PROVE  SessionInv'
<1>1. /\ c \in Calls /\ local[c] \in Local /\ pc[c] # "ok"
      /\ pc' = [pc EXCEPT ![c] = answer]
      /\ UNCHANGED <<password, tokens, local>>
      /\ todo' = [todo EXCEPT ![c] = {}] /\ deleted' = [deleted EXCEPT ![c] = {}]
      /\ userLock' = [u \in Users |-> IF userLock[u] = c THEN Nothing ELSE userLock[u]]
  BY DEF Rollback, GoTo, InFlight, Answers, SessionInv, TypeOK, Loaded
<1>2. TypeOK'
  BY <1>1 DEF SessionInv, TypeOK, Loaded, InFlight, Steps, Answers
<1>3. /\ InTx' = InTx \ {c}
      /\ \A d \in InTx' : pc'[d] = pc[d] /\ todo'[d] = todo[d]
                           /\ deleted'[d] = deleted[d]
      /\ \A d \in Calls \ {c}, u \in Users : userLock'[u] = d <=> userLock[u] = d
      /\ \A u \in Users : userLock'[u] # c
  BY <1>1, NamesAssumption DEF SessionInv, TypeOK, InTx, TxSteps
<1>4. \A d \in InTx' : UserOf(d) \in Users /\ UserOf(d)' = UserOf(d)
  BY <1>1, <1>3, InTxFacts DEF UserOf
<1>5. LocksHeld' /\ CommitHoldsUser'
  BY <1>1, <1>3, <1>4
     DEF SessionInv, LocksHeld, CommitHoldsUser, NeedsUser, UserOf
<1>6. MintersEnded' /\ StepsOfKind'
  BY <1>1 DEF SessionInv, MintersEnded, StepsOfKind, StepFits, TypeOK, Row
<1>7. KeyShareHeld'
  <2> SUFFICES ASSUME NEW e \in InTx' PROVE ShareHeld(e)'
    BY DEF KeyShareHeld
  <2>1. e \in InTx /\ e # c /\ ShareHeld(e)
    BY <1>3 DEF SessionInv, KeyShareHeld
  <2>2. e \in KeySharers(UserOf(e))' <=> e \in KeySharers(UserOf(e))
    BY <1>1, <1>3, <1>4, <2>1 DEF KeySharers, UserOf
  <2>3. BeingDeleted(e, UserOf(e))' => BeingDeleted(e, UserOf(e))
    BY <1>1, <1>3, <1>4 DEF BeingDeleted
  <2>4. QED
    BY <1>1, <1>4, <2>1, <2>2, <2>3 DEF ShareHeld
<1>8. SweepComplete'
  <2>1. \A d \in InTx' : Swept(d) => Swept(d)'
    BY <1>1, <1>3, <1>4 DEF Swept, Found, RowsOf, UserOf
  <2>2. QED
    BY <1>1, <1>3, <1>4, <2>1 DEF SessionInv, SweepComplete, InTx
<1>9. QED
  BY <1>2, <1>5, <1>6, <1>7, <1>8 DEF SessionInv

LEMMA InsertTokensInv ==
  ASSUME SessionInv, NEW c \in Calls, InsertTokens(c)
  PROVE  SessionInv'
<1>1. /\ pc[c] = "insert" /\ c \in InTx /\ c \in InFlight
      /\ ~BeingDeleted(c, UserOf(c))
  BY DEF InsertTokens, InTx, InFlight, TxSteps, Answers
<1>2. CASE Rollback(c, "error")
  BY <1>1, <1>2, RollbackInv
<1>3. CASE /\ password[UserOf(c)] # Gone
           /\ GoTo(c, "touch")
           /\ UNCHANGED <<password, tokens, local, tx>>
  <2>1. /\ pc' = [pc EXCEPT ![c] = "touch"] /\ pc'[c] = "touch"
        /\ UNCHANGED <<password, tokens, local, todo, deleted, userLock>>
    BY <1>3 DEF GoTo, tx, SessionInv, TypeOK
  <2>2. /\ StepFits(c)
        /\ NeedsUser(c) => userLock[UserOf(c)] = c
        /\ userLock[UserOf(c)] = c => Swept(c)
    BY <1>1, InTxFacts
  <2>3. StepFits(c)' /\ ShareHeld(c)'
    BY <1>1, <1>3, <2>1, <2>2 DEF StepFits, ShareHeld, BeingDeleted, UserOf
  <2>4. (NeedsUser(c) => userLock[UserOf(c)] = c)'
    BY <1>1, <2>1, <2>2 DEF NeedsUser, UserOf
  <2>5. (userLock[UserOf(c)] = c => Swept(c))'
    BY <1>1, <2>1, <2>2 DEF Swept, Found, RowsOf, UserOf
  <2>6. QED
    BY <1>1, <2>1, <2>3, <2>4, <2>5, StatementInv
       DEF TxSteps, SessionInv, TypeOK
<1>4. QED
  BY <1>2, <1>3 DEF InsertTokens

LEMMA TouchUserInv ==
  ASSUME SessionInv, NEW c \in Calls, TouchUser(c)
  PROVE  SessionInv'
<1>1. /\ pc[c] = "touch" /\ c \in InTx
      /\ RowFree(c, UserOf(c)) /\ LockUser(c)
      /\ pc' = [pc EXCEPT ![c] = "commit"] /\ pc'[c] = "commit"
      /\ UNCHANGED <<password, tokens, local, todo, deleted>>
  BY DEF TouchUser, GoTo, InTx, TxSteps, SessionInv, TypeOK
<1>2. /\ local[c].kind \in Minting /\ UserOf(c) \in Users
      /\ UserOf(c)' = UserOf(c)
      /\ ShareHeld(c)
      /\ NeedsUser(c) => userLock[UserOf(c)] = c
      /\ userLock[UserOf(c)] = c => Swept(c)
  BY <1>1, InTxFacts DEF StepFits, UserOf
<1>3. userLock'[UserOf(c)'] = c
  BY <1>1, <1>2 DEF LockUser, SessionInv, TypeOK
<1>4. password[UserOf(c)] # Gone /\ ~BeingDeleted(c, UserOf(c))
  BY <1>1, <1>2 DEF ShareHeld, KeySharers
<1>5. StepFits(c)' /\ ShareHeld(c)'
  BY <1>1, <1>2, <1>3, <1>4 DEF StepFits, ShareHeld, BeingDeleted
<1>6. Swept(c)'
  <2>1. CASE local[c].kind \in Changing
    BY <1>1, <1>2, <1>4, <2>1 DEF NeedsUser, Swept, Found, RowsOf, UserOf
  <2>2. CASE local[c].kind \notin Changing
    BY <1>1, <1>2, <2>2 DEF Swept, Minting
  <2>3. QED
    BY <2>1, <2>2
<1>7. QED
  BY <1>1, <1>2, <1>3, <1>5, <1>6, StatementInv
     DEF TxSteps, SessionInv, TypeOK, Minting

\* What a COMMIT may publish.
LEMMA CommitFacts ==
  ASSUME SessionInv, NEW c \in Calls, Commit(c)
  PROVE  /\ pc[c] = "commit" /\ c \in InTx /\ local[c] \in Local
         /\ UserOf(c) \in Users /\ todo[c] = {}
         /\ Minted(c) \subseteq Row
         /\ \A t \in Minted(c) : t[2] = c
         /\ Minted(c) # {} => userLock[UserOf(c)] = c
         /\ Written(c) \in Passwords \union {Gone}
         /\ Written(c) # password[UserOf(c)] =>
              /\ userLock[UserOf(c)] = c /\ password[UserOf(c)] # Gone
              /\ local[c].kind \in Changing \union {"delete"}
         /\ local[c].kind # "delete" /\ password[UserOf(c)] # Gone => Written(c) # Gone
<1>1. pc[c] = "commit" /\ c \in InTx /\ todo[c] = {}
  BY DEF Commit, InTx, TxSteps
<1>2. /\ local[c] \in Local /\ UserOf(c) \in Users /\ ShareHeld(c)
      /\ NeedsUser(c) => userLock[UserOf(c)] = c
  BY <1>1, InTxFacts
<1>3. /\ Minted(c) \subseteq Row
      /\ \A t \in Minted(c) : t[2] = c
      /\ Minted(c) # {} => local[c].kind \in Minting
  BY DEF Minted, Row
<1>4. password[UserOf(c)] \in Passwords \union {Gone}
  BY <1>2 DEF SessionInv, TypeOK
<1>5. local[c].kind \in Minting => userLock[UserOf(c)] = c /\ password[UserOf(c)] # Gone
  BY <1>1, <1>2 DEF NeedsUser, ShareHeld, KeySharers
<1>6. local[c].kind = "delete" /\ password[UserOf(c)] # Gone => userLock[UserOf(c)] = c
  BY <1>1, <1>2 DEF NeedsUser
<1>7. local[c].kind \in Changing => local[c].password \in Passwords /\ local[c].kind # "delete"
  BY <1>2 DEF Local, Changing
<1>8. QED
  BY <1>1, <1>2, <1>3, <1>4, <1>5, <1>6, <1>7, NamesAssumption
     DEF Written, Minting, Changing

LEMMA CommitInv ==
  ASSUME SessionInv, NEW c \in Calls, Commit(c)
  PROVE  SessionInv'
<1>1. /\ pc' = [pc EXCEPT ![c] = "ok"]
      /\ password' = [password EXCEPT ![UserOf(c)] = Written(c)]
      /\ tokens' = (tokens \ deleted[c]) \union Minted(c)
      /\ deleted' = [deleted EXCEPT ![c] = {}]
      /\ userLock' = [u \in Users |-> IF userLock[u] = c THEN Nothing ELSE userLock[u]]
      /\ UNCHANGED <<local, todo>>
  BY DEF Commit, GoTo
<1>2. TypeOK'
  BY <1>1, CommitFacts DEF SessionInv, TypeOK, Loaded, InFlight, Steps, Answers
<1>3. /\ InTx' = InTx \ {c}
      /\ \A d \in InTx' : pc'[d] = pc[d] /\ deleted'[d] = deleted[d]
      /\ \A d \in Calls \ {c}, u \in Users : userLock'[u] = d <=> userLock[u] = d
      /\ \A u \in Users : userLock'[u] # c
  BY <1>1, NamesAssumption DEF SessionInv, TypeOK, InTx, TxSteps
<1>4. \A d \in InTx' : UserOf(d) \in Users /\ UserOf(d)' = UserOf(d)
  BY <1>1, <1>3, InTxFacts DEF UserOf
<1>5. \A u \in Users : password'[u] # password[u] =>
        /\ u = UserOf(c) /\ userLock[u] = c /\ password[u] # Gone
        /\ password'[u] = Gone => local[c].kind = "delete"
  BY <1>1, CommitFacts DEF SessionInv, TypeOK
<1>6. LocksHeld'
  BY <1>1, <1>3, <1>4 DEF SessionInv, LocksHeld
<1>7. CommitHoldsUser'
  BY <1>1, <1>3, <1>4, <1>5 DEF SessionInv, CommitHoldsUser, NeedsUser
<1>8. MintersEnded' /\ StepsOfKind'
  BY <1>1, CommitFacts
     DEF SessionInv, MintersEnded, StepsOfKind, StepFits, TypeOK, Row
<1>9. KeyShareHeld'
  <2> SUFFICES ASSUME NEW e \in InTx', e \in KeySharers(UserOf(e))'
               PROVE  password'[UserOf(e)] # Gone /\ ~BeingDeleted(e, UserOf(e))'
    BY <1>4 DEF KeyShareHeld, ShareHeld
  <2>1. e \in InTx /\ e # c /\ e \in KeySharers(UserOf(e))
    BY <1>1, <1>3, <1>4 DEF KeySharers
  <2>2. password[UserOf(e)] # Gone /\ ~BeingDeleted(e, UserOf(e))
    BY <2>1 DEF SessionInv, KeyShareHeld, ShareHeld
  <2>3. ~BeingDeleted(e, UserOf(e))'
    BY <1>1, <1>3, <1>4, <2>2 DEF BeingDeleted
  <2>4. password'[UserOf(e)] # Gone
    BY <1>4, <1>5, <2>1, <2>2 DEF BeingDeleted
  <2>5. QED
    BY <2>3, <2>4
<1>10. SweepComplete'
  <2> SUFFICES ASSUME NEW e \in InTx', userLock'[UserOf(e)] = e PROVE Swept(e)'
    BY <1>4 DEF SweepComplete
  <2>1. e \in InTx /\ e # c /\ userLock[UserOf(e)] = e /\ Swept(e)
    BY <1>3, <1>4 DEF SessionInv, SweepComplete, InTx
  <2>2. \A t \in Minted(c) : UserOf(t[2]) # UserOf(e)
    BY <2>1, CommitFacts
  <2>3. \A table : RowsOf(UserOf(e), table)' \subseteq RowsOf(UserOf(e), table)
    BY <1>1, <1>4, <2>2 DEF RowsOf, UserOf
  <2>4. QED
    BY <1>1, <1>3, <1>4, <2>1, <2>3 DEF Swept, Found
<1>11. QED
  BY <1>2, <1>6, <1>7, <1>8, <1>9, <1>10 DEF SessionInv

LEMMA StepInv == SessionInv /\ [Next]_vars => SessionInv'
<1> SUFFICES ASSUME SessionInv, [Next]_vars PROVE SessionInv'
    OBVIOUS
<1>1. CASE UNCHANGED vars
  BY <1>1 DEF vars, SessionInv, TypeOK, LocksHeld, CommitHoldsUser, NeedsUser,
              MintersEnded, StepsOfKind, StepFits, KeyShareHeld, ShareHeld,
              KeySharers, BeingDeleted, SweepComplete, Swept, Found, RowsOf,
              UserOf, InTx, InFlight, Loaded
<1>2. ASSUME NEW c \in Calls, Start(c) PROVE SessionInv'
  BY <1>2, StartInv
<1>3. ASSUME NEW c \in Calls, NEW answer \in {"ok", "error"}, c \in InFlight,
             Rollback(c, answer)
      PROVE  SessionInv'
  BY <1>3, RollbackInv
<1>4. ASSUME NEW c \in Calls, CallFails(c) \/ CommitFails(c) PROVE SessionInv'
  BY <1>3, <1>4 DEF CallFails, CommitFails, InFlight, Answers
<1>5. ASSUME NEW c \in Calls, DeadlockVictim(c) PROVE SessionInv'
  BY <1>3, <1>5 DEF DeadlockVictim, InTx, InFlight, TxSteps, Answers
<1>6. ASSUME NEW c \in Calls, Proceed(c), ~DeadlockVictim(c) PROVE SessionInv'
  BY <1>6, RefreshLoadUserInv, ResetLoadUserInv, AuthLoadUserInv, SetPasswordInv, DeletesInv,
     DeleteUserInv, LockRowInv, InsertTokensInv, TouchUserInv, CommitInv
     DEF Proceed
<1>7. QED
  BY <1>1, <1>2, <1>4, <1>5, <1>6 DEF Next, Proceed

-----------------------------------------------------------------------------
(* The theorems *)

\* The invariant that the other theorems rest on: locks, finished minters and
\* complete sweeps, in every reachable state.
THEOREM SessionsInvariant == Spec => []SessionInv
<1>1. Init => SessionInv
  BY InitInv
<1>2. SessionInv /\ [Next]_vars => SessionInv'
  BY StepInv
<1>3. QED
  BY <1>1, <1>2, PTL DEF Spec

\* The tables, the calls and the locks of internal/auth/service.go keep their
\* types; in particular no row of another type is ever committed.
THEOREM TypeCorrect == Spec => []TypeOK
<1>1. SessionInv => TypeOK
  BY DEF SessionInv
<1>2. QED
  BY <1>1, SessionsInvariant, PTL

\* A step of the password or of an account's existence is a COMMIT that leaves
\* no token but its own.
LEMMA StepRevokes ==
  ASSUME SessionInv, NEW c \in Calls, Commit(c), NEW u \in Users,
         password'[u] # password[u], NEW t \in tokens', UserOf(t[2]) = u
  PROVE  pc'[t[2]] = "ok" /\ pc[t[2]] # "ok" /\ local[t[2]].kind \in Changing
<1>1. /\ UserOf(c) = u /\ userLock[u] = c /\ todo[c] = {}
      /\ pc[c] = "commit" /\ c \in InTx
      /\ local[c].kind \in Changing \union {"delete"}
      /\ tokens' = (tokens \ deleted[c]) \union Minted(c)
      /\ pc'[c] = "ok"
  <2>1. /\ todo[c] = {} /\ pc[c] = "commit"
        /\ tokens' = (tokens \ deleted[c]) \union Minted(c)
        /\ pc' = [pc EXCEPT ![c] = "ok"]
        /\ password' = [password EXCEPT ![UserOf(c)] = Written(c)]
    BY DEF Commit, GoTo
  <2>2. pc \in [Calls -> Steps] /\ password \in [Users -> Passwords \union {Gone}]
    BY DEF SessionInv, TypeOK
  <2>3. QED
    BY <2>1, <2>2, CommitFacts
<1>2. Found(c, "access") /\ Found(c, "refresh")
  BY <1>1, InTxFacts DEF Swept
<1>3. t \notin tokens \ deleted[c]
  BY <1>1, <1>2 DEF Found, RowsOf, UserOf, SessionInv, TypeOK, Row, Tables
<1>4. t \in Minted(c) /\ t[2] = c
  BY <1>1, <1>3, CommitFacts
<1>5. local[c].kind \in Changing
  BY <1>1, <1>4 DEF Minted, Minting
<1>6. QED
  BY <1>1, <1>4, <1>5

\* UpdatePassword (and so ResetPassword) and DeleteUserAccount revoke every
\* session: at the COMMIT the account has no tokens but the new pair.
THEOREM ChangeRevokesHolds == Spec => ChangeRevokes
<1> DEFINE Revokes ==
      \A u \in Users :
        password'[u] # password[u] =>
          \A t \in tokens' :
            UserOf(t[2]) = u => pc'[t[2]] = "ok" /\ pc[t[2]] # "ok"
                                /\ local[t[2]].kind \in Changing
<1>1. SessionInv /\ [Next]_vars => [Revokes]_vars
  <2> SUFFICES ASSUME SessionInv, Next PROVE Revokes
      BY DEF vars
  <2>1. CASE UNCHANGED password
    BY <2>1
  <2>2. CASE \E c \in Calls : Commit(c)
    BY <2>2, StepRevokes
  <2>3. ASSUME NEW c \in Calls, Start(c) PROVE UNCHANGED password
    BY <2>3 DEF Start, LoginLoad, ResetLoadToken, RefreshLoadToken, AuthLoadToken,
                Begins, HandlerPanics, Refuse
  <2>4. ASSUME NEW c \in Calls,
               RefreshLoadUser(c) \/ ResetLoadUser(c) \/ AuthLoadUser(c)
                 \/ SetPassword(c) \/ DeleteAccess(c) \/ DeleteRefresh(c) \/ RefreshDelete(c)
                 \/ LogoutAccess(c) \/ LogoutRefresh(c)
        PROVE  UNCHANGED password
    BY <2>4 DEF RefreshLoadUser, ResetLoadUser, AuthLoadUser, SetPassword,
                DeleteAccess, DeleteRefresh, RefreshDelete, LogoutAccess, LogoutRefresh, FindRows
  <2>5. ASSUME NEW c \in Calls,
               DeleteUser(c) \/ (\E t \in Row : LockRow(c, t)) \/ InsertTokens(c)
                 \/ TouchUser(c) \/ DeadlockVictim(c) \/ CommitFails(c) \/ CallFails(c)
        PROVE  UNCHANGED password
    BY <2>5 DEF DeleteUser, LockRow, InsertTokens, TouchUser, DeadlockVictim,
                CommitFails, CallFails, Rollback
  <2>6. UNCHANGED password \/ \E c \in Calls : Commit(c)
    BY <2>3, <2>4, <2>5 DEF Next, Proceed
  <2>7. QED
    BY <2>1, <2>2, <2>6
<1>2. QED
  BY <1>1, SessionsInvariant, PTL DEF Spec, ChangeRevokes
=============================================================================
