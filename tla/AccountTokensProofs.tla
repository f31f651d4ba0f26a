-------------------------- MODULE AccountTokensProofs --------------------------
(***************************************************************************)
(* Proofs about AccountTokens, for every set of names, all periods, any    *)
(* sizes of the pool and any number of calls.                              *)
(***************************************************************************)
EXTENDS AccountTokens, FiniteSetTheorems, TLAPS

\* Steps before the token a registration makes can be known to anybody.
NotYet == {"idle", "beginRegister", "insertUser", "insertConfirmation", "commitRegister",
           "checkConfirmation", "resend"}
ConfirmLocked == {"confirmUpdate", "confirmDelete", "confirmMint", "confirmCommit"}
ConfirmRead == {"confirmUser"} \union ConfirmLocked

Issued(t) == t.by \in Calls => pc[t.by] \notin NotYet

\* A token the call has made and not yet stored.
OwnToken(c, validity) ==
  LET t == local[c].token IN
    /\ t \in Token /\ t.by = c /\ t.name = local[c].name
    /\ t.created <= now /\ t.until = t.created + validity

\* A token the call has read or stored.
Link(c) ==
  local[c].token \in Token /\ Issued(local[c].token) /\ local[c].token.name = local[c].name

\* Tokens of the call's name are older than the period, or of overlapping calls.
Far(c, table, period) ==
  \A s \in table : s.name = local[c].name => Together(s.by, c) \/ s.created + period <= now

Apart(c) ==
  \A s \in resets : s.name = local[c].name =>
    \/ Together(s.by, c)
    \/ /\ s.created + ResetDebounce <= local[c].token.created
       /\ s.created + ResetReuse <= local[c].token.created

\* The reset token the call has chosen is new, or good for a while.
Chosen(c) ==
  \/ local[c].at = local[c].token.created
  \/ local[c].token.until - local[c].at > ResetValidity - ResetReuse

\* Everything that is known of a call at each of its steps.
CallInv(c) ==
  /\ pc[c] \in {"beginRegister", "insertUser", "insertConfirmation"} => local[c].token = NoToken
  /\ pc[c] = "insertConfirmation" => RequiresConfirmation
  /\ pc[c] \in {"insertConfirmation", "commitRegister"} => users[local[c].name] = "absent"
  /\ pc[c] = "commitRegister" =>
       IF RequiresConfirmation THEN OwnToken(c, ConfirmValidity) ELSE local[c].token = NoToken
  /\ pc[c] \in {"checkConfirmation", "resend"} => users[local[c].name] # "absent"
  /\ pc[c] = "resend" => Far(c, confirmations, ConfirmDebounce)
  /\ pc[c] \in {"mailConfirmation", "confirmToken"} \union ConfirmRead => Link(c)
  /\ pc[c] \in ConfirmRead =>
       \A s \in sessions : s.token = local[c].token /\ s.by # c => Together(s.by, c)
  /\ pc[c] \in ConfirmLocked => users[local[c].name] # "absent"
  /\ pc[c] \in {"forgotBegin", "forgotReuse", "forgotInsert"} => Far(c, resets, ResetDebounce)
  /\ pc[c] = "forgotInsert" => Far(c, resets, ResetReuse)
  /\ pc[c] = "forgotCommit" =>
       /\ Chosen(c)
       /\ \/ local[c].token \in resets /\ local[c].token.name = local[c].name
          \/ OwnToken(c, ResetValidity) /\ Apart(c)
  /\ pc[c] = "mailReset" =>
       /\ Link(c) /\ Chosen(c)
       /\ local[c].token \in resets \/ local[c].token.by \in unsaved

\* The stored tokens, sessions and mails.
StoredInv ==
  /\ \A t \in confirmations : t.created <= now /\ t.until = t.created + ConfirmValidity
  /\ \A t \in resets : /\ t.created <= now /\ t.until = t.created + ResetValidity
                       /\ Issued(t)
  /\ \A m \in mails : Issued(m.token)
  /\ \A s \in sessions : Issued(s.token)

PropertiesInv ==
  /\ ActivationAtomic /\ ConfirmedOnce
  /\ ResetTokensApart /\ ConfirmationTokensApart /\ MailedLinkLives

\* Two calls in flight have met, and only one holds the row of a name.
PairsInv ==
  \A c, d \in Calls : c # d =>
    /\ c \in InFlight /\ d \in InFlight => Together(c, d)
    /\ pc[c] \in UserLocked /\ pc[d] \in UserLocked => local[c].name # local[d].name

AccountInv ==
  /\ TypeOK /\ StoredInv /\ PropertiesInv /\ PairsInv
  /\ \A c \in Calls : CallInv(c)

-----------------------------------------------------------------------------
(* Steps that leave a call alone *)

\* What a call meets when another one or the clock takes a step.
Quiet(d) ==
  /\ pc'[d] = pc[d] /\ local'[d] = local[d]
  /\ now' \in Nat /\ now <= now'
  /\ overlap \subseteq overlap' /\ unsaved \subseteq unsaved' /\ resets \subseteq resets'
  /\ \A e \in Calls : pc[e] \notin NotYet => pc'[e] \notin NotYet
  /\ users[local[d].name] # "absent" => users'[local[d].name] # "absent"
  /\ pc[d] \in UserLocked => users'[local[d].name] = users[local[d].name]
  /\ d \in InFlight =>
       /\ \A s \in sessions' \ sessions : Together(s.by, d)
       /\ \A t \in (confirmations' \ confirmations) \union (resets' \ resets) : Together(t.by, d)

LEMMA CallKept ==
  ASSUME NEW d \in Calls, TypeOK, Quiet(d), CallInv(d)
  PROVE  CallInv(d)'
<1>0. /\ pc'[d] = pc[d] /\ local'[d] = local[d] /\ pc[d] \in Steps
      /\ now \in Nat /\ now' \in Nat /\ now <= now'
      /\ resets \subseteq Token /\ confirmations \subseteq Token
  BY DEF Quiet, TypeOK
<1>1. \A x, y : Together(x, y) => Together(x, y)'
  BY DEF Quiet, Together
<1>2. \A t : Issued(t) => Issued(t)'
  BY DEF Quiet, Issued
<1>3. Link(d) => Link(d)'
  BY <1>0, <1>2 DEF Link
<1>4. \A v : OwnToken(d, v) => OwnToken(d, v)'
  BY <1>0 DEF OwnToken, Token
<1>5. Chosen(d) => Chosen(d)'
  BY <1>0 DEF Chosen
<1>6. ASSUME d \in InFlight PROVE Apart(d) => Apart(d)'
  BY <1>0, <1>1, <1>6 DEF Apart, Quiet
<1>7. ASSUME d \in InFlight, NEW p \in Nat, Far(d, resets, p) PROVE Far(d, resets, p)'
  BY <1>0, <1>1, <1>7 DEF Far, Quiet, Token
<1>8. ASSUME d \in InFlight, NEW p \in Nat, Far(d, confirmations, p) PROVE Far(d, confirmations, p)'
  BY <1>0, <1>1, <1>8 DEF Far, Quiet, Token
<1>9. CASE pc[d] \in {"beginRegister", "insertUser", "insertConfirmation", "commitRegister"}
  BY <1>0, <1>4, <1>9 DEF CallInv, ConfirmRead, ConfirmLocked, Quiet, UserLocked
<1>10. CASE pc[d] \in {"checkConfirmation", "resend"}
  <2>1. d \in InFlight
    BY <1>10 DEF InFlight, Ended
  <2>2. QED
    BY <1>0, <1>8, <1>10, <2>1, ConfirmPeriods DEF CallInv, ConfirmRead, ConfirmLocked, Quiet
<1>11. CASE pc[d] \in {"mailConfirmation", "confirmToken"} \union ConfirmRead
  <2>1. d \in InFlight
    BY <1>11 DEF InFlight, Ended, ConfirmRead, ConfirmLocked
  <2>2. Link(d)'
    BY <1>3, <1>11 DEF CallInv
  <2>3. pc[d] \in ConfirmRead =>
          \A s \in sessions' : s.token = local[d].token /\ s.by # d => Together(s.by, d)'
    BY <1>1, <2>1 DEF CallInv, Quiet
  <2>4. pc[d] \in ConfirmLocked => users'[local[d].name] # "absent"
    BY DEF CallInv, Quiet
  <2>5. QED
    BY <1>0, <1>11, <2>2, <2>3, <2>4 DEF CallInv, ConfirmRead, ConfirmLocked
<1>12. CASE pc[d] \in {"forgotBegin", "forgotReuse", "forgotInsert"}
  <2>1. d \in InFlight
    BY <1>12 DEF InFlight, Ended
  <2>2. QED
    BY <1>0, <1>7, <1>12, <2>1, ResetPeriods DEF CallInv, ConfirmRead, ConfirmLocked
<1>13. CASE pc[d] = "forgotCommit"
  <2>1. d \in InFlight
    BY <1>13 DEF InFlight, Ended
  <2>2. QED
    BY <1>0, <1>4, <1>5, <1>6, <1>13, <2>1 DEF CallInv, ConfirmRead, ConfirmLocked, Quiet
<1>14. CASE pc[d] = "mailReset"
  BY <1>0, <1>3, <1>5, <1>14 DEF CallInv, ConfirmRead, ConfirmLocked, Quiet
<1>15. CASE pc[d] \in {"idle", "done", "forgotDebounce", "resetChange"}
  BY <1>0, <1>15 DEF CallInv, ConfirmRead, ConfirmLocked
<1>16. QED
  BY <1>0, <1>9, <1>10, <1>11, <1>12, <1>13, <1>14, <1>15
  DEF Steps, Ended, TxSteps, ConfirmRead, ConfirmLocked

-----------------------------------------------------------------------------
(* What remains to be shown of a step *)

LocalRow == [name : Names, token : Token \union {NoToken}, at : Nat]

LEMMA StepOf ==
  ASSUME NEW c \in Calls, AccountInv, \A d \in Calls \ {c} : Quiet(d),
         TypeOK', StoredInv', PropertiesInv', PairsInv', CallInv(c)'
  PROVE  AccountInv'
<1>1. ASSUME NEW d \in Calls \ {c} PROVE CallInv(d)'
  BY CallKept DEF AccountInv
<1>2. QED
  BY <1>1 DEF AccountInv

\* Call c takes a step: it met those in flight when it started, and it locks a
\* row of users only when that is free.
Moves(c, step) ==
  /\ pc' = [pc EXCEPT ![c] = step]
  /\ \A d \in Calls \ {c} : local'[d] = local[d]
  /\ overlap \subseteq overlap'
  /\ step \notin Ended => \A d \in InFlight \ {c} : Together(c, d)'
  /\ step \in UserLocked =>
       /\ local'[c].name = local[c].name
       /\ pc[c] \in UserLocked \/ UserRowFree(c)

LEMMA PairsKept ==
  ASSUME NEW c \in Calls, NEW step, TypeOK, PairsInv, Moves(c, step)
  PROVE  PairsInv'
<1>1. /\ \A d \in Calls \ {c} : pc'[d] = pc[d] /\ local'[d] = local[d]
      /\ pc'[c] = step
  BY DEF Moves, TypeOK
<1>2. \A x, y : Together(x, y) => Together(x, y)' /\ Together(y, x)'
  BY DEF Moves, Together
<1>3. ASSUME NEW d \in Calls \ {c}
      PROVE  /\ (c \in InFlight)' /\ (d \in InFlight)' => Together(c, d)' /\ Together(d, c)'
             /\ pc'[c] \in UserLocked /\ pc'[d] \in UserLocked => local'[c].name # local'[d].name
  <2>1. (c \in InFlight)' /\ (d \in InFlight)' => Together(c, d)' /\ Together(d, c)'
    BY <1>1 DEF Moves, InFlight, Together
  <2>2. pc'[c] \in UserLocked /\ pc'[d] \in UserLocked => local'[c].name # local'[d].name
    BY <1>1 DEF Moves, PairsInv, UserRowFree
  <2>3. QED
    BY <2>1, <2>2
<1>4. ASSUME NEW d \in Calls \ {c}, NEW e \in Calls \ {c}, d # e
      PROVE  /\ (d \in InFlight)' /\ (e \in InFlight)' => Together(d, e)'
             /\ pc'[d] \in UserLocked /\ pc'[e] \in UserLocked => local'[d].name # local'[e].name
  BY <1>1, <1>2, <1>4 DEF PairsInv, InFlight
<1>5. QED
  BY <1>3, <1>4 DEF PairsInv

LEMMA TablesKept ==
  ASSUME StoredInv, PropertiesInv, UNCHANGED <<now, tables, mails>>, overlap \subseteq overlap',
         \A e \in Calls : pc[e] \notin NotYet => pc'[e] \notin NotYet
  PROVE  StoredInv' /\ PropertiesInv'
<1>1. \A t : Issued(t) => Issued(t)'
  BY DEF Issued
<1>2. StoredInv'
  BY <1>1 DEF StoredInv, tables
<1>3. \A x, y : Together(x, y) => Together(x, y)'
  BY DEF Together
<1>4. ActivationAtomic' /\ MailedLinkLives'
  BY DEF PropertiesInv, ActivationAtomic, Earlier, MailedLinkLives, tables
<1>5. ConfirmedOnce'
  BY <1>3 DEF PropertiesInv, ConfirmedOnce, tables
<1>6. ResetTokensApart'
  BY <1>3 DEF PropertiesInv, ResetTokensApart, tables
<1>7. ConfirmationTokensApart'
  BY <1>3 DEF PropertiesInv, ConfirmationTokensApart, tables
<1>8. QED
  BY <1>2, <1>4, <1>5, <1>6, <1>7 DEF PropertiesInv

\* A step that writes no table and mails nothing.
LEMMA MoveStep ==
  ASSUME NEW c \in Calls, NEW step \in Steps, NEW l \in LocalRow,
         AccountInv, UNCHANGED <<now, tables, mails>>, Moves(c, step),
         local' = [local EXCEPT ![c] = l],
         step \in NotYet => pc[c] \in NotYet,
         overlap' \subseteq Calls \X Calls,
         pool' \in [limit : Limits, held : SUBSET Calls],
         CallInv(c)'
  PROVE  AccountInv'
<1>0. TypeOK /\ StoredInv /\ PropertiesInv /\ PairsInv
  BY DEF AccountInv
<1>1. pc' = [pc EXCEPT ![c] = step]
  BY DEF Moves
<1>2. TypeOK'
  BY <1>0, <1>1 DEF TypeOK, tables, LocalRow
<1>3. \A e \in Calls : pc[e] \notin NotYet => pc'[e] \notin NotYet
  BY <1>0, <1>1 DEF TypeOK
<1>4. StoredInv' /\ PropertiesInv'
  BY <1>0, <1>3, TablesKept DEF Moves
<1>5. PairsInv'
  BY <1>0, PairsKept
<1>6. \A d \in Calls \ {c} : Quiet(d)
  BY <1>0, <1>1, <1>3 DEF Quiet, Moves, tables, TypeOK
<1>7. QED
  BY <1>2, <1>4, <1>5, <1>6, StepOf

LEMMA PoolTyped ==
  ASSUME NEW c \in Calls, TypeOK, UNCHANGED pool \/ Acquire(c) \/ Release(c)
  PROVE  pool' \in [limit : Limits, held : SUBSET Calls]
<1>1. pool \in [limit : Limits, held : SUBSET Calls]
  BY DEF TypeOK
<1>2. CASE UNCHANGED pool
  BY <1>1, <1>2
<1>3. CASE Acquire(c)
  BY <1>1, <1>3 DEF Acquire
<1>4. CASE Release(c)
  BY <1>1, <1>4 DEF Release
<1>5. QED
  BY <1>2, <1>3, <1>4

\* Nothing is known of a call at these steps.
LEMMA NothingKnown ==
  ASSUME NEW c \in Calls, pc'[c] \in {"idle", "done", "forgotDebounce", "resetChange"}
  PROVE  CallInv(c)'
BY DEF CallInv, ConfirmRead, ConfirmLocked

\* A call goes on without binding anything.
LEMMA KeepStep ==
  ASSUME NEW c \in InFlight, NEW step \in Steps, AccountInv, GoTo(c, step),
         UNCHANGED <<now, tables, mails, local, overlap>>,
         UNCHANGED pool \/ Acquire(c) \/ Release(c),
         step \in NotYet => pc[c] \in NotYet,
         step \in UserLocked => pc[c] \in UserLocked \/ UserRowFree(c),
         CallInv(c)'
  PROVE  AccountInv'
<1>0. TypeOK /\ PairsInv /\ c \in Calls
  BY DEF AccountInv, InFlight
<1>1. local[c] \in LocalRow /\ local' = [local EXCEPT ![c] = local[c]]
      /\ overlap' \subseteq Calls \X Calls
  BY <1>0 DEF TypeOK, LocalRow
<1>2. \A d \in InFlight \ {c} : Together(c, d)'
  BY <1>0 DEF PairsInv, InFlight, Together
<1>3. Moves(c, step)
  BY <1>0, <1>2 DEF Moves, GoTo
<1>4. pool' \in [limit : Limits, held : SUBSET Calls]
  BY <1>0, PoolTyped
<1>5. QED
  BY <1>0, <1>1, <1>3, <1>4, MoveStep

\* A call goes on with a token, or writes down the time.
LEMMA BindStep ==
  ASSUME NEW c \in InFlight, NEW step \in Steps, NEW t \in Token \union {NoToken},
         AccountInv, GoTo(c, step), Bind(c, local[c].name, t),
         UNCHANGED <<now, tables, mails, pool, overlap>>,
         step \in NotYet => pc[c] \in NotYet,
         step \in UserLocked => pc[c] \in UserLocked \/ UserRowFree(c),
         CallInv(c)'
  PROVE  AccountInv'
<1> DEFINE l == [name |-> local[c].name, token |-> t, at |-> now]
<1>0. TypeOK /\ PairsInv /\ c \in Calls
  BY DEF AccountInv, InFlight
<1>1. /\ l \in LocalRow /\ local' = [local EXCEPT ![c] = l]
      /\ overlap' \subseteq Calls \X Calls
  BY <1>0 DEF TypeOK, LocalRow, Bind
<1>2. \A d \in InFlight \ {c} : Together(c, d)'
  BY <1>0 DEF PairsInv, InFlight, Together
<1>3. Moves(c, step)
  <2>1. /\ \A d \in Calls \ {c} : local'[d] = local[d]
        /\ local'[c].name = local[c].name
    BY <1>0, <1>1 DEF TypeOK
  <2>2. QED
    BY <1>2, <2>1 DEF Moves, GoTo
<1>4. pool' \in [limit : Limits, held : SUBSET Calls]
  BY <1>0, PoolTyped
<1>5. QED
  <2> HIDE DEF l
  <2>1. QED
    BY <1>0, <1>1, <1>3, <1>4, MoveStep

\* A call arrives.
LEMMA StartStep ==
  ASSUME NEW c \in Calls, NEW step \in Steps, NEW n \in Names, NEW t \in Token \union {NoToken},
         AccountInv, Start(c, step), Bind(c, n, t), step \notin UserLocked,
         UNCHANGED <<now, tables, mails>>,
         UNCHANGED pool \/ Acquire(c) \/ Release(c),
         CallInv(c)'
  PROVE  AccountInv'
<1> DEFINE l == [name |-> n, token |-> t, at |-> now]
<1>0. TypeOK /\ pc[c] = "idle"
  BY DEF AccountInv, Start
<1>1. l \in LocalRow /\ local' = [local EXCEPT ![c] = l]
  BY <1>0 DEF TypeOK, LocalRow, Bind
<1>2. overlap' \subseteq Calls \X Calls /\ overlap \subseteq overlap'
  BY <1>0 DEF Start, TypeOK, InFlight
<1>3. step \notin Ended => \A d \in InFlight \ {c} : Together(c, d)'
  BY DEF Start, Together
<1>4. Moves(c, step)
  BY <1>0, <1>1, <1>2, <1>3 DEF Moves, Start, GoTo, TypeOK
<1>5. pool' \in [limit : Limits, held : SUBSET Calls]
  BY <1>0, PoolTyped
<1>6. pc[c] \in NotYet
  BY <1>0 DEF NotYet
<1>7. QED
  <2> HIDE DEF l
  <2>1. QED
    BY <1>1, <1>2, <1>4, <1>5, <1>6, MoveStep

-----------------------------------------------------------------------------
(* Registration *)

\* What Bind leaves in the call's record.
LEMMA Bound ==
  ASSUME NEW c \in Calls, NEW n, NEW t, TypeOK, Bind(c, n, t)
  PROVE  local'[c].name = n /\ local'[c].token = t /\ local'[c].at = now
BY DEF Bind, TypeOK

LEMMA RegisterLoadStep ==
  ASSUME NEW c \in Calls, NEW n \in Names, AccountInv, RegisterLoad(c, n)
  PROVE  AccountInv'
<1> DEFINE step == CASE users[n] = "absent" -> "beginRegister"
                     [] users[n] = "unconfirmed" -> "checkConfirmation"
                     [] OTHER -> "done"
<1>0. /\ TypeOK /\ Start(c, step) /\ Bind(c, n, NoToken) /\ UNCHANGED <<now, tables, mails>>
      /\ UNCHANGED pool
  BY DEF RegisterLoad, AccountInv
<1>1. step \in {"beginRegister", "checkConfirmation", "done"}
      /\ (step = "checkConfirmation" => users[n] # "absent")
  OBVIOUS
<1>2. pc'[c] = step
  BY <1>0 DEF Start, GoTo, TypeOK
<1>3. local'[c].name = n /\ local'[c].token = NoToken
  BY <1>0, Bound
<1>4. CallInv(c)'
  <2>1. users'[n] = users[n]
    BY <1>0 DEF tables
  <2> HIDE DEF step
  <2>2. CASE step = "done"
    BY <1>2, <2>2, NothingKnown
  <2>3. CASE step # "done"
    BY <1>1, <1>2, <1>3, <2>1, <2>3 DEF CallInv, ConfirmRead, ConfirmLocked
  <2>4. QED
    BY <2>2, <2>3
<1>5. step \in Steps /\ step \notin UserLocked /\ NoToken \in Token \union {NoToken}
  BY <1>1 DEF Steps, TxSteps, Ended, UserLocked
<1>6. QED
  <2> HIDE DEF step
  <2>1. QED
    BY <1>0, <1>4, <1>5, StartStep

LEMMA CheckConfirmationStep ==
  ASSUME NEW c \in Calls, AccountInv, CheckConfirmation(c)
  PROVE  AccountInv'
<1>0. /\ TypeOK /\ CallInv(c) /\ StoredInv /\ pc[c] = "checkConfirmation" /\ c \in InFlight
      /\ UNCHANGED <<now, tables, mails, local, overlap>> /\ UNCHANGED pool
      /\ pc[c] \in NotYet
  BY DEF CheckConfirmation, AccountInv, InFlight, Ended, NotYet
<1>1. CASE GoTo(c, "done")
  <2>1. CallInv(c)'
    BY <1>0, <1>1, NothingKnown DEF GoTo, TypeOK
  <2>2. "done" \in Steps /\ "done" \notin UserLocked
    BY DEF Steps, Ended, UserLocked
  <2>3. QED
    BY <1>0, <1>1, <2>1, <2>2, KeepStep
<1>2. CASE GoTo(c, "resend") /\ Valid(confirmations, local[c].name, now - ConfirmDebounce) = {}
  <2>1. ASSUME NEW s \in confirmations, s.name = local[c].name
        PROVE  s.created + ConfirmDebounce <= now
    <3>1. ~(s.created > now - ConfirmDebounce /\ s.until > now)
      BY <1>2, <2>1 DEF Valid
    <3>2. s.created \in Nat /\ s.until = s.created + ConfirmValidity /\ now \in Nat
      BY <1>0, <2>1 DEF StoredInv, TypeOK, Token
    <3>3. QED
      BY <3>1, <3>2, ConfirmPeriods
  <2>2. Far(c, confirmations, ConfirmDebounce)'
    BY <1>0, <2>1 DEF Far, tables
  <2>3. pc'[c] = "resend" /\ users'[local'[c].name] # "absent"
    BY <1>0, <1>2 DEF GoTo, TypeOK, CallInv, tables
  <2>4. CallInv(c)'
    BY <2>2, <2>3 DEF CallInv, ConfirmRead, ConfirmLocked
  <2>5. "resend" \in Steps /\ "resend" \notin UserLocked
    BY DEF Steps, Ended, UserLocked
  <2>6. QED
    BY <1>0, <1>2, <2>4, <2>5, KeepStep
<1>3. QED
  BY <1>1, <1>2 DEF CheckConfirmation

LEMMA BeginRegisterStep ==
  ASSUME NEW c \in Calls, AccountInv, BeginRegister(c)
  PROVE  AccountInv'
<1>0. /\ TypeOK /\ CallInv(c) /\ pc[c] = "beginRegister" /\ c \in InFlight /\ GoTo(c, "insertUser")
      /\ UNCHANGED <<now, tables, mails, local, overlap>> /\ Acquire(c)
      /\ pc[c] \in NotYet
  BY DEF BeginRegister, AccountInv, InFlight, Ended, NotYet
<1>1. CallInv(c)'
  BY <1>0 DEF CallInv, ConfirmRead, ConfirmLocked, GoTo, TypeOK
<1>2. "insertUser" \in Steps /\ "insertUser" \notin UserLocked
  BY DEF Steps, TxSteps, UserLocked
<1>3. QED
  BY <1>0, <1>1, <1>2, KeepStep

LEMMA InsertUserStep ==
  ASSUME NEW c \in Calls, AccountInv, InsertUser(c)
  PROVE  AccountInv'
<1>0. /\ TypeOK /\ CallInv(c) /\ pc[c] = "insertUser" /\ c \in InFlight /\ UserRowFree(c)
      /\ UNCHANGED <<now, tables, mails, local, overlap>> /\ pc[c] \in NotYet
      /\ local[c].token = NoToken
  BY DEF InsertUser, AccountInv, InFlight, Ended, NotYet, CallInv
<1>1. CASE Rollback(c)
  <2>1. GoTo(c, "done") /\ Release(c)
    BY <1>1 DEF Rollback
  <2>2. CallInv(c)'
    BY <1>0, <2>1, NothingKnown DEF GoTo, TypeOK
  <2>3. "done" \in Steps /\ "done" \notin UserLocked /\ "done" \notin NotYet
    BY DEF Steps, Ended, UserLocked, NotYet
  <2>4. QED
    BY <1>0, <2>1, <2>2, <2>3, KeepStep
<1>2. ASSUME users[local[c].name] = "absent", UNCHANGED pool, NEW step \in Steps,
             step = (IF RequiresConfirmation THEN "insertConfirmation" ELSE "commitRegister"),
             GoTo(c, step)
      PROVE  AccountInv'
  <2>1. pc'[c] = step /\ users'[local'[c].name] = "absent" /\ local'[c].token = NoToken
    BY <1>0, <1>2 DEF GoTo, TypeOK, tables
  <2>2. CallInv(c)'
    BY <1>2, <2>1 DEF CallInv, ConfirmRead, ConfirmLocked
  <2>3. QED
    BY <1>0, <1>2, <2>2, KeepStep
<1>3. QED
  <2>1. (IF RequiresConfirmation THEN "insertConfirmation" ELSE "commitRegister") \in Steps
    BY DEF Steps, TxSteps
  <2>2. QED
    BY <1>1, <1>2, <2>1 DEF InsertUser

LEMMA NewTokenIsToken ==
  ASSUME NEW c \in Calls, NEW v \in Nat, TypeOK
  PROVE  NewToken(c, v) \in Token
<1>1. c \in 0 .. MaxCalls
  BY BoundsAssumption DEF Calls
<1>2. now \in Nat /\ local[c].name \in Names /\ now + v \in Nat
  BY DEF TypeOK
<1>3. QED
  BY <1>1, <1>2 DEF NewToken, Token

LEMMA InsertConfirmationStep ==
  ASSUME NEW c \in Calls, AccountInv, InsertConfirmation(c)
  PROVE  AccountInv'
<1> DEFINE t == NewToken(c, ConfirmValidity)
<1>0. /\ TypeOK /\ CallInv(c) /\ pc[c] = "insertConfirmation" /\ c \in InFlight
      /\ Bind(c, local[c].name, t) /\ GoTo(c, "commitRegister")
      /\ UNCHANGED <<now, tables, mails, pool, overlap>> /\ pc[c] \in NotYet /\ pc[c] \in UserLocked
  BY DEF InsertConfirmation, AccountInv, InFlight, Ended, NotYet, UserLocked
<1>1. t \in Token
  BY <1>0, NewTokenIsToken, ConfirmPeriods
<1>2. local'[c].name = local[c].name /\ local'[c].token = t
  BY <1>0, Bound
<1>3. OwnToken(c, ConfirmValidity)'
  BY <1>0, <1>1, <1>2 DEF OwnToken, NewToken, TypeOK
<1>4. pc'[c] = "commitRegister" /\ users'[local'[c].name] = "absent" /\ RequiresConfirmation
  BY <1>0, <1>2 DEF GoTo, TypeOK, tables, CallInv
<1>5. CallInv(c)'
  BY <1>3, <1>4 DEF CallInv, ConfirmRead, ConfirmLocked
<1>6. "commitRegister" \in Steps
  BY DEF Steps, TxSteps
<1>7. QED
  BY <1>0, <1>1, <1>5, <1>6, BindStep

-----------------------------------------------------------------------------
(* Confirmation *)

\* What a call has read or stored stays as it is while it goes on.
LEMMA LinkKept ==
  ASSUME NEW c \in Calls, NEW step, TypeOK, Link(c), local'[c] = local[c],
         pc' = [pc EXCEPT ![c] = step], step \notin NotYet
  PROVE  Link(c)'
BY DEF Link, Issued, TypeOK

LEMMA ConfirmBeginStep ==
  ASSUME NEW c \in Calls, NEW m \in mails, AccountInv, ConfirmBegin(c, m.token)
  PROVE  AccountInv'
<1> DEFINE t == m.token
<1>0. /\ TypeOK /\ StoredInv /\ Start(c, "confirmToken") /\ Bind(c, t.name, t)
      /\ UNCHANGED <<now, tables, mails>> /\ Acquire(c)
  BY DEF ConfirmBegin, AccountInv
<1>1. t \in Token /\ t.name \in Names /\ Issued(t)
  BY <1>0 DEF TypeOK, StoredInv, Token
<1>2. pc' = [pc EXCEPT ![c] = "confirmToken"] /\ pc'[c] = "confirmToken"
  BY <1>0 DEF Start, GoTo, TypeOK
<1>3. local'[c].name = t.name /\ local'[c].token = t
  BY <1>0, Bound
<1>4. Link(c)'
  BY <1>0, <1>1, <1>2, <1>3 DEF Link, Issued, NotYet, TypeOK
<1>5. CallInv(c)'
  BY <1>2, <1>4 DEF CallInv, ConfirmRead, ConfirmLocked
<1>6. "confirmToken" \in Steps /\ "confirmToken" \notin UserLocked
  BY DEF Steps, TxSteps, UserLocked
<1>7. QED
  <2> HIDE DEF t
  <2>1. QED
    BY <1>0, <1>1, <1>5, <1>6, StartStep

\* The error or early return of a confirmation, and every other ROLLBACK.
LEMMA EndStep ==
  ASSUME NEW c \in InFlight, AccountInv, GoTo(c, "done"),
         UNCHANGED pool \/ Release(c),
         UNCHANGED <<now, tables, mails, local, overlap>>
  PROVE  AccountInv'
<1>1. TypeOK /\ c \in Calls
  BY DEF AccountInv, InFlight
<1>2. CallInv(c)'
  BY <1>1, NothingKnown DEF GoTo, TypeOK
<1>3. "done" \in Steps /\ "done" \notin UserLocked /\ "done" \notin NotYet
  BY DEF Steps, Ended, UserLocked, NotYet
<1>4. QED
  BY <1>2, <1>3, KeepStep

LEMMA ConfirmTokenStep ==
  ASSUME NEW c \in Calls, AccountInv, ConfirmToken(c)
  PROVE  AccountInv'
<1>0. /\ TypeOK /\ CallInv(c) /\ PropertiesInv /\ pc[c] = "confirmToken" /\ c \in InFlight
      /\ UNCHANGED <<now, tables, mails, local, overlap>>
  BY DEF ConfirmToken, AccountInv, InFlight, Ended
<1>1. CASE Rollback(c)
  BY <1>0, <1>1, EndStep DEF Rollback
<1>2. CASE local[c].token \in confirmations /\ GoTo(c, "confirmUser") /\ UNCHANGED pool
  <2>1. \A s \in sessions : s.token # local[c].token
    BY <1>0, <1>2 DEF PropertiesInv, ActivationAtomic
  <2>2. pc' = [pc EXCEPT ![c] = "confirmUser"] /\ pc'[c] = "confirmUser"
    BY <1>0, <1>2 DEF GoTo, TypeOK
  <2>3. Link(c)'
    BY <1>0, <2>2, LinkKept DEF CallInv, NotYet
  <2>4. CallInv(c)'
    BY <1>0, <2>1, <2>2, <2>3 DEF CallInv, ConfirmRead, ConfirmLocked, tables
  <2>5. "confirmUser" \in Steps /\ "confirmUser" \notin UserLocked /\ "confirmUser" \notin NotYet
    BY DEF Steps, TxSteps, UserLocked, NotYet
  <2>6. QED
    BY <1>0, <1>2, <2>4, <2>5, KeepStep
<1>3. QED
  BY <1>1, <1>2 DEF ConfirmToken

\* A confirmation whose user is known goes on.
LEMMA ConfirmGoesOn ==
  ASSUME NEW c \in InFlight, AccountInv, NEW step \in ConfirmLocked, pc[c] \in ConfirmRead,
         users[local[c].name] # "absent",
         GoTo(c, step), UNCHANGED <<now, tables, mails, local, overlap>>, UNCHANGED pool,
         step \in UserLocked => pc[c] \in UserLocked \/ UserRowFree(c)
  PROVE  AccountInv'
<1>0. TypeOK /\ c \in Calls /\ CallInv(c)
  BY DEF AccountInv, InFlight
<1>1. pc' = [pc EXCEPT ![c] = step] /\ pc'[c] = step
  BY <1>0 DEF GoTo, TypeOK
<1>2. step \in Steps /\ step \notin NotYet
  BY DEF Steps, TxSteps, NotYet, ConfirmLocked
<1>3. Link(c)'
  BY <1>0, <1>1, <1>2, LinkKept DEF CallInv
<1>4. /\ users'[local'[c].name] # "absent"
      /\ \A s \in sessions' : s.token = local'[c].token /\ s.by # c => Together(s.by, c)'
  BY <1>0 DEF CallInv, tables, Together
<1>5. CallInv(c)'
  BY <1>1, <1>3, <1>4 DEF CallInv, ConfirmRead, ConfirmLocked
<1>6. QED
  BY <1>0, <1>2, <1>5, KeepStep

LEMMA ConfirmMoves ==
  ASSUME NEW c \in Calls, AccountInv,
         ConfirmUser(c) \/ ConfirmUpdate(c) \/ ConfirmDelete(c) \/ ConfirmMint(c)
  PROVE  AccountInv'
<1>0. TypeOK /\ CallInv(c)
  BY DEF AccountInv
<1>1. CASE ConfirmUser(c)
  <2>1. c \in InFlight /\ UNCHANGED <<now, tables, mails, local, overlap>>
        /\ pc[c] \in ConfirmRead
    BY <1>1 DEF ConfirmUser, InFlight, Ended, ConfirmRead
  <2>2. CASE Release(c) /\ GoTo(c, "done")
    BY <2>1, <2>2, EndStep
  <2>3. CASE users[local[c].name] = "unconfirmed" /\ GoTo(c, "confirmUpdate") /\ UNCHANGED pool
    <3>1. "confirmUpdate" \in ConfirmLocked /\ "confirmUpdate" \notin UserLocked
      BY DEF ConfirmLocked, UserLocked
    <3>2. QED
      BY <2>1, <2>3, <3>1, ConfirmGoesOn
  <2>4. QED
    BY <1>1, <2>2, <2>3 DEF ConfirmUser
<1>2. CASE ConfirmUpdate(c)
  BY <1>0, <1>2, ConfirmGoesOn DEF ConfirmUpdate, CallInv, InFlight, Ended, ConfirmRead, ConfirmLocked
<1>3. CASE ConfirmDelete(c)
  BY <1>0, <1>3, ConfirmGoesOn
  DEF ConfirmDelete, CallInv, InFlight, Ended, ConfirmRead, ConfirmLocked, UserLocked
<1>4. CASE ConfirmMint(c)
  BY <1>0, <1>4, ConfirmGoesOn
  DEF ConfirmMint, CallInv, InFlight, Ended, ConfirmRead, ConfirmLocked, UserLocked
<1>5. QED
  BY <1>1, <1>2, <1>3, <1>4

-----------------------------------------------------------------------------
(* Forgot-password and reset *)

LEMMA ForgotLoadStep ==
  ASSUME NEW c \in Calls, NEW n \in Names, AccountInv, ForgotLoad(c, n)
  PROVE  AccountInv'
<1> DEFINE step == CASE users[n] # "active" -> "done"
                     [] ResetDebounce > 0 -> "forgotDebounce"
                     [] OTHER -> "forgotBegin"
<1>0. /\ TypeOK /\ StoredInv /\ Start(c, step) /\ Bind(c, n, NoToken) /\ UNCHANGED <<now, tables, mails>>
      /\ UNCHANGED pool
  BY DEF ForgotLoad, AccountInv
<1>1. step \in {"done", "forgotDebounce", "forgotBegin"} /\ (step = "forgotBegin" => ~(ResetDebounce > 0))
  OBVIOUS
<1>2. pc'[c] = step
  BY <1>0 DEF Start, GoTo, TypeOK
<1> HIDE DEF step
<1>3. CallInv(c)'
  <2>1. CASE step # "forgotBegin"
    BY <1>1, <1>2, <2>1, NothingKnown
  <2>2. CASE step = "forgotBegin"
    <3>1. ResetDebounce = 0
      BY <1>1, <2>2, ResetPeriods
    <3>2. \A s \in resets : s.created \in Nat /\ s.created <= now
      BY <1>0 DEF StoredInv, TypeOK, Token
    <3>3. Far(c, resets, ResetDebounce)'
      BY <1>0, <3>1, <3>2 DEF Far, tables
    <3>4. QED
      BY <1>2, <2>2, <3>3 DEF CallInv, ConfirmRead, ConfirmLocked
  <2>3. QED
    BY <2>1, <2>2
<1>4. step \in Steps /\ step \notin UserLocked /\ NoToken \in Token \union {NoToken}
  BY <1>1 DEF Steps, Ended, UserLocked
<1>5. QED
  BY <1>0, <1>3, <1>4, StartStep

\* A query for the tokens of a period that finds none.
LEMMA NoneValid ==
  ASSUME NEW c \in Calls, NEW p \in Nat, p <= ResetValidity, TypeOK, StoredInv,
         Valid(resets, local[c].name, now - p) = {}
  PROVE  \A s \in resets : s.name = local[c].name => s.created + p <= now
<1>1. ASSUME NEW s \in resets, s.name = local[c].name PROVE s.created + p <= now
  <2>1. ~(s.created > now - p /\ s.until > now)
    BY <1>1 DEF Valid
  <2>2. s.created \in Nat /\ s.until = s.created + ResetValidity /\ now \in Nat
    BY <1>1 DEF StoredInv, TypeOK, Token
  <2>3. QED
    BY <2>1, <2>2, ResetPeriods
<1>2. QED
  BY <1>1

LEMMA ForgotDebounceStep ==
  ASSUME NEW c \in Calls, AccountInv, ForgotDebounce(c)
  PROVE  AccountInv'
<1>0. /\ TypeOK /\ StoredInv /\ pc[c] = "forgotDebounce" /\ c \in InFlight
      /\ UNCHANGED <<now, tables, mails, local, overlap>> /\ UNCHANGED pool
  BY DEF ForgotDebounce, AccountInv, InFlight, Ended
<1>1. CASE GoTo(c, "done")
  BY <1>0, <1>1, EndStep
<1>2. CASE GoTo(c, "forgotBegin") /\ Valid(resets, local[c].name, now - ResetDebounce) = {}
  <2>1. Far(c, resets, ResetDebounce)'
    BY <1>0, <1>2, NoneValid, ResetPeriods DEF Far, tables
  <2>2. pc'[c] = "forgotBegin"
    BY <1>0, <1>2 DEF GoTo, TypeOK
  <2>3. CallInv(c)'
    BY <2>1, <2>2 DEF CallInv, ConfirmRead, ConfirmLocked
  <2>4. "forgotBegin" \in Steps /\ "forgotBegin" \notin UserLocked /\ "forgotBegin" \notin NotYet
    BY DEF Steps, UserLocked, NotYet
  <2>5. QED
    BY <1>0, <1>2, <2>3, <2>4, KeepStep
<1>3. QED
  BY <1>1, <1>2 DEF ForgotDebounce

LEMMA ForgotBeginStep ==
  ASSUME NEW c \in Calls, AccountInv, ForgotBegin(c)
  PROVE  AccountInv'
<1>0. /\ TypeOK /\ CallInv(c) /\ pc[c] = "forgotBegin" /\ c \in InFlight
      /\ UNCHANGED <<now, tables, mails, local, overlap>> /\ Acquire(c) /\ GoTo(c, "forgotReuse")
  BY DEF ForgotBegin, AccountInv, InFlight, Ended
<1>1. Far(c, resets, ResetDebounce)'
  BY <1>0 DEF CallInv, Far, Together, tables
<1>2. pc'[c] = "forgotReuse"
  BY <1>0 DEF GoTo, TypeOK
<1>3. CallInv(c)'
  BY <1>1, <1>2 DEF CallInv, ConfirmRead, ConfirmLocked
<1>4. "forgotReuse" \in Steps /\ "forgotReuse" \notin UserLocked /\ "forgotReuse" \notin NotYet
  BY DEF Steps, TxSteps, UserLocked, NotYet
<1>5. QED
  BY <1>0, <1>3, <1>4, KeepStep

LEMMA ForgotReuseStep ==
  ASSUME NEW c \in Calls, AccountInv, ForgotReuse(c)
  PROVE  AccountInv'
<1>0. /\ TypeOK /\ CallInv(c) /\ StoredInv /\ pc[c] = "forgotReuse" /\ c \in InFlight
      /\ UNCHANGED <<now, tables, mails, pool, overlap>>
  BY DEF ForgotReuse, AccountInv, InFlight, Ended
<1>1. ASSUME NEW t \in Valid(resets, local[c].name, now - ResetReuse),
             Bind(c, local[c].name, t), GoTo(c, "forgotCommit")
      PROVE  AccountInv'
  <2>1. /\ t \in resets /\ t \in Token /\ t.name = local[c].name /\ t.created > now - ResetReuse
        /\ t.created \in Nat /\ t.until = t.created + ResetValidity /\ now \in Nat
    BY <1>0, <1>1 DEF Valid, StoredInv, TypeOK, Token
  <2>2. local'[c].name = local[c].name /\ local'[c].token = t /\ local'[c].at = now
    BY <1>0, <1>1, Bound
  <2>3. t.until - now > ResetValidity - ResetReuse
    BY <2>1, ResetPeriods
  <2>4. Chosen(c)'
    BY <2>2, <2>3 DEF Chosen
  <2>5. pc'[c] = "forgotCommit" /\ local'[c].token \in resets' /\ local'[c].token.name = local'[c].name
    BY <1>0, <1>1, <2>1, <2>2 DEF GoTo, TypeOK, tables
  <2>6. CallInv(c)'
    BY <2>4, <2>5 DEF CallInv, ConfirmRead, ConfirmLocked
  <2>7. "forgotCommit" \in Steps /\ "forgotCommit" \notin UserLocked /\ "forgotCommit" \notin NotYet
    BY DEF Steps, TxSteps, UserLocked, NotYet
  <2>8. QED
    BY <1>0, <1>1, <2>1, <2>6, <2>7, BindStep
<1>2. CASE /\ Valid(resets, local[c].name, now - ResetReuse) = {}
           /\ GoTo(c, "forgotInsert") /\ UNCHANGED local
  <2>1. Far(c, resets, ResetReuse)'
    BY <1>0, <1>2, NoneValid, ResetPeriods DEF Far, tables
  <2>2. Far(c, resets, ResetDebounce)'
    BY <1>0, <1>2 DEF CallInv, Far, Together, tables
  <2>3. pc'[c] = "forgotInsert"
    BY <1>0, <1>2 DEF GoTo, TypeOK
  <2>4. CallInv(c)'
    BY <2>1, <2>2, <2>3 DEF CallInv, ConfirmRead, ConfirmLocked
  <2>5. "forgotInsert" \in Steps /\ "forgotInsert" \notin UserLocked /\ "forgotInsert" \notin NotYet
    BY DEF Steps, TxSteps, UserLocked, NotYet
  <2>6. QED
    BY <1>0, <1>2, <2>4, <2>5, KeepStep
<1>3. QED
  BY <1>1, <1>2 DEF ForgotReuse

LEMMA ForgotInsertStep ==
  ASSUME NEW c \in Calls, AccountInv, ForgotInsert(c)
  PROVE  AccountInv'
<1> DEFINE t == NewToken(c, ResetValidity)
<1>0. /\ TypeOK /\ CallInv(c) /\ StoredInv /\ pc[c] = "forgotInsert" /\ c \in InFlight
      /\ Bind(c, local[c].name, t) /\ GoTo(c, "forgotCommit")
      /\ UNCHANGED <<now, tables, mails, pool, overlap>>
  BY DEF ForgotInsert, AccountInv, InFlight, Ended
<1>1. t \in Token /\ t.created = now
  BY <1>0, NewTokenIsToken, ResetPeriods DEF NewToken
<1>2. local'[c].name = local[c].name /\ local'[c].token = t /\ local'[c].at = now
  BY <1>0, Bound
<1>3. OwnToken(c, ResetValidity)'
  BY <1>0, <1>1, <1>2 DEF OwnToken, NewToken, TypeOK
<1>4. Apart(c)'
  BY <1>0, <1>1, <1>2 DEF Apart, CallInv, Far, Together, tables
<1>5. Chosen(c)' /\ pc'[c] = "forgotCommit"
  BY <1>0, <1>1, <1>2 DEF Chosen, GoTo, TypeOK
<1>6. CallInv(c)'
  BY <1>3, <1>4, <1>5 DEF CallInv, ConfirmRead, ConfirmLocked
<1>7. "forgotCommit" \in Steps /\ "forgotCommit" \notin UserLocked /\ "forgotCommit" \notin NotYet
  BY DEF Steps, TxSteps, UserLocked, NotYet
<1>8. QED
  BY <1>0, <1>1, <1>6, <1>7, BindStep

LEMMA ResetSteps ==
  ASSUME NEW c \in Calls, AccountInv,
         (\E m \in mails : ResetLoad(c, m.token)) \/ ResetChange(c)
  PROVE  AccountInv'
<1>0. TypeOK
  BY DEF AccountInv
<1>1. ASSUME NEW m \in mails, ResetLoad(c, m.token) PROVE AccountInv'
  <2>1. PICK step \in {"resetChange", "done"} :
           Start(c, step) /\ Bind(c, m.token.name, m.token) /\ UNCHANGED <<now, tables, mails>>
           /\ UNCHANGED pool
    BY <1>1 DEF ResetLoad
  <2>2. m.token \in Token /\ m.token.name \in Names
    BY <1>0 DEF TypeOK, Token
  <2>3. CallInv(c)'
    BY <1>0, <2>1, NothingKnown DEF Start, GoTo, TypeOK
  <2>4. step \in Steps /\ step \notin UserLocked
    BY DEF Steps, Ended, UserLocked
  <2>5. QED
    BY <2>1, <2>2, <2>3, <2>4, StartStep
<1>2. CASE ResetChange(c)
  BY <1>2, EndStep DEF ResetChange, InFlight, Ended
<1>3. QED
  BY <1>1, <1>2

LEMMA CallFailsStep ==
  ASSUME NEW c \in Calls, AccountInv, CallFails(c)
  PROVE  AccountInv'
BY EndStep DEF CallFails, Rollback

-----------------------------------------------------------------------------
(* Steps that write a table *)

\* The call writes rows of its own, and a status only while it holds the row.
LEMMA QuietWrite ==
  ASSUME NEW c \in InFlight, NEW d \in Calls \ {c}, NEW step, NEW status, TypeOK, PairsInv,
         pc' = [pc EXCEPT ![c] = step], step \notin NotYet, local'[d] = local[d],
         now' = now, overlap' = overlap, unsaved \subseteq unsaved', resets \subseteq resets',
         \A s \in sessions' \ sessions : s.by = c,
         \A t \in (confirmations' \ confirmations) \union (resets' \ resets) : t.by = c,
         \/ users' = users
         \/ /\ users' = [users EXCEPT ![local[c].name] = status]
            /\ status # "absent" /\ pc[c] \in UserLocked
  PROVE  Quiet(d)
<1>0. c \in Calls /\ pc'[d] = pc[d] /\ now \in Nat
  BY DEF InFlight, TypeOK
<1>1. d \in InFlight => Together(c, d)
  BY <1>0 DEF PairsInv
<1>2. \A e \in Calls : pc[e] \notin NotYet => pc'[e] \notin NotYet
  BY <1>0 DEF TypeOK
<1>3. /\ users[local[d].name] # "absent" => users'[local[d].name] # "absent"
      /\ pc[d] \in UserLocked => users'[local[d].name] = users[local[d].name]
  <2>1. pc[c] \in UserLocked /\ pc[d] \in UserLocked => local[c].name # local[d].name
    BY <1>0 DEF PairsInv
  <2>2. local[d].name \in Names /\ local[c].name \in Names /\ users \in [Names -> Status]
    BY <1>0 DEF TypeOK
  <2>3. QED
    BY <2>1, <2>2
<1>4. QED
  BY <1>0, <1>1, <1>2, <1>3 DEF Quiet

\* The pairs when a call in flight goes on without locking anything new.
LEMMA PairsWrite ==
  ASSUME NEW c \in InFlight, NEW step, TypeOK, PairsInv,
         pc' = [pc EXCEPT ![c] = step], step \notin UserLocked, overlap' = overlap,
         \A d \in Calls \ {c} : local'[d] = local[d]
  PROVE  PairsInv'
<1>1. c \in Calls
  BY DEF InFlight
<1>2. \A d \in InFlight \ {c} : Together(c, d)'
  BY <1>1 DEF PairsInv, InFlight, Together
<1>3. Moves(c, step)
  BY <1>2 DEF Moves
<1>4. QED
  BY <1>1, <1>3, PairsKept

LEMMA ResendStep ==
  ASSUME NEW c \in Calls, AccountInv, Resend(c)
  PROVE  AccountInv'
<1> DEFINE t == NewToken(c, ConfirmValidity)
<1>0. /\ TypeOK /\ CallInv(c) /\ StoredInv /\ PropertiesInv /\ PairsInv
      /\ pc[c] = "resend" /\ c \in InFlight
      /\ confirmations' = confirmations \union {t} /\ Bind(c, local[c].name, t)
      /\ pc' = [pc EXCEPT ![c] = "mailConfirmation"]
      /\ UNCHANGED <<now, users, resets, sessions, unsaved, pool, mails, overlap>>
  BY DEF Resend, AccountInv, InFlight, Ended, GoTo
<1>1. /\ t \in Token /\ t.by = c /\ t.name = local[c].name /\ t.created = now
      /\ t.until = now + ConfirmValidity
  BY <1>0, NewTokenIsToken, ConfirmPeriods DEF NewToken
<1>2. /\ local'[c].name = local[c].name /\ local'[c].token = t
      /\ \A d \in Calls \ {c} : local'[d] = local[d]
  BY <1>0, Bound DEF Bind, TypeOK
<1> HIDE DEF t
<1>3. "mailConfirmation" \in Steps /\ "mailConfirmation" \notin NotYet
      /\ "mailConfirmation" \notin UserLocked
  BY DEF Steps, NotYet, UserLocked
<1>4. TypeOK'
  BY <1>0, <1>1, <1>3 DEF TypeOK, Bind
<1>5. \A d \in Calls \ {c} : Quiet(d)
  BY <1>0, <1>1, <1>2, <1>3, QuietWrite
<1>6. PairsInv'
  BY <1>0, <1>2, <1>3, PairsWrite
<1>7. \A x : Issued(x) => Issued(x)'
  BY <1>0, <1>3 DEF Issued, TypeOK
<1>8. StoredInv'
  BY <1>0, <1>1, <1>7 DEF StoredInv, TypeOK
<1>9. PropertiesInv'
  <2>1. \A s \in sessions : s.token # t
    BY <1>0, <1>1 DEF StoredInv, Issued, NotYet
  <2>2. users[local[c].name] # "absent"
    BY <1>0 DEF CallInv
  <2>3. ActivationAtomic'
    BY <1>0, <1>1, <2>1, <2>2 DEF PropertiesInv, ActivationAtomic, Earlier
  <2>4. ConfirmedOnce' /\ ResetTokensApart' /\ MailedLinkLives'
    BY <1>0 DEF PropertiesInv, ConfirmedOnce, ResetTokensApart, MailedLinkLives, Together
  <2>5. ConfirmationTokensApart'
    <3>1. \A s \in confirmations : s.name = t.name =>
            /\ s.created \in Nat /\ s.created <= now
            /\ Together(s.by, c) \/ s.created + ConfirmDebounce <= now
      BY <1>0, <1>1 DEF CallInv, Far, StoredInv, TypeOK, Token
    <3>2. ASSUME NEW s \in confirmations, s.name = t.name
          PROVE  /\ s.created <= t.created /\ t.created - s.created < ConfirmDebounce
                     => Together(s.by, t.by)
                 /\ t.created <= s.created /\ s.created - t.created < ConfirmDebounce
                     => Together(t.by, s.by)
      <4>1. Together(s.by, c) => Together(c, s.by)
        BY DEF Together
      <4>2. now \in Nat
        BY <1>0 DEF TypeOK
      <4>3. QED
        BY <1>1, <3>1, <3>2, <4>1, <4>2, ConfirmPeriods
    <3>3. \A x, y : Together(x, y) <=> Together(x, y)'
      BY <1>0 DEF Together
    <3>4. ConfirmationTokensApart
      BY <1>0 DEF PropertiesInv
    <3>5. QED
      BY <1>0, <3>2, <3>3, <3>4 DEF ConfirmationTokensApart
  <2>6. QED
    BY <2>3, <2>4, <2>5 DEF PropertiesInv
<1>10. CallInv(c)'
  <2>1. pc'[c] = "mailConfirmation"
    BY <1>0 DEF TypeOK
  <2>2. Link(c)'
    BY <1>1, <1>2, <2>1 DEF Link, Issued, NotYet
  <2>3. QED
    BY <2>1, <2>2 DEF CallInv, ConfirmRead, ConfirmLocked
<1>11. QED
  BY <1>4, <1>5, <1>6, <1>8, <1>9, <1>10, StepOf

LEMMA CommitRegisterStep ==
  ASSUME NEW c \in Calls, AccountInv, CommitRegister(c)
  PROVE  AccountInv'
<1> DEFINE status == IF RequiresConfirmation THEN "unconfirmed" ELSE "active"
           step == IF RequiresConfirmation THEN "mailConfirmation" ELSE "done"
           n == local[c].name
           new == {local[c].token} \ {NoToken}
<1>0. /\ TypeOK /\ CallInv(c) /\ StoredInv /\ PropertiesInv /\ PairsInv
      /\ pc[c] = "commitRegister" /\ c \in InFlight /\ pc[c] \in UserLocked
      /\ users' = [users EXCEPT ![n] = status]
      /\ confirmations' = confirmations \union new
      /\ pc' = [pc EXCEPT ![c] = step] /\ Release(c)
      /\ UNCHANGED <<now, resets, sessions, unsaved, local, mails, overlap>>
  BY DEF CommitRegister, AccountInv, InFlight, Ended, GoTo, UserLocked
<1>1. users[n] = "absent" /\ n \in Names
  BY <1>0 DEF CallInv, TypeOK
<1>2. ASSUME NEW t \in new
      PROVE  /\ RequiresConfirmation /\ t = local[c].token /\ t \in Token /\ t.by = c /\ t.name = n
             /\ t.created <= now /\ t.until = t.created + ConfirmValidity
  BY <1>0, <1>2 DEF CallInv, OwnToken
<1>3. /\ step \in Steps /\ step \notin NotYet /\ step \notin UserLocked
      /\ status \in Status /\ status # "absent"
  BY DEF Steps, Ended, NotYet, UserLocked, Status
<1> HIDE DEF status, step
<1>4. TypeOK'
  <2>1. pool' \in [limit : Limits, held : SUBSET Calls]
    BY <1>0, PoolTyped
  <2>2. new \subseteq Token
    BY <1>2
  <2>3. QED
    BY <1>0, <1>3, <2>1, <2>2 DEF TypeOK
<1>5. \A d \in Calls \ {c} : Quiet(d)
  <2>1. \A t \in (confirmations' \ confirmations) \union (resets' \ resets) : t.by = c
    BY <1>0, <1>2
  <2>2. QED
    BY <1>0, <1>3, <2>1, QuietWrite
<1>6. PairsInv'
  BY <1>0, <1>3, PairsWrite
<1>7. \A x : Issued(x) => Issued(x)'
  BY <1>0, <1>3 DEF Issued, TypeOK
<1>8. StoredInv'
  BY <1>0, <1>2, <1>7 DEF StoredInv
<1>9. PropertiesInv'
  <2>1. \A s \in sessions : s.token.name # n
    BY <1>0, <1>1 DEF PropertiesInv, ActivationAtomic
  <2>2. \A t \in confirmations : t.name # n
    BY <1>0, <1>1 DEF PropertiesInv, ActivationAtomic
  <2>3. \A x \in Names : users'[x] = IF x = n THEN status ELSE users[x]
    BY <1>0 DEF TypeOK
  <2>4. \A t \in Token : t.name \in Names
    BY DEF Token
  <2>5. ActivationAtomic'
    <3>1. \A s \in sessions : users'[s.token.name] = "active" /\ s.token \notin confirmations'
      BY <1>0, <1>2, <2>1, <2>3, <2>4 DEF PropertiesInv, ActivationAtomic, TypeOK
    <3>2. \A t \in confirmations' : users'[t.name] # "absent"
      BY <1>0, <1>2, <1>3, <2>2, <2>3, <2>4 DEF PropertiesInv, ActivationAtomic, TypeOK
    <3>3. ASSUME RequiresConfirmation, NEW x \in Names, users'[x] = "active", ~Earlier(x)'
          PROVE  \E s \in sessions : s.token.name = x
      <4>1. users[x] = "active"
        BY <2>3, <3>3 DEF status
      <4>2. ~Earlier(x)
        BY <1>0, <3>3 DEF Earlier
      <4>3. QED
        BY <1>0, <3>3, <4>1, <4>2 DEF PropertiesInv, ActivationAtomic
    <3>4. QED
      BY <1>0, <3>1, <3>2, <3>3 DEF ActivationAtomic
  <2>6. ConfirmedOnce' /\ ResetTokensApart' /\ MailedLinkLives'
    BY <1>0 DEF PropertiesInv, ConfirmedOnce, ResetTokensApart, MailedLinkLives, Together
  <2>7. ConfirmationTokensApart'
    <3>1. \A x, y : Together(x, y) <=> Together(x, y)'
      BY <1>0 DEF Together
    <3>2. ConfirmationTokensApart
      BY <1>0 DEF PropertiesInv
    <3>3. \A t \in new : t.name = n /\ t.by = c
      BY <1>2
    <3>4. QED
      BY <1>0, <2>2, <3>1, <3>2, <3>3 DEF ConfirmationTokensApart
  <2>8. QED
    BY <2>5, <2>6, <2>7 DEF PropertiesInv
<1>10. CallInv(c)'
  <2>1. pc'[c] = step
    BY <1>0 DEF TypeOK
  <2>2. CASE RequiresConfirmation
    <3>1. step = "mailConfirmation"
      BY <2>2 DEF step
    <3>2. OwnToken(c, ConfirmValidity)
      BY <1>0, <2>2 DEF CallInv
    <3>3. Link(c)'
      BY <1>0, <2>1, <3>1, <3>2 DEF Link, OwnToken, Issued, NotYet
    <3>4. QED
      BY <2>1, <3>1, <3>3 DEF CallInv, ConfirmRead, ConfirmLocked
  <2>3. CASE ~RequiresConfirmation
    <3>1. step = "done"
      BY <2>3 DEF step
    <3>2. QED
      BY <2>1, <3>1, NothingKnown
  <2>4. QED
    BY <2>2, <2>3
<1>11. QED
  BY <1>4, <1>5, <1>6, <1>8, <1>9, <1>10, StepOf

LEMMA MailStep ==
  ASSUME NEW c \in Calls, AccountInv, Mail(c)
  PROVE  AccountInv'
<1> DEFINE m == [kind |-> IF pc[c] = "mailReset" THEN "reset" ELSE "confirmation",
                 token |-> local[c].token, at |-> local[c].at]
<1>0. /\ TypeOK /\ CallInv(c) /\ StoredInv /\ PropertiesInv /\ PairsInv
      /\ pc[c] \in {"mailConfirmation", "mailReset"} /\ c \in InFlight
      /\ pc' = [pc EXCEPT ![c] = "done"]
      /\ UNCHANGED <<now, tables, pool, local, overlap>>
  BY DEF Mail, AccountInv, InFlight, Ended, GoTo
<1>1. /\ mails' = mails \union {m} /\ m.token = local[c].token /\ m.at = local[c].at
      /\ m.kind = IF pc[c] = "mailReset" THEN "reset" ELSE "confirmation"
  BY <1>0 DEF Mail
<1>2. Link(c)
  BY <1>0 DEF CallInv
<1>3. "done" \in Steps /\ "done" \notin NotYet /\ "done" \notin UserLocked
  BY DEF Steps, Ended, NotYet, UserLocked
<1>4. TypeOK'
  <2>1. m \in [kind : {"confirmation", "reset"}, token : Token, at : Nat]
    BY <1>0, <1>1, <1>2 DEF Link, TypeOK
  <2> HIDE DEF m
  <2>2. QED
    BY <1>0, <1>1, <1>3, <2>1 DEF TypeOK, tables
<1>5. \A d \in Calls \ {c} : Quiet(d)
  BY <1>0, <1>3, QuietWrite DEF tables
<1>6. PairsInv'
  BY <1>0, <1>3, PairsWrite
<1>7. \A x : Issued(x) => Issued(x)'
  BY <1>0, <1>3 DEF Issued, TypeOK
<1>8. StoredInv'
  BY <1>0, <1>1, <1>2, <1>7 DEF StoredInv, Link, tables
<1>9. PropertiesInv'
  <2>1. ActivationAtomic' /\ ConfirmedOnce' /\ ResetTokensApart' /\ ConfirmationTokensApart'
    BY <1>0 DEF PropertiesInv, ActivationAtomic, Earlier, ConfirmedOnce, ResetTokensApart,
       ConfirmationTokensApart, Together, tables
  <2>2. m.kind = "reset" =>
          /\ m.token \in resets \/ m.token.by \in unsaved
          /\ m.at = m.token.created \/ m.token.until - m.at > ResetValidity - ResetReuse
    BY <1>0, <1>1 DEF CallInv, Chosen
  <2>3. MailedLinkLives'
    BY <1>0, <1>1, <2>2 DEF PropertiesInv, MailedLinkLives, tables
  <2>4. QED
    BY <2>1, <2>3 DEF PropertiesInv
<1>10. CallInv(c)'
  BY <1>0, NothingKnown DEF TypeOK
<1>11. QED
  BY <1>4, <1>5, <1>6, <1>8, <1>9, <1>10, StepOf

LEMMA ConfirmCommitStep ==
  ASSUME NEW c \in Calls, AccountInv, ConfirmCommit(c)
  PROVE  AccountInv'
<1> DEFINE n == local[c].name
           t == local[c].token
           new == [by |-> c, token |-> t]
<1>0. /\ TypeOK /\ CallInv(c) /\ StoredInv /\ PropertiesInv /\ PairsInv
      /\ pc[c] = "confirmCommit" /\ c \in InFlight /\ pc[c] \in UserLocked
      /\ users' = [users EXCEPT ![n] = "active"]
      /\ confirmations' = confirmations \ {t}
      /\ sessions' = sessions \union {new}
      /\ pc' = [pc EXCEPT ![c] = "done"] /\ Release(c)
      /\ UNCHANGED <<now, resets, unsaved, local, mails, overlap>>
  BY DEF ConfirmCommit, AccountInv, InFlight, Ended, GoTo, UserLocked
<1>1. /\ Link(c) /\ t \in Token /\ t.name = n /\ n \in Names /\ Issued(t)
      /\ \A s \in sessions : s.token = t /\ s.by # c => Together(s.by, c)
  BY <1>0 DEF CallInv, ConfirmRead, ConfirmLocked, Link, TypeOK
<1>2. "done" \in Steps /\ "done" \notin NotYet /\ "done" \notin UserLocked
  BY DEF Steps, Ended, NotYet, UserLocked
<1>3. TypeOK'
  <2>1. pool' \in [limit : Limits, held : SUBSET Calls]
    BY <1>0, PoolTyped
  <2>2. new \in [by : Calls, token : Token] /\ "active" \in Status
    BY <1>1 DEF Status
  <2>3. QED
    BY <1>0, <1>2, <2>1, <2>2 DEF TypeOK
<1>4. \A d \in Calls \ {c} : Quiet(d)
  <2>1. \A s \in sessions' \ sessions : s.by = c
    BY <1>0
  <2>2. (confirmations' \ confirmations) \union (resets' \ resets) = {}
    BY <1>0
  <2>3. QED
    BY <1>0, <1>2, <2>1, <2>2, QuietWrite
<1>5. PairsInv'
  BY <1>0, <1>2, PairsWrite
<1>6. \A x : Issued(x) => Issued(x)'
  BY <1>0, <1>2 DEF Issued, TypeOK
<1>7. StoredInv'
  BY <1>0, <1>1, <1>6 DEF StoredInv
<1>8. PropertiesInv'
  <2>1. \A x \in Names : users'[x] = IF x = n THEN "active" ELSE users[x]
    BY <1>0 DEF TypeOK
  <2>2. \A x \in Token : x.name \in Names
    BY DEF Token
  <2>3. ActivationAtomic'
    <3>1. \A s \in sessions' : users'[s.token.name] = "active" /\ s.token \notin confirmations'
      BY <1>0, <1>1, <2>1, <2>2 DEF PropertiesInv, ActivationAtomic, TypeOK
    <3>2. \A x \in confirmations' : users'[x.name] # "absent"
      BY <1>0, <2>1, <2>2 DEF PropertiesInv, ActivationAtomic, TypeOK
    <3>3. ASSUME RequiresConfirmation, NEW x \in Names, users'[x] = "active", ~Earlier(x)'
          PROVE  \E s \in sessions' : s.token.name = x
      <4>1. CASE x = n
        <5>1. new \in sessions' /\ new.token.name = x
          BY <1>0, <1>1, <4>1
        <5>2. QED
          BY <5>1
      <4>2. CASE x # n
        <5>1. users[x] = "active" /\ ~Earlier(x)
          BY <1>0, <2>1, <3>3, <4>2 DEF Earlier
        <5>2. QED
          BY <1>0, <3>3, <5>1 DEF PropertiesInv, ActivationAtomic
      <4>3. QED
        BY <4>1, <4>2
    <3>4. QED
      BY <3>1, <3>2, <3>3 DEF ActivationAtomic
  <2>4. ConfirmedOnce'
    <3>1. \A x, y : Together(x, y) => Together(x, y)' /\ Together(y, x)'
      BY <1>0 DEF Together
    <3>2. new.by = c /\ new.token = t
      OBVIOUS
    <3> HIDE DEF new
    <3>3. QED
      BY <1>0, <1>1, <3>1, <3>2 DEF PropertiesInv, ConfirmedOnce
  <2>5. ResetTokensApart' /\ MailedLinkLives'
    BY <1>0 DEF PropertiesInv, ResetTokensApart, MailedLinkLives, Together
  <2>6. ConfirmationTokensApart'
    BY <1>0 DEF PropertiesInv, ConfirmationTokensApart, Together
  <2>7. QED
    BY <2>3, <2>4, <2>5, <2>6 DEF PropertiesInv
<1>9. CallInv(c)'
  BY <1>0, NothingKnown DEF TypeOK
<1>10. QED
  BY <1>3, <1>4, <1>5, <1>7, <1>8, <1>9, StepOf

LEMMA ForgotCommitStep ==
  ASSUME NEW c \in Calls, AccountInv, ForgotCommit(c)
  PROVE  AccountInv'
<1> DEFINE t == local[c].token
<1>0. /\ TypeOK /\ CallInv(c) /\ StoredInv /\ PropertiesInv /\ PairsInv
      /\ pc[c] = "forgotCommit" /\ c \in InFlight
      /\ resets' = resets \union {t}
      /\ pc' = [pc EXCEPT ![c] = "mailReset"] /\ Release(c)
      /\ UNCHANGED <<now, users, confirmations, sessions, unsaved, local, mails, overlap>>
  BY DEF ForgotCommit, AccountInv, InFlight, Ended, GoTo
<1>1. /\ Chosen(c)
      /\ (t \in resets /\ t.name = local[c].name) \/ (OwnToken(c, ResetValidity) /\ Apart(c))
  BY <1>0 DEF CallInv
<1>2. "mailReset" \in Steps /\ "mailReset" \notin NotYet /\ "mailReset" \notin UserLocked
  BY DEF Steps, NotYet, UserLocked
<1>3. /\ t \in Token /\ t.name = local[c].name
      /\ t.created <= now /\ t.until = t.created + ResetValidity
      /\ t \notin resets => t.by = c
  BY <1>0, <1>1 DEF StoredInv, OwnToken, TypeOK
<1>4. \A x : Issued(x) => Issued(x)'
  BY <1>0, <1>2 DEF Issued, TypeOK
<1>5. Issued(t)'
  <2>1. CASE t \in resets
    BY <1>0, <1>4, <2>1 DEF StoredInv
  <2>2. CASE t \notin resets
    BY <1>0, <1>2, <1>3, <2>2 DEF Issued, TypeOK
  <2>3. QED
    BY <2>1, <2>2
<1>6. TypeOK'
  <2>1. pool' \in [limit : Limits, held : SUBSET Calls]
    BY <1>0, PoolTyped
  <2>2. QED
    BY <1>0, <1>2, <1>3, <2>1 DEF TypeOK
<1>7. \A d \in Calls \ {c} : Quiet(d)
  BY <1>0, <1>2, <1>3, QuietWrite
<1>8. PairsInv'
  BY <1>0, <1>2, PairsWrite
<1>9. StoredInv'
  BY <1>0, <1>3, <1>4, <1>5 DEF StoredInv
<1>10. ResetTokensApart'
  <2>1. CASE t \in resets
    <3>1. resets' = resets
      BY <1>0, <2>1
    <3>2. QED
      BY <1>0, <3>1 DEF PropertiesInv, ResetTokensApart, Together
  <2>2. CASE t \notin resets
    <3>1. t.by = c /\ Apart(c) /\ t.created \in Nat
      BY <1>1, <1>3, <2>2 DEF Token
    <3>2. ASSUME NEW s \in resets, s.name = t.name
          PROVE  /\ (/\ s.created <= t.created
                     /\ t.created - s.created < ResetDebounce \/ t.created - s.created < ResetReuse)
                     => Together(s.by, t.by)
                 /\ (/\ t.created <= s.created
                     /\ s.created - t.created < ResetDebounce \/ s.created - t.created < ResetReuse)
                     => Together(t.by, s.by)
      <4>1. Together(s.by, c) => Together(c, s.by)
        BY DEF Together
      <4>2. s.created \in Nat
        BY <1>0, <3>2 DEF TypeOK, Token
      <4>3. \/ Together(s.by, c)
            \/ s.created + ResetDebounce <= t.created /\ s.created + ResetReuse <= t.created
        BY <1>3, <3>1, <3>2 DEF Apart
      <4>4. QED
        BY <3>1, <4>1, <4>2, <4>3, ResetPeriods
    <3>3. \A x, y : Together(x, y) <=> Together(x, y)'
      BY <1>0 DEF Together
    <3>4. ResetTokensApart
      BY <1>0 DEF PropertiesInv
    <3> HIDE DEF t
    <3>5. QED
      BY <1>0, <3>2, <3>3, <3>4 DEF ResetTokensApart
  <2>3. QED
    BY <2>1, <2>2
<1>11. PropertiesInv'
  BY <1>0, <1>10 DEF PropertiesInv, ActivationAtomic, Earlier, ConfirmedOnce, ConfirmationTokensApart,
     MailedLinkLives, Together
<1>12. CallInv(c)'
  <2>1. pc'[c] = "mailReset" /\ Link(c)' /\ Chosen(c)' /\ local'[c].token \in resets'
    BY <1>0, <1>1, <1>3, <1>5 DEF Link, Issued, Chosen, TypeOK
  <2>2. QED
    BY <2>1 DEF CallInv, ConfirmRead, ConfirmLocked
<1>13. QED
  BY <1>6, <1>7, <1>8, <1>9, <1>11, <1>12, StepOf

\* A COMMIT that fails stores nothing; a token it was to store may be mailed.
LEMMA CommitFailsStep ==
  ASSUME NEW c \in Calls, AccountInv, CommitFails(c)
  PROVE  AccountInv'
<1>0. /\ TypeOK /\ CallInv(c) /\ StoredInv /\ PropertiesInv /\ PairsInv
      /\ c \in InFlight /\ Release(c) /\ unsaved' = unsaved \union {c}
      /\ UNCHANGED <<now, users, confirmations, resets, sessions, local, mails, overlap>>
  BY DEF CommitFails, AccountInv, InFlight, Ended
<1>1. PICK step \in {"mailConfirmation", "mailReset", "done"} :
        /\ pc' = [pc EXCEPT ![c] = step]
        /\ step = "mailConfirmation" => pc[c] = "commitRegister" /\ RequiresConfirmation
        /\ step = "mailReset" => pc[c] = "forgotCommit"
  BY DEF CommitFails, GoTo
<1>2. step \in Steps /\ step \notin NotYet /\ step \notin UserLocked
  BY DEF Steps, Ended, NotYet, UserLocked
<1>3. pc'[c] = step /\ c \in Calls
  BY <1>0, <1>1 DEF TypeOK
<1>4. TypeOK'
  <2>1. pool' \in [limit : Limits, held : SUBSET Calls]
    BY <1>0, PoolTyped
  <2>2. QED
    BY <1>0, <1>1, <1>2, <2>1 DEF TypeOK
<1>5. \A d \in Calls \ {c} : Quiet(d)
  BY <1>0, <1>1, <1>2, QuietWrite
<1>6. PairsInv'
  BY <1>0, <1>1, <1>2, PairsWrite
<1>7. \A x : Issued(x) => Issued(x)'
  BY <1>0, <1>1, <1>2 DEF Issued, TypeOK
<1>8. StoredInv'
  BY <1>0, <1>7 DEF StoredInv
<1>9. PropertiesInv'
  BY <1>0 DEF PropertiesInv, ActivationAtomic, Earlier, ConfirmedOnce, ResetTokensApart,
     ConfirmationTokensApart, MailedLinkLives, Together
<1>10. CallInv(c)'
  <2>1. CASE step = "done"
    BY <1>3, <2>1, NothingKnown
  <2>2. CASE step = "mailConfirmation"
    <3>1. OwnToken(c, ConfirmValidity)
      BY <1>0, <1>1, <2>2 DEF CallInv
    <3>2. Link(c)'
      BY <1>0, <1>2, <1>3, <3>1 DEF Link, OwnToken, Issued
    <3>3. QED
      BY <1>3, <2>2, <3>2 DEF CallInv, ConfirmRead, ConfirmLocked
  <2>3. CASE step = "mailReset"
    <3>1. /\ Chosen(c)
          /\ \/ local[c].token \in resets /\ local[c].token.name = local[c].name
             \/ OwnToken(c, ResetValidity)
      BY <1>0, <1>1, <2>3 DEF CallInv
    <3>2. local[c].token \in Token /\ local[c].token.name = local[c].name
          /\ (local[c].token \in resets \/ local[c].token.by = c)
      BY <1>0, <3>1 DEF OwnToken, TypeOK
    <3>3. Issued(local[c].token)'
      <4>1. CASE local[c].token \in resets
        BY <1>0, <1>7, <4>1 DEF StoredInv, Issued
      <4>2. CASE local[c].token.by = c
        BY <1>0, <1>2, <1>3, <4>2 DEF Issued
      <4>3. QED
        BY <3>2, <4>1, <4>2
    <3>4. Link(c)' /\ Chosen(c)'
      BY <1>0, <3>1, <3>2, <3>3 DEF Link, Chosen, Issued
    <3>5. local'[c].token \in resets' \/ local'[c].token.by \in unsaved'
      BY <1>0, <3>2
    <3>6. QED
      BY <1>3, <2>3, <3>4, <3>5 DEF CallInv, ConfirmRead, ConfirmLocked
  <2>4. QED
    BY <2>1, <2>2, <2>3
<1>11. QED
  BY <1>3, <1>4, <1>5, <1>6, <1>8, <1>9, <1>10, StepOf

-----------------------------------------------------------------------------
(* The clock, and the invariant *)

LEMMA TickStep ==
  ASSUME AccountInv, Tick
  PROVE  AccountInv'
<1>0. /\ TypeOK /\ StoredInv /\ PropertiesInv /\ PairsInv /\ now \in Nat /\ now' = now + 1
      /\ UNCHANGED <<users, confirmations, resets, sessions, unsaved, pool, pc, local, mails, overlap>>
  BY DEF Tick, AccountInv, tables, TypeOK
<1>1. TypeOK'
  BY <1>0 DEF TypeOK
<1>2. \A t \in Token : t.created <= now => t.created <= now'
  BY <1>0 DEF Token
<1>3. confirmations \subseteq Token /\ resets \subseteq Token
  BY <1>0 DEF TypeOK
<1>4. StoredInv'
  BY <1>0, <1>2, <1>3 DEF StoredInv, Issued
<1>5. PropertiesInv'
  BY <1>0 DEF PropertiesInv, ActivationAtomic, Earlier, ConfirmedOnce, ResetTokensApart,
     ConfirmationTokensApart, MailedLinkLives, Together
<1>6. PairsInv'
  BY <1>0 DEF PairsInv, InFlight, Together
<1>7. ASSUME NEW d \in Calls PROVE CallInv(d)'
  <2>1. Quiet(d) /\ CallInv(d)
    BY <1>0 DEF Quiet, AccountInv
  <2>2. QED
    BY <1>0, <2>1, CallKept
<1>8. QED
  BY <1>1, <1>4, <1>5, <1>6, <1>7 DEF AccountInv

LEMMA AccountInvInit == Init => AccountInv
<1> SUFFICES ASSUME Init PROVE AccountInv
  OBVIOUS
<1>1. /\ \A c \in Calls : c # 0 /\ pc[c] = "idle"
      /\ 0 \in 0 .. MaxCalls /\ EarlierAge \in Nat /\ now = EarlierAge
      /\ ResetValidity \in Nat
  BY BoundsAssumption, ResetPeriods DEF Init, Calls
<1>2. \A t \in resets : /\ t \in Token /\ t.by = 0 /\ t.created = 0 /\ t.until = ResetValidity
                       /\ Issued(t)
  BY <1>1 DEF Init, Token, Issued
<1>3. \A m \in mails : /\ m.kind = "reset" /\ m.token \in resets /\ m.at = 0
                      /\ m = [kind |-> "reset", token |-> m.token, at |-> 0]
  BY DEF Init
<1>4. TypeOK
  <2>1. (CHOOSE n \in Names : TRUE) \in Names
    BY NamesAssumption
  <2>2. mails \subseteq [kind : {"confirmation", "reset"}, token : Token, at : Nat]
    BY <1>2, <1>3
  <2>3. users \in [Names -> Status]
    BY DEF Init, Status
  <2>4. pool \in [limit : Limits, held : SUBSET Calls]
    BY DEF Init
  <2>5. local \in [Calls -> [name : Names, token : Token \union {NoToken}, at : Nat]]
    BY <2>1 DEF Init
  <2>6. pc \in [Calls -> Steps]
    BY DEF Init, Steps, Ended
  <2>7. QED
    BY <1>1, <1>2, <2>2, <2>3, <2>4, <2>5, <2>6 DEF Init, TypeOK
<1>5. StoredInv
  BY <1>1, <1>2, <1>3 DEF Init, StoredInv
<1>6. PropertiesInv
  <2> DEFINE token(n) == [by |-> 0, name |-> n, created |-> 0, until |-> ResetValidity]
  <2>a. ASSUME NEW n \in Names, users[n] = "active" PROVE Earlier(n)
    <3>1. token(n) \in resets
      BY <2>a DEF Init
    <3>2. token(n).by = 0 /\ token(n).name = n
      OBVIOUS
    <3>3. QED
      BY <3>1, <3>2 DEF Earlier
  <2>1. ActivationAtomic /\ ConfirmedOnce /\ ConfirmationTokensApart
    BY <2>a DEF Init, ActivationAtomic, ConfirmedOnce, ConfirmationTokensApart
  <2>2. ResetTokensApart
    BY <1>2 DEF ResetTokensApart
  <2>3. MailedLinkLives
    BY <1>2, <1>3 DEF MailedLinkLives
  <2>4. QED
    BY <2>1, <2>2, <2>3 DEF PropertiesInv
<1>7. PairsInv
  BY <1>1 DEF PairsInv, InFlight, Ended, UserLocked
<1>8. ASSUME NEW c \in Calls PROVE CallInv(c)
  BY <1>1 DEF CallInv, ConfirmRead, ConfirmLocked
<1>9. QED
  BY <1>4, <1>5, <1>6, <1>7, <1>8 DEF AccountInv

LEMMA AccountInvStep == AccountInv /\ [Next]_vars => AccountInv'
<1> SUFFICES ASSUME AccountInv, [Next]_vars PROVE AccountInv'
  OBVIOUS
<1>1. CASE UNCHANGED vars
  <2>1. /\ TypeOK /\ StoredInv /\ PropertiesInv /\ PairsInv
        /\ UNCHANGED <<now, tables, pool, pc, local, mails, overlap>>
    BY <1>1 DEF AccountInv, vars, tables
  <2>2. TypeOK'
    BY <2>1 DEF TypeOK, tables
  <2>3. StoredInv' /\ PropertiesInv'
    BY <2>1, TablesKept
  <2>4. PairsInv'
    BY <2>1 DEF PairsInv, InFlight, Together
  <2>5. ASSUME NEW d \in Calls PROVE CallInv(d)'
    <3>1. Quiet(d) /\ CallInv(d)
      BY <2>1 DEF Quiet, AccountInv, TypeOK, tables
    <3>2. QED
      BY <2>1, <3>1, CallKept
  <2>6. QED
    BY <2>2, <2>3, <2>4, <2>5 DEF AccountInv
<1>2. CASE Tick
  BY <1>2, TickStep
<1>3. ASSUME NEW c \in Calls, Arrive(c) PROVE AccountInv'
  BY <1>3, RegisterLoadStep, ForgotLoadStep, ConfirmBeginStep, ResetSteps DEF Arrive
<1>4. ASSUME NEW c \in Calls, Proceed(c) PROVE AccountInv'
  BY <1>4, CheckConfirmationStep, ResendStep, BeginRegisterStep, InsertUserStep,
     InsertConfirmationStep, CommitRegisterStep, MailStep, ConfirmTokenStep, ConfirmMoves,
     ConfirmCommitStep, ForgotDebounceStep, ForgotBeginStep, ForgotReuseStep, ForgotInsertStep,
     ForgotCommitStep, ResetSteps
  DEF Proceed
<1>5. ASSUME NEW c \in Calls, CommitFails(c) \/ CallFails(c) PROVE AccountInv'
  BY <1>5, CommitFailsStep, CallFailsStep
<1>6. QED
  BY <1>1, <1>2, <1>3, <1>4, <1>5 DEF Next

LEMMA AccountInvHolds == Spec => []AccountInv
BY AccountInvInit, AccountInvStep, PTL DEF Spec

-----------------------------------------------------------------------------
(* Theorems *)

\* The variables keep their types.
THEOREM TypeCorrect == Spec => []TypeOK
<1>1. AccountInv => TypeOK
  BY DEF AccountInv
<1>2. QED
  BY <1>1, AccountInvHolds, PTL

\* Account, confirmation token and session change together, although
\* CompleteRegister reads outside its transaction: where confirmation is
\* required, an account is active only if it was so from the beginning or a
\* confirmation granted a session, and a granted session means it is active.
THEOREM ActivationAtomicHolds == Spec => []ActivationAtomic
<1>1. AccountInv => ActivationAtomic
  BY DEF AccountInv, PropertiesInv
<1>2. QED
  BY <1>1, AccountInvHolds, PTL

\* Only overlapping confirmations can both be granted a session for one link.
THEOREM ConfirmedOnceHolds == Spec => []ConfirmedOnce
<1>1. AccountInv => ConfirmedOnce
  BY DEF AccountInv, PropertiesInv
<1>2. QED
  BY <1>1, AccountInvHolds, PTL

\* Only overlapping calls put reset tokens of a user closer than the debounce and
\* reuse times, whatever these are up to the validity.
THEOREM ResetTokensApartHolds == Spec => []ResetTokensApart
<1>1. AccountInv => ResetTokensApart
  BY DEF AccountInv, PropertiesInv
<1>2. QED
  BY <1>1, AccountInvHolds, PTL

\* Likewise confirmation tokens.
THEOREM ConfirmationTokensApartHolds == Spec => []ConfirmationTokensApart
<1>1. AccountInv => ConfirmationTokensApart
  BY DEF AccountInv, PropertiesInv
<1>2. QED
  BY <1>1, AccountInvHolds, PTL

\* Mailed reset links are stored and were fresh enough when they were chosen.
THEOREM MailedLinkLivesHolds == Spec => []MailedLinkLives
<1>1. AccountInv => MailedLinkLives
  BY DEF AccountInv, PropertiesInv
<1>2. QED
  BY <1>1, AccountInvHolds, PTL
-----------------------------------------------------------------------------
(* Connections and waiting *)

\* A call opens a transaction with a connection, ends it by giving that back, or
\* stays in or out of one.
LEMMA ConnsKept ==
  ASSUME TypeOK, ConnsOfTransactions, NEW c \in Calls, NEW step, GoTo(c, step),
         \/ pool'.held = pool.held /\ (pc[c] \in TxSteps <=> step \in TxSteps)
         \/ pool'.held = pool.held \union {c} /\ step \in TxSteps
         \/ pool'.held = pool.held \ {c} /\ step \notin TxSteps
  PROVE  ConnsOfTransactions'
<1>1. pc'[c] = step /\ \A d \in Calls \ {c} : pc'[d] = pc[d]
  BY DEF TypeOK, GoTo
<1>2. \A d \in Calls : d \in pool'.held <=> pc'[d] \in TxSteps
  BY <1>1 DEF ConnsOfTransactions
<1>3. pool'.held \subseteq Calls
  BY DEF ConnsOfTransactions
<1>4. QED
  BY <1>2, <1>3 DEF ConnsOfTransactions

LEMMA ConnsStep == TypeOK /\ ConnsOfTransactions /\ [Next]_vars => ConnsOfTransactions'
<1> SUFFICES ASSUME TypeOK, ConnsOfTransactions, [Next]_vars PROVE ConnsOfTransactions'
  OBVIOUS
<1>0. pool \in [limit : Limits, held : SUBSET Calls]
  BY DEF TypeOK
<1>1. CASE UNCHANGED <<pc, pool>>
  BY <1>1 DEF ConnsOfTransactions
<1>2. ASSUME NEW c \in Calls, Acquire(c) PROVE pool'.held = pool.held \union {c}
  BY <1>0, <1>2 DEF Acquire
<1>3. ASSUME NEW c \in Calls, Release(c) PROVE pool'.held = pool.held \ {c}
  BY <1>0, <1>3 DEF Release
<1>4. ASSUME NEW c \in Calls, NEW n \in Names, RegisterLoad(c, n) \/ ForgotLoad(c, n)
      PROVE  ConnsOfTransactions'
  <2>1. PICK step \in {"beginRegister", "checkConfirmation", "done", "forgotDebounce",
                       "forgotBegin"} : Start(c, step)
    BY <1>4 DEF RegisterLoad, ForgotLoad
  <2>2. pool' = pool
    BY <1>4 DEF RegisterLoad, ForgotLoad
  <2>3. QED
    BY <2>1, <2>2, ConnsKept DEF Start, TxSteps
<1>5. ASSUME NEW c \in Calls, NEW t, ConfirmBegin(c, t) PROVE ConnsOfTransactions'
  BY <1>2, <1>5, ConnsKept DEF ConfirmBegin, Start, TxSteps
<1>6. ASSUME NEW c \in Calls, NEW t, ResetLoad(c, t) PROVE ConnsOfTransactions'
  <2>1. PICK step \in {"resetChange", "done"} : Start(c, step)
    BY <1>6 DEF ResetLoad
  <2>2. QED
    BY <1>6, <2>1, ConnsKept DEF ResetLoad, Start, TxSteps
\* A call that goes on to a step on the same side of its transaction.
<1>7. ASSUME NEW c \in Calls, NEW step, GoTo(c, step), UNCHANGED pool,
             pc[c] \in TxSteps <=> step \in TxSteps
      PROVE  ConnsOfTransactions'
  BY <1>7, ConnsKept
\* A transaction that ends.
<1>8. ASSUME NEW c \in Calls, NEW step \in {"done", "mailConfirmation", "mailReset"},
             GoTo(c, step), Release(c)
      PROVE  ConnsOfTransactions'
  BY <1>3, <1>8, ConnsKept DEF TxSteps
<1>9. ASSUME NEW c \in Calls, CheckConfirmation(c) \/ ForgotDebounce(c)
      PROVE  ConnsOfTransactions'
  <2>1. PICK step \in {"done", "resend", "forgotBegin"} : GoTo(c, step)
    BY <1>9 DEF CheckConfirmation, ForgotDebounce
  <2>2. QED
    BY <1>7, <1>9, <2>1 DEF CheckConfirmation, ForgotDebounce, TxSteps
<1>10. ASSUME NEW c \in Calls, Resend(c) \/ Mail(c) \/ ResetChange(c)
       PROVE  ConnsOfTransactions'
  <2>1. PICK step \in {"done", "mailConfirmation"} : GoTo(c, step)
    BY <1>10 DEF Resend, Mail, ResetChange
  <2>2. QED
    BY <1>7, <1>10, <2>1 DEF Resend, Mail, ResetChange, TxSteps
<1>11. ASSUME NEW c \in Calls, BeginRegister(c) \/ ForgotBegin(c)
       PROVE  ConnsOfTransactions'
  <2>1. PICK step \in {"insertUser", "forgotReuse"} : GoTo(c, step)
    BY <1>11 DEF BeginRegister, ForgotBegin
  <2>2. QED
    BY <1>2, <1>11, <2>1, ConnsKept DEF BeginRegister, ForgotBegin, TxSteps
<1>12. ASSUME NEW c \in Calls, InsertUser(c) PROVE ConnsOfTransactions'
  <2>1. CASE Rollback(c)
    BY <1>8, <2>1 DEF Rollback
  <2>2. CASE UNCHANGED pool /\ \E step \in {"insertConfirmation", "commitRegister"} : GoTo(c, step)
    BY <1>7, <1>12, <2>2 DEF InsertUser, TxSteps
  <2>3. QED
    BY <1>12, <2>1, <2>2 DEF InsertUser
<1>13. ASSUME NEW c \in Calls, CommitRegister(c) \/ ConfirmCommit(c) \/ ForgotCommit(c)
       PROVE  ConnsOfTransactions'
  BY <1>8, <1>13 DEF CommitRegister, ConfirmCommit, ForgotCommit
<1>14. ASSUME NEW c \in Calls, ConfirmToken(c) \/ ConfirmUser(c) PROVE ConnsOfTransactions'
  <2>1. CASE GoTo(c, "done") /\ Release(c)
    BY <1>8, <2>1
  <2>2. CASE UNCHANGED pool /\ \E step \in {"confirmUser", "confirmUpdate"} : GoTo(c, step)
    BY <1>7, <1>14, <2>2 DEF ConfirmToken, ConfirmUser, TxSteps
  <2>3. QED
    BY <1>14, <2>1, <2>2 DEF ConfirmToken, ConfirmUser, Rollback
<1>15. ASSUME NEW c \in Calls, \/ InsertConfirmation(c) \/ ConfirmUpdate(c) \/ ConfirmDelete(c)
                               \/ ConfirmMint(c) \/ ForgotReuse(c) \/ ForgotInsert(c)
       PROVE  ConnsOfTransactions'
  <2>1. PICK step \in {"commitRegister", "confirmDelete", "confirmMint", "confirmCommit",
                       "forgotCommit", "forgotInsert"} : GoTo(c, step)
    BY <1>15 DEF InsertConfirmation, ConfirmUpdate, ConfirmDelete, ConfirmMint, ForgotReuse,
                 ForgotInsert
  <2>2. pc[c] \in TxSteps /\ UNCHANGED pool
    BY <1>15 DEF InsertConfirmation, ConfirmUpdate, ConfirmDelete, ConfirmMint, ForgotReuse,
                 ForgotInsert, TxSteps
  <2>3. QED
    BY <1>7, <2>1, <2>2 DEF TxSteps
<1>16. ASSUME NEW c \in Calls, CommitFails(c) \/ CallFails(c) PROVE ConnsOfTransactions'
  BY <1>8, <1>16 DEF CommitFails, CallFails, Rollback
<1>17. QED
  BY <1>1, <1>4, <1>5, <1>6, <1>9, <1>10, <1>11, <1>12, <1>13, <1>14, <1>15, <1>16
     DEF Next, Tick, Arrive, Proceed, vars

\* A connection is held exactly by the calls with an open transaction.
THEOREM ConnsOfTransactionsHolds == Spec => []ConnsOfTransactions
<1>1. Init => ConnsOfTransactions
  BY DEF Init, ConnsOfTransactions, TxSteps
<1>2. QED
  BY <1>1, ConnsStep, TypeCorrect, PTL DEF Spec

\* The writers of users rows wait for nothing, so when all wait they wait for
\* connections, and the only transactions that do are confirmations.
THEOREM GridlockIsStarvationHolds == Spec => []GridlockIsStarvation
<1>1. ASSUME TypeOK, ConnsOfTransactions PROVE GridlockIsStarvation
  <2> DEFINE Confirming == {c \in Calls : pc[c] \in SecondConn}
  <2> SUFFICES ASSUME NEW e \in InFlight, \A c \in InFlight : Waits(c)
               PROVE  Starved /\ Cardinality(Confirming) >= pool.limit
      BY DEF GridlockIsStarvation
  <2>1. \A d \in Calls : pc[d] \notin UserLocked
    <3> SUFFICES ASSUME NEW d \in Calls, pc[d] \in UserLocked PROVE FALSE
        OBVIOUS
    <3>1. d \in InFlight
      BY DEF InFlight, UserLocked, Ended
    <3>2. QED
      BY <3>1 DEF Waits, UserLocked, PoolSteps, SecondConn
  <2>2. \A c \in Calls : UserRowFree(c)
    BY <2>1 DEF UserRowFree
  <2>3. \A c \in InFlight : pc[c] \in PoolSteps /\ ~ConnFree
    BY <2>2 DEF Waits, InFlight
  <2>4. \A c \in pool.held : pc[c] \in SecondConn
    <3> TAKE c \in pool.held
    <3>1. c \in Calls /\ pc[c] \in TxSteps
      BY <1>1 DEF ConnsOfTransactions
    <3>2. c \in InFlight
      BY <3>1 DEF InFlight, TxSteps, Ended
    <3>3. QED
      BY <2>3, <3>1, <3>2 DEF TxSteps, PoolSteps, SecondConn
  <2>5. Starved
    BY <2>3, <2>4 DEF Starved
  <2>6. pool.held \subseteq Confirming
    BY <1>1, <2>4 DEF ConnsOfTransactions
  <2>7. IsFiniteSet(Confirming)
    <3>1. IsFiniteSet(Calls)
      BY BoundsAssumption, FS_Interval DEF Calls
    <3>2. QED
      BY <3>1, FS_Subset
  <2>8. /\ Cardinality(pool.held) <= Cardinality(Confirming)
        /\ Cardinality(pool.held) \in Nat /\ Cardinality(Confirming) \in Nat
    BY <2>6, <2>7, FS_Subset, FS_CardinalityType
  <2>9. pool.limit \in Nat /\ ~(Cardinality(pool.held) < pool.limit)
    BY <1>1, <2>3, LimitsAssumption DEF TypeOK, ConnFree
  <2>10. QED
    BY <2>5, <2>8, <2>9
<1>2. TypeOK /\ ConnsOfTransactions => GridlockIsStarvation
  BY <1>1
<1>3. QED
  BY <1>2, TypeCorrect, ConnsOfTransactionsHolds, PTL
=============================================================================
