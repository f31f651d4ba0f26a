--------------------------- MODULE PushTokensProofs ---------------------------
(***************************************************************************)
(* Proofs about PushTokens, for every set of users, tokens and providers,  *)
(* any earlier tables and any number of calls and connections.             *)
(***************************************************************************)
EXTENDS PushTokens, FiniteSetTheorems, TLAPS

\* The row has been deleted; it never comes back.
Gone(r) == \E d \in dropped : d.row = r
Seen(r) == r \in table \/ Gone(r)

\* No row was ever stored by the call.
Fresh(c) == (\A r \in table : r.id # c) /\ (\A d \in dropped : d.row.id # c)

\* The call's new row is stored, or another call has removed it.
Stored(c) ==
  \/ \E r \in table : r.id = c /\ r.token = local[c].token
  \/ \E d \in dropped : d.row.id = c /\ d.by # c

\* What answers say, AnswersTrue and DeliveryComplete for one call.
Told(c) ==
  /\ answer[c] \in {"ok", "not found"} /\ local[c].old # local[c].token => Stored(c)
  /\ answer[c] = "ok" /\ c \notin unsaved => local[c].row = NoRow \/ Gone(local[c].row)
  /\ answer[c] = "conflict" => Fresh(c)
  /\ answer[c] = "sent" => local[c].left = {} /\ \A i \in local[c].invalid : Gone(i)

\* Everything that is known of a call at each of its steps.
CallInv(c) ==
  /\ pc[c] = "idle" => local[c] = NoLocal /\ answer[c] = "none" /\ Fresh(c)
  /\ c \in InFlight => local[c] \in Local /\ answer[c] = "none"
  /\ pc[c] \in TxSteps => local[c].token \in Tokens /\ local[c].provider \in Providers
  /\ pc[c] = "insert" => Fresh(c)
  /\ pc[c] \in {"insert", "find"} => local[c].row = NoRow
  /\ pc[c] \in {"find", "delete", "commit"} =>
       /\ Stored(c)
       /\ \A r \in table : r.id = c => r.token = local[c].token
  /\ pc[c] \in {"delete", "commit"} =>
       \/ local[c].row = NoRow
       \/ /\ local[c].row.user = local[c].user /\ local[c].row.token = local[c].old
          /\ Seen(local[c].row)
  /\ pc[c] = "clean" => \A i \in local[c].invalid : i.user = local[c].user /\ Seen(i)
  /\ pc[c] = "done" => Told(c)

TableInv ==
  /\ OneRowPerToken
  /\ \A d \in dropped : d.row \notin table

PushInv ==
  /\ TypeOK
  /\ TableInv
  /\ \A c \in Calls : CallInv(c)

-----------------------------------------------------------------------------
(* Steps that leave a call alone *)

\* A step of call c writes nothing of another call; a row it stores is its own,
\* and what it removes it records as dropped by itself.
Frame(c) ==
  /\ \A d \in Calls \ {c} : pc'[d] = pc[d] /\ local'[d] = local[d] /\ answer'[d] = answer[d]
  /\ \A r \in table' \ table : r.id = c
  /\ \A r \in table \ table' : \E d \in dropped' : d.row = r /\ d.by = c
  /\ dropped \subseteq dropped'
  /\ \A d \in dropped' \ dropped : d.row \in table /\ d.by = c
  /\ \A d \in Calls \ {c} : d \in unsaved <=> d \in unsaved'

LEMMA SeenKept ==
  ASSUME NEW c \in Calls, Frame(c)
  PROVE  \A r : (Gone(r) => Gone(r)') /\ (Seen(r) => Seen(r)')
BY DEF Frame, Gone, Seen

LEMMA CallKept ==
  ASSUME NEW c \in Calls, NEW d \in Calls \ {c}, Frame(c), TypeOK, CallInv(d)
  PROVE  CallInv(d)'
<1>0. /\ pc'[d] = pc[d] /\ local'[d] = local[d] /\ answer'[d] = answer[d]
      /\ (d \in unsaved <=> d \in unsaved')
  BY DEF Frame
<1>1. Fresh(d) => Fresh(d)'
  BY DEF Fresh, Frame
<1>2. Stored(d) => Stored(d)'
  BY <1>0 DEF Stored, Frame
<1>3. \A r : (Gone(r) => Gone(r)') /\ (Seen(r) => Seen(r)')
  BY SeenKept
<1>4. (d \in InFlight) <=> (d \in InFlight)'
  BY <1>0 DEF InFlight
<1>5. \A r \in table' : r.id = d => r \in table
  BY DEF Frame
<1>6. Told(d) => Told(d)'
  BY <1>0, <1>1, <1>2, <1>3 DEF Told
<1>7. CASE pc[d] \in {"idle", "done"}
  BY <1>0, <1>1, <1>6, <1>7 DEF CallInv, InFlight, TxSteps
<1>8. CASE pc[d] \in {"load", "clean"}
  BY <1>0, <1>3, <1>4, <1>8 DEF CallInv, TxSteps
<1>9. CASE pc[d] \in TxSteps
  <2>1. pc[d] = "insert" => Fresh(d)'
    BY <1>1 DEF CallInv
  <2>2. pc[d] \in {"find", "delete", "commit"} =>
          Stored(d)' /\ \A r \in table' : r.id = d => r.token = local'[d].token
    BY <1>0, <1>2, <1>5 DEF CallInv
  <2>3. pc[d] \in {"delete", "commit"} =>
          (local[d].row = NoRow \/ (local[d].row.user = local[d].user
             /\ local[d].row.token = local[d].old /\ Seen(local[d].row)'))
    BY <1>0, <1>3 DEF CallInv, Seen, Gone
  <2>4. QED
    BY <1>0, <1>3, <1>4, <1>9, <2>1, <2>2, <2>3 DEF CallInv, TxSteps
<1>10. QED
  BY <1>7, <1>8, <1>9 DEF TypeOK, Steps

\* What remains to be shown of a step of call c.
LEMMA StepOf ==
  ASSUME NEW c \in Calls, PushInv, Frame(c), TypeOK', TableInv', CallInv(c)'
  PROVE  PushInv'
<1>1. ASSUME NEW d \in Calls \ {c} PROVE CallInv(d)'
  BY CallKept DEF PushInv
<1>2. QED
  BY <1>1 DEF PushInv

\* Frame of the steps that touch no row.
LEMMA FrameOfCall ==
  ASSUME NEW c \in Calls, UNCHANGED <<table, dropped>>,
         \A d \in Calls \ {c} : pc'[d] = pc[d] /\ local'[d] = local[d] /\ answer'[d] = answer[d],
         \A d \in Calls \ {c} : d \in unsaved <=> d \in unsaved'
  PROVE  Frame(c) /\ (TableInv => TableInv')
BY DEF Frame, TableInv, OneRowPerToken

\* What deleting rows does.
LEMMA DropKept ==
  ASSUME NEW c \in Calls, NEW rows, TypeOK, TableInv, Drop(c, rows),
         UNCHANGED unsaved,
         \A d \in Calls \ {c} : pc'[d] = pc[d] /\ local'[d] = local[d] /\ answer'[d] = answer[d]
  PROVE  /\ Frame(c) /\ TableInv'
         /\ table' \subseteq Row /\ dropped' \subseteq [row : Row, by : Calls]
         /\ \A r \in rows : Seen(r) => Gone(r)'
<1>1. /\ table' = table \ rows
      /\ dropped' = dropped \union {[row |-> r, by |-> c] : r \in rows \intersect table}
  BY DEF Drop
<1>2. \A r \in rows \intersect table : \E d \in dropped' : d.row = r /\ d.by = c
  <2>1. ASSUME NEW r \in rows \intersect table PROVE \E d \in dropped' : d.row = r /\ d.by = c
    <3>1. [row |-> r, by |-> c] \in dropped'
      BY <1>1
    <3>2. QED
      BY <3>1
  <2>2. QED
    BY <2>1
<1>3. \A d \in dropped' \ dropped : d.row \in rows \intersect table /\ d.by = c
  BY <1>1
<1>4. Frame(c)
  BY <1>1, <1>2, <1>3 DEF Frame
<1>5. TableInv'
  BY <1>1, <1>3 DEF TableInv, OneRowPerToken
<1>6. table' \subseteq Row /\ dropped' \subseteq [row : Row, by : Calls]
  <2>1. table \subseteq Row /\ dropped \subseteq [row : Row, by : Calls]
    BY DEF TypeOK
  <2>2. \A r \in rows \intersect table : [row |-> r, by |-> c] \in [row : Row, by : Calls]
    BY <2>1
  <2>3. {[row |-> r, by |-> c] : r \in rows \intersect table} \subseteq [row : Row, by : Calls]
    BY <2>2
  <2>4. QED
    BY <1>1, <2>1, <2>3
<1>7. \A r \in rows : Seen(r) => Gone(r)'
  BY <1>1, <1>2 DEF Seen, Gone
<1>8. QED
  BY <1>4, <1>5, <1>6, <1>7

-----------------------------------------------------------------------------
(* Registrations *)

LEMMA CheckStep ==
  ASSUME NEW c \in Calls, NEW u \in Users, NEW o \in Offers, NEW old \in Tokens \union {None},
         PushInv, Check(c, u, o[1], o[2], old)
  PROVE  PushInv'
<1> DEFINE bound == [user |-> u, token |-> o[1], provider |-> o[2], old |-> old, row |-> NoRow,
                     left |-> {}, invalid |-> {}]
<1>0. /\ TypeOK /\ TableInv /\ CallInv(c) /\ pc[c] = "idle"
      /\ local' = [local EXCEPT ![c] = bound]
      /\ UNCHANGED <<table, dropped, unsaved>>
      /\ \/ Ends(c, "conflict") /\ UNCHANGED conns
         \/ GoTo(c, "insert") /\ conns' = conns \union {c}
  BY DEF PushInv, Check, Arrives
<1>1. bound \in Local /\ o[1] \in Tokens /\ o[2] \in Providers
  BY OffersAssumption DEF Local
<1>2. local'[c] = bound /\ Fresh(c)
  BY <1>0 DEF TypeOK, CallInv
<1>3. TypeOK'
  BY <1>0, <1>1 DEF TypeOK, Steps, TxSteps, GoTo, Ends
<1>4. Frame(c) /\ TableInv'
  BY <1>0, FrameOfCall DEF TypeOK, GoTo, Ends
<1>5. Fresh(c)'
  BY <1>0, <1>2 DEF Fresh
<1>6. CASE Ends(c, "conflict")
  <2>1. pc'[c] = "done" /\ answer'[c] = "conflict"
    BY <1>0, <1>6 DEF Ends, TypeOK
  <2>2. CallInv(c)'
    BY <1>5, <2>1 DEF CallInv, InFlight, TxSteps, Told
  <2>3. QED
    BY <1>3, <1>4, <2>2, StepOf
<1>7. CASE GoTo(c, "insert")
  <2>1. pc'[c] = "insert" /\ answer'[c] = "none"
    BY <1>0, <1>7 DEF GoTo, TypeOK, CallInv
  <2>2. CallInv(c)'
    BY <1>1, <1>2, <1>5, <2>1 DEF CallInv, InFlight, TxSteps
  <2>3. QED
    BY <1>3, <1>4, <2>2, StepOf
<1>8. QED
  BY <1>0, <1>6, <1>7

LEMMA InsertStep ==
  ASSUME NEW c \in Calls, PushInv, Insert(c)
  PROVE  PushInv'
<1> DEFINE new == [id |-> c, token |-> local[c].token,
                   user |-> local[c].user, provider |-> local[c].provider]
<1>0. /\ TypeOK /\ TableInv /\ CallInv(c) /\ pc[c] = "insert"
      /\ UNCHANGED <<local, dropped, unsaved>>
  BY DEF PushInv, Insert
<1>1. /\ local[c] \in Local /\ local[c].token \in Tokens /\ local[c].provider \in Providers
      /\ local[c].row = NoRow /\ answer[c] = "none" /\ Fresh(c)
  BY <1>0 DEF CallInv, InFlight, TxSteps
<1>2. CASE EndsTx(c, "failed") /\ UNCHANGED table
  <2>1. TypeOK'
    BY <1>0, <1>2 DEF TypeOK, Steps, EndsTx, Ends
  <2>2. Frame(c) /\ TableInv'
    BY <1>0, <1>2, FrameOfCall DEF TypeOK, EndsTx, Ends
  <2>3. CallInv(c)'
    BY <1>0, <1>2 DEF CallInv, InFlight, TxSteps, Told, EndsTx, Ends, TypeOK
  <2>4. QED
    BY <2>1, <2>2, <2>3, StepOf
<1>3. CASE /\ \A r \in table : r.token # local[c].token
           /\ table' = table \union {new}
           /\ GoTo(c, IF local[c].old = None THEN "commit" ELSE "find")
           /\ UNCHANGED conns
  <2>1. new \in Row /\ new.id = c /\ new.token = local[c].token /\ new \notin table
        /\ \A d \in dropped : d.row # new
    BY <1>1, <1>3 DEF Row, Local, Calls, Fresh
  <2>2. TypeOK'
    BY <1>0, <1>3, <2>1 DEF TypeOK, Steps, TxSteps, GoTo
  <2>3. Frame(c)
    BY <1>0, <1>3, <2>1 DEF Frame, GoTo, TypeOK
  <2>4. TableInv'
    BY <1>0, <1>3, <2>1 DEF TableInv, OneRowPerToken
  <2>5. Stored(c)'
    BY <1>0, <1>3, <2>1 DEF Stored
  <2>6. \A r \in table' : r.id = c => r.token = local'[c].token
    BY <1>0, <1>1, <1>3, <2>1 DEF Fresh
  <2>7. pc'[c] \in {"commit", "find"} /\ answer'[c] = "none" /\ local'[c] = local[c]
    BY <1>0, <1>1, <1>3 DEF GoTo, TypeOK
  <2>8. CallInv(c)'
    BY <1>1, <2>5, <2>6, <2>7 DEF CallInv, InFlight, TxSteps
  <2>9. QED
    BY <2>2, <2>3, <2>4, <2>8, StepOf
<1>4. QED
  BY <1>2, <1>3 DEF Insert

LEMMA FindStep ==
  ASSUME NEW c \in Calls, PushInv, Find(c)
  PROVE  PushInv'
<1>0. /\ TypeOK /\ TableInv /\ CallInv(c) /\ pc[c] = "find"
      /\ UNCHANGED <<table, dropped, unsaved>>
  BY DEF PushInv, Find
<1>1. /\ local[c] \in Local /\ local[c].token \in Tokens /\ local[c].provider \in Providers
      /\ answer[c] = "none" /\ Stored(c)
      /\ \A r \in table : r.id = c => r.token = local[c].token
  BY <1>0 DEF CallInv, InFlight, TxSteps
<1>2. CASE EndsTx(c, "not found") /\ UNCHANGED local
  <2>1. TypeOK'
    BY <1>0, <1>2 DEF TypeOK, Steps, EndsTx, Ends
  <2>2. Frame(c) /\ TableInv'
    BY <1>0, <1>2, FrameOfCall DEF TypeOK, EndsTx, Ends
  <2>3. Stored(c)'
    BY <1>0, <1>1, <1>2 DEF Stored
  <2>4. CallInv(c)'
    BY <1>0, <1>2, <2>3 DEF CallInv, InFlight, TxSteps, Told, EndsTx, Ends, TypeOK
  <2>5. QED
    BY <2>1, <2>2, <2>4, StepOf
<1>3. ASSUME NEW r \in table, r.token = local[c].old, r.user = local[c].user,
             local' = [local EXCEPT ![c].row = r], GoTo(c, "delete"), UNCHANGED conns
      PROVE  PushInv'
  <2>1. /\ local'[c] = [local[c] EXCEPT !.row = r] /\ local'[c] \in Local
        /\ \A d \in Calls \ {c} : local'[d] = local[d]
        /\ local' \in [Calls -> Local \union {NoLocal}]
    BY <1>0, <1>1, <1>3 DEF TypeOK, Local
  <2>2. /\ local'[c].row = r /\ local'[c].user = local[c].user /\ local'[c].old = local[c].old
        /\ local'[c].token = local[c].token /\ local'[c].provider = local[c].provider
    BY <1>1, <2>1 DEF Local
  <2>3. TypeOK'
    BY <1>0, <1>3, <2>1 DEF TypeOK, Steps, TxSteps, GoTo
  <2>4. Frame(c) /\ TableInv'
    BY <1>0, <1>3, <2>1, FrameOfCall DEF TypeOK, GoTo
  <2>5. Stored(c)'
    BY <1>0, <1>1, <2>2 DEF Stored
  <2>6. Seen(r)'
    BY <1>0 DEF Seen
  <2>7. pc'[c] = "delete" /\ answer'[c] = "none"
    BY <1>0, <1>1, <1>3 DEF GoTo, TypeOK
  <2>8. CallInv(c)'
    BY <1>0, <1>1, <1>3, <2>1, <2>2, <2>5, <2>6, <2>7 DEF CallInv, InFlight, TxSteps
  <2>9. QED
    BY <2>3, <2>4, <2>8, StepOf
<1>4. QED
  BY <1>2, <1>3 DEF Find

LEMMA DeleteStep ==
  ASSUME NEW c \in Calls, PushInv, Delete(c)
  PROVE  PushInv'
<1>0. /\ TypeOK /\ TableInv /\ CallInv(c) /\ pc[c] = "delete" /\ GoTo(c, "commit")
      /\ UNCHANGED <<table, conns, local, dropped, unsaved>>
  BY DEF PushInv, Delete
<1>1. TypeOK'
  BY <1>0 DEF TypeOK, Steps, TxSteps, GoTo
<1>2. Frame(c) /\ TableInv'
  BY <1>0, FrameOfCall DEF TypeOK, GoTo
<1>3. CallInv(c)'
  BY <1>0 DEF CallInv, InFlight, TxSteps, GoTo, TypeOK, Stored, Seen, Gone
<1>4. QED
  BY <1>1, <1>2, <1>3, StepOf

LEMMA CommitStep ==
  ASSUME NEW c \in Calls, PushInv, Commit(c)
  PROVE  PushInv'
<1>0. /\ TypeOK /\ TableInv /\ CallInv(c) /\ pc[c] = "commit"
      /\ Drop(c, {local[c].row}) /\ EndsTx(c, "ok") /\ UNCHANGED <<local, unsaved>>
  BY DEF PushInv, Commit
<1>1. /\ Stored(c) /\ \A r \in table : r.id = c => r.token = local[c].token
      /\ \/ local[c].row = NoRow
         \/ local[c].row.token = local[c].old /\ Seen(local[c].row)
  BY <1>0 DEF CallInv
<1>2. /\ Frame(c) /\ TableInv'
      /\ table' \subseteq Row /\ dropped' \subseteq [row : Row, by : Calls]
      /\ \A r \in {local[c].row} : Seen(r) => Gone(r)'
  BY <1>0, DropKept DEF EndsTx, Ends, TypeOK
<1>3. TypeOK'
  BY <1>0, <1>2 DEF TypeOK, Steps, EndsTx, Ends
<1>4. pc'[c] = "done" /\ answer'[c] = "ok" /\ local'[c] = local[c]
  BY <1>0 DEF EndsTx, Ends, TypeOK
<1>5. local[c].row = NoRow \/ Gone(local[c].row)'
  BY <1>0, <1>1, <1>2 DEF Gone
<1>6. local[c].old # local[c].token => Stored(c)'
  <2>1. CASE \E d \in dropped : d.row.id = c /\ d.by # c
    BY <1>2, <2>1 DEF Stored, Frame
  <2>2. CASE \E r \in table : r.id = c /\ r.token = local[c].token
    <3>1. PICK r \in table : r.id = c /\ r.token = local[c].token
      BY <2>2
    <3>2. CASE r \in table'
      BY <1>4, <3>1, <3>2 DEF Stored
    <3>3. CASE r \notin table'
      <4>1. r = local[c].row /\ r # NoRow
        <5>1. r = local[c].row
          BY <1>0, <3>1, <3>3 DEF Drop
        <5>2. r.token \in Tokens /\ NoRow.token = None
          BY <1>0, <3>1 DEF TypeOK, Row, NoRow
        <5>3. QED
          BY <5>1, <5>2, NoneAssumption
      <4>2. QED
        BY <1>1, <3>1, <4>1
    <3>4. QED
      BY <3>2, <3>3
  <2>3. QED
    BY <1>1, <2>1, <2>2 DEF Stored
<1>7. Told(c)'
  BY <1>0, <1>4, <1>5, <1>6 DEF Told, Gone
<1>8. CallInv(c)'
  BY <1>4, <1>7 DEF CallInv, InFlight, TxSteps
<1>9. QED
  BY <1>2, <1>3, <1>8, StepOf

-----------------------------------------------------------------------------
(* Deliveries *)

LEMMA SendStep ==
  ASSUME NEW c \in Calls, NEW u \in Users, PushInv, Send(c, u)
  PROVE  PushInv'
<1> DEFINE bound == [user |-> u, token |-> None, provider |-> None, old |-> None, row |-> NoRow,
                     left |-> Providers, invalid |-> {}]
<1>0. /\ TypeOK /\ TableInv /\ CallInv(c) /\ pc[c] = "idle"
      /\ local' = [local EXCEPT ![c] = bound] /\ GoTo(c, "load")
      /\ UNCHANGED <<table, conns, dropped, unsaved>>
  BY DEF PushInv, Send, Arrives
<1>1. bound \in Local
  BY DEF Local
<1>2. local'[c] = bound /\ pc'[c] = "load" /\ answer'[c] = "none"
  BY <1>0 DEF TypeOK, CallInv, GoTo
<1>3. TypeOK'
  BY <1>0, <1>1 DEF TypeOK, Steps, TxSteps, GoTo
<1>4. Frame(c) /\ TableInv'
  BY <1>0, FrameOfCall DEF TypeOK, GoTo
<1>5. CallInv(c)'
  BY <1>1, <1>2 DEF CallInv, InFlight, TxSteps
<1>6. QED
  BY <1>3, <1>4, <1>5, StepOf

LEMMA LoadStep ==
  ASSUME NEW c \in Calls, PushInv, Load(c)
  PROVE  PushInv'
<1>0. /\ TypeOK /\ TableInv /\ CallInv(c) /\ pc[c] = "load" /\ GoTo(c, "clean")
      /\ UNCHANGED <<table, conns, dropped, unsaved>>
  BY DEF PushInv, Load
<1>1. local[c] \in Local /\ answer[c] = "none"
  BY <1>0 DEF CallInv, InFlight
<1>2. PICK p \in local[c].left :
        \E invalid \in SUBSET {r \in table : r.provider = p /\ r.user = local[c].user} :
          local' = [local EXCEPT ![c].left = @ \ {p}, ![c].invalid = invalid]
  BY DEF Load
<1>3. PICK invalid \in SUBSET {r \in table : r.provider = p /\ r.user = local[c].user} :
        local' = [local EXCEPT ![c].left = @ \ {p}, ![c].invalid = invalid]
  BY <1>2
<1>4. /\ local'[c] = [local[c] EXCEPT !.left = @ \ {p}, !.invalid = invalid]
      /\ \A d \in Calls \ {c} : local'[d] = local[d]
      /\ local' \in [Calls -> Local \union {NoLocal}] /\ local'[c] \in Local
  <2>1. invalid \in SUBSET Row /\ (local[c].left \ {p}) \in SUBSET Providers
    BY <1>0, <1>1 DEF TypeOK, Local
  <2>2. [local[c] EXCEPT !.left = @ \ {p}, !.invalid = invalid] \in Local
    BY <1>1, <2>1 DEF Local
  <2>3. local' = [local EXCEPT ![c] = [local[c] EXCEPT !.left = @ \ {p}, !.invalid = invalid]]
    BY <1>0, <1>1, <1>3 DEF TypeOK, Local
  <2>4. QED
    BY <1>0, <2>2, <2>3 DEF TypeOK
<1>5. local'[c].invalid = invalid /\ local'[c].user = local[c].user
  BY <1>1, <1>4 DEF Local
<1>6. TypeOK'
  BY <1>0, <1>4 DEF TypeOK, Steps, GoTo
<1>7. Frame(c) /\ TableInv'
  BY <1>0, <1>4, FrameOfCall DEF TypeOK, GoTo
<1>8. \A i \in local'[c].invalid : i.user = local'[c].user /\ Seen(i)'
  BY <1>0, <1>5 DEF Seen
<1>9. pc'[c] = "clean" /\ answer'[c] = "none"
  BY <1>0, <1>1 DEF GoTo, TypeOK
<1>10. CallInv(c)'
  BY <1>4, <1>8, <1>9 DEF CallInv, InFlight, TxSteps
<1>11. QED
  BY <1>6, <1>7, <1>10, StepOf

LEMMA CleanStep ==
  ASSUME NEW c \in Calls, PushInv, Clean(c)
  PROVE  PushInv'
<1> DEFINE rows == {r \in table : /\ r.user = local[c].user
                                  /\ \E i \in local[c].invalid : i.token = r.token}
<1>0. /\ TypeOK /\ TableInv /\ CallInv(c) /\ pc[c] = "clean" /\ Drop(c, rows)
      /\ UNCHANGED <<conns, local, unsaved>>
      /\ IF local[c].left = {} THEN Ends(c, "sent") ELSE GoTo(c, "load")
  BY DEF PushInv, Clean
<1>1. /\ local[c] \in Local /\ answer[c] = "none"
      /\ \A i \in local[c].invalid : i.user = local[c].user /\ Seen(i)
  BY <1>0 DEF CallInv, InFlight
<1>2. \A d \in Calls \ {c} : pc'[d] = pc[d] /\ local'[d] = local[d] /\ answer'[d] = answer[d]
  BY <1>0 DEF Ends, GoTo, TypeOK
<1>3. /\ Frame(c) /\ TableInv'
      /\ table' \subseteq Row /\ dropped' \subseteq [row : Row, by : Calls]
      /\ \A r \in rows : Seen(r) => Gone(r)'
  <2> HIDE DEF rows
  <2>1. QED
    BY <1>0, <1>2, DropKept
<1>4. TypeOK'
  BY <1>0, <1>3 DEF TypeOK, Steps, Ends, GoTo
<1>5. \A i \in local[c].invalid : Gone(i)'
  <2>1. ASSUME NEW i \in local[c].invalid PROVE Gone(i)'
    <3>1. CASE i \in table
      <4>1. i \in rows /\ Seen(i)
        BY <1>1, <2>1, <3>1
      <4>2. QED
        BY <1>3, <4>1
    <3>2. CASE i \notin table
      BY <1>1, <1>3, <2>1, <3>2 DEF Seen, Gone, Frame
    <3>3. QED
      BY <3>1, <3>2
  <2>2. QED
    BY <2>1
<1>6. CASE local[c].left = {} /\ Ends(c, "sent")
  <2>1. pc'[c] = "done" /\ answer'[c] = "sent" /\ local'[c] = local[c]
    BY <1>0, <1>6 DEF Ends, TypeOK
  <2>2. CallInv(c)'
    BY <1>5, <1>6, <2>1 DEF CallInv, InFlight, TxSteps, Told
  <2>3. QED
    BY <1>3, <1>4, <2>2, StepOf
<1>7. CASE GoTo(c, "load")
  <2>1. pc'[c] = "load" /\ answer'[c] = "none" /\ local'[c] = local[c]
    BY <1>0, <1>1, <1>7 DEF GoTo, TypeOK
  <2>2. CallInv(c)'
    BY <1>1, <2>1 DEF CallInv, InFlight, TxSteps
  <2>3. QED
    BY <1>3, <1>4, <2>2, StepOf
<1>8. QED
  BY <1>0, <1>6, <1>7

-----------------------------------------------------------------------------
(* Failures *)

LEMMA CommitFailsStep ==
  ASSUME NEW c \in Calls, PushInv, CommitFails(c)
  PROVE  PushInv'
<1>0. /\ TypeOK /\ TableInv /\ CallInv(c) /\ pc[c] = "commit" /\ EndsTx(c, "ok")
      /\ unsaved' = unsaved \union {c} /\ UNCHANGED <<table, local, dropped>>
  BY DEF PushInv, CommitFails
<1>1. TypeOK'
  BY <1>0 DEF TypeOK, Steps, EndsTx, Ends
<1>2. Frame(c) /\ TableInv'
  BY <1>0, FrameOfCall DEF TypeOK, EndsTx, Ends
<1>3. Stored(c)'
  BY <1>0 DEF CallInv, Stored
<1>4. pc'[c] = "done" /\ answer'[c] = "ok" /\ c \in unsaved'
  BY <1>0 DEF EndsTx, Ends, TypeOK
<1>5. CallInv(c)'
  BY <1>3, <1>4 DEF CallInv, InFlight, TxSteps, Told
<1>6. QED
  BY <1>1, <1>2, <1>5, StepOf

LEMMA CallFailsStep ==
  ASSUME NEW c \in Calls, PushInv, CallFails(c)
  PROVE  PushInv'
<1>0. /\ TypeOK /\ TableInv /\ EndsTx(c, "failed")
      /\ UNCHANGED <<table, local, dropped, unsaved>>
  BY DEF PushInv, CallFails
<1>1. TypeOK'
  BY <1>0 DEF TypeOK, Steps, EndsTx, Ends
<1>2. Frame(c) /\ TableInv'
  BY <1>0, FrameOfCall DEF TypeOK, EndsTx, Ends
<1>3. pc'[c] = "done" /\ answer'[c] = "failed"
  BY <1>0 DEF EndsTx, Ends, TypeOK
<1>4. CallInv(c)'
  BY <1>3 DEF CallInv, InFlight, TxSteps, Told
<1>5. QED
  BY <1>1, <1>2, <1>4, StepOf

-----------------------------------------------------------------------------
(* The invariant *)

LEMMA PushInvInit == Init => PushInv
<1> SUFFICES ASSUME Init PROVE PushInv
  OBVIOUS
<1>1. /\ table \in Earlier /\ dropped = {}
      /\ \A r \in table : r \in [id : {0}, token : Tokens, user : Users, provider : Providers]
      /\ \A r, s \in table : r.token = s.token => r = s
  BY EarlierAssumption DEF Init
<1>2. 0 \in 0 .. MaxCalls /\ \A c \in Calls : c # 0
  BY BoundsAssumption DEF Calls
<1>3. \A r \in table : r \in Row /\ r.id = 0
  BY <1>1, <1>2 DEF Row
<1>4. TypeOK
  BY <1>3 DEF Init, TypeOK, Steps
<1>5. TableInv
  BY <1>1 DEF TableInv, OneRowPerToken
<1>6. ASSUME NEW c \in Calls PROVE CallInv(c)
  <2>1. Fresh(c)
    BY <1>1, <1>2, <1>3 DEF Fresh
  <2>2. QED
    BY <2>1 DEF Init, CallInv, InFlight, TxSteps
<1>7. QED
  BY <1>4, <1>5, <1>6 DEF PushInv

LEMMA PushInvStep == PushInv /\ [Next]_vars => PushInv'
<1> SUFFICES ASSUME PushInv, [Next]_vars PROVE PushInv'
  OBVIOUS
<1>1. CASE UNCHANGED vars
  <2>1. TypeOK' /\ TableInv'
    BY <1>1 DEF vars, PushInv, TypeOK, TableInv, OneRowPerToken
  <2>2. ASSUME NEW c \in Calls PROVE CallInv(c)'
    <3>1. CallInv(c)
      BY DEF PushInv
    <3>2. (Fresh(c) <=> Fresh(c)') /\ (Stored(c) <=> Stored(c)')
          /\ \A r : (Gone(r) <=> Gone(r)') /\ (Seen(r) <=> Seen(r)')
      BY <1>1 DEF vars, Fresh, Stored, Gone, Seen
    <3>3. Told(c) => Told(c)'
      BY <1>1, <3>2 DEF vars, Told
    <3>4. QED
      BY <1>1, <3>1, <3>2, <3>3 DEF vars, CallInv, InFlight
  <2>3. QED
    BY <2>1, <2>2 DEF PushInv
<1>2. ASSUME NEW c \in Calls, Arrive(c) PROVE PushInv'
  BY <1>2, CheckStep, SendStep DEF Arrive
<1>3. ASSUME NEW c \in Calls, Proceed(c) PROVE PushInv'
  BY <1>3, InsertStep, FindStep, DeleteStep, CommitStep, LoadStep, CleanStep DEF Proceed
<1>4. ASSUME NEW c \in Calls, CommitFails(c) \/ CallFails(c) PROVE PushInv'
  BY <1>4, CommitFailsStep, CallFailsStep
<1>5. QED
  BY <1>1, <1>2, <1>3, <1>4 DEF Next

LEMMA PushInvHolds == Spec => []PushInv
BY PushInvInit, PushInvStep, PTL DEF Spec

-----------------------------------------------------------------------------
(* Theorems *)

\* The variables keep their types.
THEOREM TypeCorrect == Spec => []TypeOK
<1>1. PushInv => TypeOK
  BY DEF PushInv
<1>2. QED
  BY <1>1, PushInvHolds, PTL

\* No two rows have one token, whoever registers it and when.
THEOREM OneRowPerTokenHolds == Spec => []OneRowPerToken
<1>1. PushInv => OneRowPerToken
  BY DEF PushInv, TableInv
<1>2. QED
  BY <1>1, PushInvHolds, PTL

\* What UpdatePushToken answers agrees with the table ever after: rows are named
\* by their calls, so what has been deleted does not come back.
THEOREM AnswersTrueHolds == Spec => []AnswersTrue
<1>1. ASSUME PushInv, NEW c \in Calls, answer[c] # "none" PROVE Told(c)
  <2>1. CallInv(c) /\ pc[c] # "idle" /\ c \notin InFlight
    BY <1>1 DEF PushInv, CallInv
  <2>2. QED
    BY <2>1 DEF CallInv, InFlight
<1>2. PushInv => \A c \in Calls : local[c].row = NoRow => local[c].row \notin table
  <2>1. PushInv => \A r \in table : r.token \in Tokens
    BY DEF PushInv, TypeOK, Row
  <2>2. NoRow.token = None
    BY DEF NoRow
  <2>3. QED
    BY <2>1, <2>2, NoneAssumption
<1>3. PushInv => \A c \in Calls : Gone(local[c].row) => local[c].row \notin table
  BY DEF PushInv, TableInv, Gone
<1>4. PushInv => AnswersTrue
  <2>1. ASSUME PushInv, NEW c \in Calls
        PROVE  /\ answer[c] \in {"ok", "not found"} /\ local[c].old # local[c].token => Stored(c)
               /\ answer[c] = "ok" /\ c \notin unsaved => local[c].row \notin table
               /\ answer[c] = "conflict" => \A r \in table : r.id # c
    BY <1>1, <1>2, <1>3, <2>1 DEF Told, Fresh
  <2>2. QED
    BY <2>1 DEF AnswersTrue, Stored
<1>5. QED
  BY <1>4, PushInvHolds, PTL

\* SendToUser reports success only after every provider, and what its last one
\* called invalid is gone.
THEOREM DeliveryCompleteHolds == Spec => []DeliveryComplete
<1>1. ASSUME PushInv, NEW c \in Calls, answer[c] = "sent"
      PROVE  local[c].left = {} /\ local[c].invalid \intersect table = {}
  <2>1. CallInv(c) /\ pc[c] # "idle" /\ c \notin InFlight
    BY <1>1 DEF PushInv, CallInv
  <2>2. Told(c)
    BY <2>1 DEF CallInv, InFlight
  <2>3. \A i \in local[c].invalid : i \notin table
    BY <1>1, <2>2 DEF Told, PushInv, TableInv, Gone
  <2>4. QED
    BY <1>1, <2>2, <2>3 DEF Told
<1>2. PushInv => DeliveryComplete
  BY <1>1 DEF DeliveryComplete
<1>3. QED
  BY <1>2, PushInvHolds, PTL

\* Nobody's token is removed by anybody else's registration or delivery.
THEOREM RemovedByOwnerHolds == Spec => RemovedByOwner
<1> DEFINE Owned == \A r \in table \ table' :
                      \E d \in dropped' \ dropped : d.row = r /\ local[d.by].user = r.user
<1>1. ASSUME PushInv, NEW c \in Calls, NEW rows, Drop(c, rows),
             \A r \in rows \intersect table : r.user = local[c].user
      PROVE  Owned
  <2>1. ASSUME NEW r \in table \ table'
        PROVE  \E d \in dropped' \ dropped : d.row = r /\ local[d.by].user = r.user
    <3>1. r \in rows \intersect table /\ [row |-> r, by |-> c] \in dropped'
      BY <1>1, <2>1 DEF Drop
    <3>2. [row |-> r, by |-> c] \notin dropped
      BY <1>1, <2>1 DEF PushInv, TableInv
    <3>3. QED
      BY <1>1, <3>1, <3>2
  <2>2. QED
    BY <2>1
<1>2. ASSUME PushInv, [Next]_vars PROVE [Owned]_vars
  <2>1. ASSUME NEW c \in Calls, Commit(c) PROVE Owned
    <3>1. Drop(c, {local[c].row})
      BY <2>1 DEF Commit
    <3>2. \A r \in {local[c].row} \intersect table : r.user = local[c].user
      <4>1. local[c].row = NoRow \/ local[c].row.user = local[c].user
        BY <1>2, <2>1 DEF PushInv, CallInv, Commit
      <4>2. NoRow \notin table
        <5>1. \A r \in table : r.token \in Tokens
          BY <1>2 DEF PushInv, TypeOK, Row
        <5>2. QED
          BY <5>1, NoneAssumption DEF NoRow
      <4>3. QED
        BY <4>1, <4>2
    <3>3. QED
      BY <1>1, <1>2, <3>1, <3>2
  <2>2. ASSUME NEW c \in Calls, Clean(c) PROVE Owned
    <3>1. PICK rows \in SUBSET table : Drop(c, rows) /\ \A r \in rows : r.user = local[c].user
      BY <2>2 DEF Clean
    <3>2. QED
      BY <1>1, <1>2, <3>1
  <2>3. ASSUME NEW c \in Calls, Arrive(c) PROVE table \subseteq table'
    BY <2>3 DEF Arrive, Check, Send
  <2>4. ASSUME NEW c \in Calls, Proceed(c), ~Commit(c), ~Clean(c) PROVE table \subseteq table'
    BY <2>4 DEF Proceed, Insert, Find, Delete, Load
  <2>5. ASSUME NEW c \in Calls, CommitFails(c) \/ CallFails(c) PROVE table \subseteq table'
    BY <2>5 DEF CommitFails, CallFails
  <2>6. ASSUME table \subseteq table' PROVE Owned
    BY <2>6
  <2> HIDE DEF Owned
  <2>7. QED
    BY <1>2, <2>1, <2>2, <2>3, <2>4, <2>5, <2>6 DEF Next
<1>3. QED
  BY <1>2, PushInvHolds, PTL DEF Spec, RemovedByOwner
-----------------------------------------------------------------------------
(* Connections and waiting *)

\* A call opens a transaction with a connection, ends it by giving that back, or
\* stays in or out of one.
LEMMA ConnsKept ==
  ASSUME TypeOK, ConnsOfTransactions, NEW c \in Calls, NEW step,
         pc' = [pc EXCEPT ![c] = step],
         \/ conns' = conns /\ (pc[c] \in TxSteps <=> step \in TxSteps)
         \/ conns' = conns \union {c} /\ step \in TxSteps
         \/ conns' = conns \ {c} /\ step \notin TxSteps
  PROVE  ConnsOfTransactions'
<1>1. pc'[c] = step /\ \A d \in Calls \ {c} : pc'[d] = pc[d]
  BY DEF TypeOK
<1>2. (\A d \in Calls : d \in conns' <=> pc'[d] \in TxSteps) /\ conns' \subseteq Calls
  BY <1>1 DEF ConnsOfTransactions
<1>3. QED
  BY <1>2 DEF ConnsOfTransactions

LEMMA ConnsStep == TypeOK /\ ConnsOfTransactions /\ [Next]_vars => ConnsOfTransactions'
<1> SUFFICES ASSUME TypeOK, ConnsOfTransactions, [Next]_vars PROVE ConnsOfTransactions'
  OBVIOUS
<1>1. CASE UNCHANGED vars
  BY <1>1 DEF vars, ConnsOfTransactions
<1>2. ASSUME NEW c \in Calls, NEW result, EndsTx(c, result) PROVE ConnsOfTransactions'
  BY <1>2, ConnsKept DEF EndsTx, Ends, TxSteps
<1>3. ASSUME NEW c \in Calls, NEW u, NEW t, NEW p, NEW old, Check(c, u, t, p, old)
      PROVE  ConnsOfTransactions'
  <2>1. CASE Ends(c, "conflict") /\ UNCHANGED conns
    BY <1>3, <2>1, ConnsKept DEF Check, Arrives, Ends, TxSteps
  <2>2. CASE GoTo(c, "insert") /\ conns' = conns \union {c}
    BY <2>2, ConnsKept DEF GoTo, TxSteps
  <2>3. QED
    BY <1>3, <2>1, <2>2 DEF Check
<1>4. ASSUME NEW c \in Calls, NEW u, Send(c, u) PROVE ConnsOfTransactions'
  BY <1>4, ConnsKept DEF Send, Arrives, GoTo, TxSteps
<1>5. ASSUME NEW c \in Calls, Insert(c) \/ Find(c) \/ Delete(c) PROVE ConnsOfTransactions'
  <2>1. CASE \E result : EndsTx(c, result)
    BY <1>2, <2>1
  <2>2. CASE UNCHANGED conns /\ \E step \in TxSteps : GoTo(c, step)
    BY <1>5, <2>2, ConnsKept DEF Insert, Find, Delete, GoTo, TxSteps
  <2>3. QED
    BY <1>5, <2>1, <2>2 DEF Insert, Find, Delete, TxSteps
<1>6. ASSUME NEW c \in Calls, Commit(c) \/ CommitFails(c) \/ CallFails(c)
      PROVE  ConnsOfTransactions'
  BY <1>2, <1>6 DEF Commit, CommitFails, CallFails
<1>7. ASSUME NEW c \in Calls, Load(c) \/ Clean(c) PROVE ConnsOfTransactions'
  <2>1. PICK step \in {"load", "clean", "done"} : pc' = [pc EXCEPT ![c] = step]
    BY <1>7 DEF Load, Clean, GoTo, Ends
  <2>2. QED
    BY <1>7, <2>1, ConnsKept DEF Load, Clean, TxSteps
<1>8. QED
  BY <1>1, <1>3, <1>4, <1>5, <1>6, <1>7 DEF Next, Arrive, Proceed

\* A connection is held exactly by the calls with an open transaction.
THEOREM ConnsOfTransactionsHolds == Spec => []ConnsOfTransactions
<1>1. Init => ConnsOfTransactions
  BY DEF Init, ConnsOfTransactions, TxSteps
<1>2. QED
  BY <1>1, ConnsStep, TypeCorrect, PTL DEF Spec

\* Who has deleted a row waits for nothing, so when all wait they wait for
\* connections, and the only transactions that do are about to insert.
THEOREM GridlockIsStarvationHolds == Spec => []GridlockIsStarvation
<1>1. ASSUME TypeOK, ConnsOfTransactions PROVE GridlockIsStarvation
  <2> DEFINE Inserting == {c \in Calls : pc[c] = "insert"}
  <2> SUFFICES ASSUME NEW e \in InFlight, \A c \in InFlight : Waits(c)
               PROVE  Starved /\ Cardinality(Inserting) >= Conns
      BY DEF GridlockIsStarvation
  <2>1. \A d \in Calls : pc[d] # "commit"
    BY DEF InFlight, Waits
  <2>2. \A c \in InFlight : pc[c] \in {"insert", "load", "clean"} /\ ~ConnFree
    BY <2>1 DEF Waits, Locked
  <2>3. \A c \in conns : c \in Calls /\ pc[c] = "insert"
    BY <1>1, <2>2 DEF ConnsOfTransactions, InFlight, TxSteps
  <2>4. Starved
    BY <2>2, <2>3 DEF Starved
  <2>5. IsFiniteSet(Inserting)
    <3>1. IsFiniteSet(Calls)
      BY BoundsAssumption, FS_Interval DEF Calls
    <3>2. QED
      BY <3>1, FS_Subset
  <2>6. conns \subseteq Inserting
    BY <2>3
  <2>7. /\ Cardinality(conns) <= Cardinality(Inserting)
        /\ Cardinality(conns) \in Nat /\ Cardinality(Inserting) \in Nat
    BY <2>5, <2>6, FS_Subset, FS_CardinalityType
  <2>8. ~(Cardinality(conns) < Conns)
    BY <2>2 DEF ConnFree
  <2>9. QED
    BY <2>4, <2>7, <2>8, ConnsAssumption
<1>2. TypeOK /\ ConnsOfTransactions => GridlockIsStarvation
  BY <1>1
<1>3. QED
  BY <1>2, TypeCorrect, ConnsOfTransactionsHolds, PTL
=============================================================================
