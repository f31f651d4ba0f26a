------------------------ MODULE VaultProvisioningProofs ------------------------
(***************************************************************************)
(* Proofs about VaultProvisioning, for every set of users, organizations   *)
(* and chains, and any number of calls.                                    *)
(***************************************************************************)
EXTENDS VaultProvisioning, TLAPS

WalletSteps == {"chain", "key", "insertWallet"}

Member(c) == <<local[c].org, local[c].user>> \in members \/ c \in ousted

\* The i-th chain of a call has its wallet or a failed attempt.
Attempted(c, i) == (\E w \in wallets : w.id = <<c, i>>) \/ <<c, i>> \in failed

\* The call has created nothing.
Untouched(c) == (\A v \in vaults : v.id # c) /\ (\A w \in wallets : w.id[1] # c)

\* What a call that creates wallets has done so far.
Provisioning(c) ==
  /\ local[c].kind \in {"vault", "wallet"}
  /\ local[c].chains \in ChainLists
  /\ local[c].at \in 1 .. Len(local[c].chains)
  /\ local[c].vault = c \/ \E v \in vaults : v.id = local[c].vault
  /\ local[c].kind = "wallet" /\ local[c].user # Nobody =>
       \E v \in vaults : v.id = local[c].vault /\ v.org = local[c].org
  /\ local[c].kind = "vault" =>
       /\ \E v \in vaults : v.id = c
       /\ \A i \in 1 .. (local[c].at - 1) : Attempted(c, i)
  /\ local[c].kind = "wallet" =>
       /\ Len(local[c].chains) = 1
       /\ \A v \in vaults : v.id # c
  /\ \A w \in wallets : w.id[1] = c => w.id[2] \in 1 .. (local[c].at - 1)

\* AnswersTrue for one call.
Answered(c) ==
  /\ answer[c] = "error" => Untouched(c)
  /\ answer[c] = "ok" /\ local[c].kind = "wallet" => \E w \in wallets : w.id = <<c, 1>>
  /\ answer[c] = "ok" /\ local[c].kind = "vault" =>
       /\ \E v \in vaults : v.id = c
       /\ \A i \in DOMAIN local[c].chains : Attempted(c, i)

\* Everything that is known of a call at each of its steps.
CallInv(c) ==
  /\ pc[c] = "idle" => local[c] = NoLocal /\ answer[c] = "none" /\ Untouched(c)
  /\ c \in InFlight => /\ answer[c] = "none"
                       /\ local[c] \in Local
                       /\ \A o \in local[c].read : Exists(o) /\ owner[o] = local[c].user
  /\ pc[c] \in {"addMember", "removeMember"} =>
       /\ local[c].kind = "member" /\ local[c].org \in Orgs /\ local[c].user \in Users
       /\ Untouched(c)
  /\ pc[c] = "addMember" => Exists(local[c].org)
  /\ pc[c] \in {"memberships", "insertVault"} =>
       /\ local[c].kind = "vault" /\ local[c].vault = c /\ local[c].at = 1
       /\ local[c].chains \in ChainLists /\ Untouched(c)
  /\ pc[c] = "insertVault" =>
       /\ local[c].org \in Orgs /\ Exists(local[c].org)
       /\ owner[local[c].org] = local[c].user
  /\ pc[c] = "isMember" => local[c].kind = "wallet" /\ Untouched(c)
  /\ pc[c] \in {"isMember"} \union WalletSteps => Provisioning(c)
  /\ pc[c] \in WalletSteps /\ local[c].kind = "wallet" =>
       Member(c) \/ local[c].user = Nobody
  /\ pc[c] = "insertWallet" => ThisKey(c) \in keys
  /\ pc[c] = "done" => Answered(c)

\* A key that was asked for has its wallet, a failed attempt or a lost call, or
\* its call is at it.
Accounted(k) ==
  \/ \E w \in wallets : w.id = k
  \/ k \in failed
  \/ answer[k[1]] = "lost" /\ pc[k[1]] = "done"
  \/ pc[k[1]] \in {"key", "insertWallet"} /\ k = ThisKey(k[1])

AskedAccounted == \A k \in asked : Accounted(k)

TableInv ==
  /\ WalletHasKey
  /\ \A m \in members : Exists(m[1])
  /\ keys \subseteq asked

ProvisioningInv ==
  /\ TypeOK
  /\ TableInv
  /\ AskedAccounted
  /\ \A c \in Calls : CallInv(c)

-----------------------------------------------------------------------------
(* Steps that leave a call alone *)

\* The tables grow, except that a member may be removed, which is remembered.
TablesGrow ==
  /\ \A o \in Orgs : Exists(o) => owner'[o] = owner[o]
  /\ vaults \subseteq vaults' /\ wallets \subseteq wallets'
  /\ keys \subseteq keys' /\ failed \subseteq failed'

\* A call keeps what is known of it when another one takes a step.
LEMMA CallKept ==
  ASSUME NEW c \in Calls, CallInv(c), TypeOK, TablesGrow,
         pc'[c] = pc[c], local'[c] = local[c], answer'[c] = answer[c],
         \A v \in vaults' \ vaults : v.id # c,
         \A w \in wallets' \ wallets : w.id[1] # c,
         c \in InFlight /\ Member(c) => Member(c)'
  PROVE  CallInv(c)'
<1>1. Untouched(c) => Untouched(c)'
  BY DEF Untouched
<1>2. \A i : Attempted(c, i) => Attempted(c, i)'
  BY DEF Attempted, TablesGrow
<1>3. (c \in InFlight) <=> (c \in InFlight)'
  BY DEF InFlight
<1>4. pc[c] \in {"isMember"} \union WalletSteps /\ Provisioning(c) => Provisioning(c)'
  BY <1>2 DEF Provisioning, TablesGrow
<1>5. Answered(c) => Answered(c)'
  BY <1>1, <1>2 DEF Answered, TablesGrow
<1>6. \A o \in Orgs : Exists(o) => Exists(o)' /\ owner'[o] = owner[o]
  BY DEF TablesGrow, Exists
<1>7. c \in InFlight => local[c].read \subseteq Orgs /\ local[c].org \in Orgs \union {Nobody}
  BY DEF CallInv, Local
<1>8. pc[c] \in {"insertVault"} \union WalletSteps => c \in InFlight
  BY DEF WalletSteps, InFlight
<1>9. CASE pc[c] = "idle"
  BY <1>1, <1>9 DEF CallInv, InFlight, WalletSteps
<1>10. CASE pc[c] = "done"
  BY <1>5, <1>10 DEF CallInv, InFlight, WalletSteps
<1>11. CASE pc[c] \in {"addMember", "removeMember"}
  BY <1>1, <1>3, <1>6, <1>7, <1>11 DEF CallInv, InFlight, WalletSteps
<1>12. CASE pc[c] \in {"memberships", "insertVault"}
  <2>1. pc[c] = "insertVault" =>
          owner'[local[c].org] = local[c].user
    BY <1>8 DEF CallInv, TablesGrow
  <2>2. QED
    BY <1>1, <1>3, <1>6, <1>7, <1>12, <2>1 DEF CallInv, InFlight, WalletSteps
<1>13. CASE pc[c] = "isMember"
  BY <1>1, <1>3, <1>4, <1>6, <1>7, <1>13 DEF CallInv, InFlight, WalletSteps
<1>14. CASE pc[c] \in WalletSteps
  <2>1. pc[c] = "insertWallet" => ThisKey(c)' \in keys'
    BY DEF CallInv, TablesGrow, ThisKey
  <2>2. QED
    BY <1>1, <1>3, <1>4, <1>6, <1>7, <1>8, <1>14, <2>1 DEF CallInv, InFlight, WalletSteps
<1>15. QED
  <2>1. pc[c] \in Steps
    BY DEF TypeOK
  <2>2. QED
    BY <1>9, <1>10, <1>11, <1>12, <1>13, <1>14, <2>1 DEF Steps, WalletSteps

\* A step of call c writes nothing of another call; what it adds to the tables
\* is its own, and a member it removes is remembered by the calls in flight.
Frame(c) ==
  /\ TablesGrow
  /\ \A d \in Calls \ {c} : pc'[d] = pc[d] /\ local'[d] = local[d] /\ answer'[d] = answer[d]
  /\ \A v \in vaults' \ vaults : v.id = c
  /\ \A w \in wallets' \ wallets : w.id[1] = c
  /\ \A d \in Calls \ {c} : d \in InFlight /\ Member(d) => Member(d)'

\* What remains to be shown of a step of call c.
LEMMA StepOf ==
  ASSUME NEW c \in Calls, ProvisioningInv, Frame(c),
         TypeOK', TableInv', AskedAccounted', CallInv(c)'
  PROVE  ProvisioningInv'
<1>1. ASSUME NEW d \in Calls \ {c} PROVE CallInv(d)'
  <2>1. /\ CallInv(d) /\ TypeOK
    BY DEF ProvisioningInv
  <2>2. /\ TablesGrow
        /\ pc'[d] = pc[d] /\ local'[d] = local[d] /\ answer'[d] = answer[d]
        /\ \A v \in vaults' \ vaults : v.id # d
        /\ \A w \in wallets' \ wallets : w.id[1] # d
        /\ d \in InFlight /\ Member(d) => Member(d)'
    BY DEF Frame
  <2>3. QED
    BY <2>1, <2>2, CallKept
<1>2. QED
  BY <1>1 DEF ProvisioningInv

\* A step of call c that asks for no key accounts for the one it has asked for.
LEMMA AskedKept ==
  ASSUME NEW c \in Calls, ProvisioningInv, Frame(c), asked' = asked, pc[c] # "done",
         \A k \in asked : pc[c] \in {"key", "insertWallet"} /\ k = ThisKey(c) => Accounted(k)'
  PROVE  AskedAccounted'
<1> SUFFICES ASSUME NEW k \in asked PROVE Accounted(k)'
  BY DEF AskedAccounted
<1>1. Accounted(k) /\ k[1] \in Calls
  BY DEF ProvisioningInv, AskedAccounted, TypeOK, KeyId
<1>2. CASE k[1] = c
  BY <1>1, <1>2 DEF Accounted, Frame, TablesGrow, ThisKey
<1>3. CASE k[1] # c
  BY <1>1, <1>3 DEF Accounted, Frame, TablesGrow, ThisKey
<1>4. QED
  BY <1>2, <1>3

\* Frame of the steps that write no table but, perhaps, failed.
LEMMA FrameOfCall ==
  ASSUME NEW c \in Calls, TypeOK, UNCHANGED <<tables, keys, ousted>>, failed \subseteq failed',
         \A d \in Calls \ {c} : pc'[d] = pc[d] /\ local'[d] = local[d] /\ answer'[d] = answer[d]
  PROVE  Frame(c)
BY DEF Frame, TablesGrow, Member, tables

LEMMA TablesKept ==
  ASSUME TableInv, UNCHANGED <<tables, keys>>, asked \subseteq asked'
  PROVE  TableInv'
BY DEF TableInv, WalletHasKey, Exists, tables

-----------------------------------------------------------------------------
(* Organizations and members *)

LEMMA CreateOrganizationStep ==
  ASSUME NEW c \in Calls, NEW o \in Orgs, NEW u \in Users, ProvisioningInv,
         CreateOrganization(c, o, u)
  PROVE  ProvisioningInv'
<1> USE DEF CreateOrganization, Arrives, Ends, infra
<1>0. TypeOK /\ TableInv /\ CallInv(c)
  BY DEF ProvisioningInv
<1>1. TypeOK'
  BY <1>0 DEF TypeOK, Steps
<1>2. \A x \in Orgs : Exists(x) => Exists(x)' /\ owner'[x] = owner[x]
  BY <1>0 DEF Exists, TypeOK
<1>3. TableInv'
  BY <1>0, <1>2 DEF TableInv, WalletHasKey, TypeOK, Vault
<1>4. Frame(c)
  BY <1>0, <1>2 DEF Frame, TablesGrow, Member, TypeOK
<1>5. AskedAccounted'
  BY <1>4, AskedKept
<1>6. CallInv(c)'
  BY <1>0 DEF CallInv, InFlight, WalletSteps, Untouched, Answered, NoLocal, TypeOK
<1>7. QED
  BY <1>1, <1>3, <1>4, <1>5, <1>6, StepOf

LEMMA MemberFindStep ==
  ASSUME NEW c \in Calls, NEW o \in Orgs, NEW u \in Users, ProvisioningInv,
         AddMemberFind(c, o, u) \/ RemoveMemberFind(c, o, u)
  PROVE  ProvisioningInv'
<1> USE DEF AddMemberFind, RemoveMemberFind, Arrives, Binds, GoTo, infra
<1>0. TypeOK /\ TableInv /\ CallInv(c)
  BY DEF ProvisioningInv
<1>1. /\ local' = [local EXCEPT ![c] = local'[c]] /\ local'[c] \in Local
      /\ local'[c].kind = "member" /\ local'[c].org = o /\ local'[c].user = u
      /\ local'[c].read = {}
  BY <1>0 DEF TypeOK, Local
<1>2. TypeOK'
  BY <1>0, <1>1 DEF TypeOK, Steps, tables
<1>3. TableInv'
  BY <1>0, TablesKept
<1>4. Frame(c)
  BY <1>0, FrameOfCall DEF TypeOK
<1>5. AskedAccounted'
  BY <1>4, AskedKept
<1>6. CallInv(c)'
  BY <1>0, <1>1 DEF CallInv, InFlight, WalletSteps, Untouched, TypeOK, Exists, tables
<1>7. QED
  BY <1>2, <1>3, <1>4, <1>5, <1>6, StepOf

LEMMA AddMemberStep ==
  ASSUME NEW c \in Calls, ProvisioningInv, AddMember(c)
  PROVE  ProvisioningInv'
<1> USE DEF AddMember, Ends, infra
<1>0. TypeOK /\ TableInv /\ CallInv(c)
  BY DEF ProvisioningInv
<1>1. local[c] \in Local /\ local[c].kind = "member" /\ local[c].org \in Orgs
      /\ local[c].user \in Users /\ Exists(local[c].org) /\ Untouched(c)
  BY <1>0 DEF CallInv, InFlight, Local
<1>2. TypeOK'
  BY <1>0, <1>1 DEF TypeOK, Steps
<1>3. TableInv'
  BY <1>0, <1>1 DEF TableInv, WalletHasKey, Exists
<1>4. Frame(c)
  BY <1>0 DEF Frame, TablesGrow, Member, TypeOK
<1>5. AskedAccounted'
  BY <1>4, AskedKept
<1>6. CallInv(c)'
  BY <1>0, <1>1 DEF CallInv, InFlight, WalletSteps, Untouched, Answered, TypeOK
<1>7. QED
  BY <1>2, <1>3, <1>4, <1>5, <1>6, StepOf

LEMMA RemoveMemberStep ==
  ASSUME NEW c \in Calls, ProvisioningInv, RemoveMember(c)
  PROVE  ProvisioningInv'
<1> USE DEF RemoveMember, Ends, infra
<1>0. TypeOK /\ TableInv /\ CallInv(c)
  BY DEF ProvisioningInv
<1>1. local[c].kind = "member" /\ Untouched(c)
  BY <1>0 DEF CallInv
<1>2. TypeOK'
  BY <1>0 DEF TypeOK, Steps, InFlight
<1>3. TableInv'
  BY <1>0 DEF TableInv, WalletHasKey, Exists
<1>4. Frame(c)
  <2>1. ASSUME NEW d \in Calls \ {c}, d \in InFlight, Member(d) PROVE Member(d)'
    <3>1. local[d] \in Local /\ local'[d] = local[d]
      BY <2>1 DEF ProvisioningInv, CallInv
    <3>2. CASE <<local[d].org, local[d].user>> = <<local[c].org, local[c].user>>
      BY <2>1, <3>1, <3>2 DEF Member
    <3>3. CASE <<local[d].org, local[d].user>> # <<local[c].org, local[c].user>>
      BY <2>1, <3>1, <3>3 DEF Member
    <3>4. QED
      BY <3>2, <3>3
  <2>2. QED
    BY <1>0, <2>1 DEF Frame, TablesGrow, TypeOK
<1>5. AskedAccounted'
  BY <1>4, AskedKept
<1>6. CallInv(c)'
  BY <1>0, <1>1 DEF CallInv, InFlight, WalletSteps, Untouched, Answered, TypeOK
<1>7. QED
  BY <1>2, <1>3, <1>4, <1>5, <1>6, StepOf

-----------------------------------------------------------------------------
(* Creating a vault *)

LEMMA ListHasChain ==
  ASSUME NEW l \in ChainLists, NEW i \in 1 .. Len(l)
  PROVE  l[i] \in ChainNames /\ Len(l) \in Nat /\ i \in Nat /\ DOMAIN l = 1 .. Len(l)
BY ListsAssumption

LEMMA OwnedOrganizationsStep ==
  ASSUME NEW c \in Calls, NEW u \in Users, NEW list \in ChainLists, ProvisioningInv,
         OwnedOrganizations(c, u, list)
  PROVE  ProvisioningInv'
<1> USE DEF OwnedOrganizations, Arrives, Binds, GoTo, infra
<1>0. TypeOK /\ TableInv /\ CallInv(c)
  BY DEF ProvisioningInv
<1>1. /\ local' = [local EXCEPT ![c] = local'[c]] /\ local'[c] \in Local
      /\ local'[c].kind = "vault" /\ local'[c].vault = c /\ local'[c].at = 1
      /\ local'[c].chains \in ChainLists /\ local'[c].read = {o \in Orgs : owner[o] = u}
  BY <1>0 DEF TypeOK, Local
<1>2. TypeOK'
  BY <1>0, <1>1 DEF TypeOK, Steps, tables
<1>3. TableInv'
  BY <1>0, TablesKept
<1>4. Frame(c)
  BY <1>0, FrameOfCall DEF TypeOK
<1>5. AskedAccounted'
  BY <1>4, AskedKept
<1>6. \A o \in local'[c].read : Exists(o)' /\ owner'[o] = local'[c].user
  BY <1>0, <1>1, NobodyAssumption DEF Exists, tables, TypeOK
<1>7. CallInv(c)'
  BY <1>0, <1>1, <1>6 DEF CallInv, InFlight, WalletSteps, Untouched, TypeOK, tables
<1>8. QED
  BY <1>2, <1>3, <1>4, <1>5, <1>7, StepOf

LEMMA MembershipsStep ==
  ASSUME NEW c \in Calls, ProvisioningInv, Memberships(c)
  PROVE  ProvisioningInv'
<1> USE DEF infra
<1>0. TypeOK /\ TableInv /\ CallInv(c) /\ pc[c] = "memberships" /\ UNCHANGED <<tables, keys, asked, failed, broken, ousted>>
  BY DEF ProvisioningInv, Memberships
<1>1. /\ local[c] \in Local /\ local[c].kind = "vault" /\ local[c].vault = c /\ local[c].at = 1
      /\ local[c].chains \in ChainLists /\ Untouched(c) /\ answer[c] = "none"
      /\ local[c].read \subseteq Orgs
      /\ \A o \in local[c].read : Exists(o) /\ owner[o] = local[c].user
  BY <1>0 DEF CallInv, InFlight, Local
<1>2. TableInv'
  BY <1>0, TablesKept
<1>3. CASE Ends(c, "error") /\ UNCHANGED local
  <2>1. TypeOK'
    BY <1>0, <1>3 DEF TypeOK, Steps, tables, Ends
  <2>2. Frame(c)
    BY <1>0, <1>3, FrameOfCall DEF TypeOK, Ends
  <2>3. AskedAccounted'
    BY <1>0, <2>2, AskedKept
  <2>4. CallInv(c)'
    BY <1>0, <1>1, <1>3 DEF CallInv, InFlight, WalletSteps, Untouched, Answered, TypeOK, Ends, tables
  <2>5. QED
    BY <1>2, <2>1, <2>2, <2>3, <2>4, StepOf
<1>4. CASE ~(Ends(c, "error") /\ UNCHANGED local)
  <2>1. PICK o \in local[c].read :
             local' = [local EXCEPT ![c].org = o] /\ GoTo(c, "insertVault")
    BY <1>4 DEF Memberships
  <2>2. o \in Orgs /\ Exists(o) /\ owner[o] = local[c].user
    BY <1>1, <2>1
  <2>3. /\ local' = [local EXCEPT ![c] = local'[c]] /\ local'[c] \in Local
        /\ local'[c] = [local[c] EXCEPT !.org = o]
    BY <1>0, <1>1, <2>1, <2>2 DEF TypeOK, Local
  <2>4. /\ local'[c].kind = "vault" /\ local'[c].vault = c /\ local'[c].at = 1
        /\ local'[c].chains \in ChainLists /\ local'[c].read = local[c].read
        /\ local'[c].org = o /\ local'[c].user = local[c].user
    BY <1>1, <2>3 DEF Local
  <2>5. TypeOK'
    BY <1>0, <2>1, <2>3 DEF TypeOK, Steps, tables, GoTo
  <2>6. Frame(c)
    BY <1>0, <2>1, FrameOfCall DEF TypeOK, GoTo
  <2>7. AskedAccounted'
    BY <1>0, <2>6, AskedKept
  <2>8. owner'[o] = local'[c].user
    BY <1>0, <2>2, <2>4 DEF tables
  <2>9. CallInv(c)'
    BY <1>0, <1>1, <2>1, <2>2, <2>3, <2>4, <2>8
    DEF CallInv, InFlight, WalletSteps, Untouched, TypeOK, GoTo, tables, Exists
  <2>10. QED
    BY <1>2, <2>5, <2>6, <2>7, <2>9, StepOf
<1>5. QED
  BY <1>3, <1>4

LEMMA InsertVaultStep ==
  ASSUME NEW c \in Calls, ProvisioningInv, InsertVault(c)
  PROVE  ProvisioningInv'
<1> DEFINE new == [id |-> c, org |-> local[c].org]
<1> USE DEF infra
<1>0. /\ TypeOK /\ TableInv /\ CallInv(c) /\ pc[c] = "insertVault"
      /\ UNCHANGED <<owner, members, wallets, asked, keys, failed, broken, local, ousted>>
      /\ vaults' = vaults \union {new}
      /\ IF local[c].chains = <<>> THEN Ends(c, "ok") ELSE GoTo(c, "chain")
  BY DEF ProvisioningInv, InsertVault
<1>1. /\ local[c] \in Local /\ local[c].kind = "vault" /\ local[c].vault = c /\ local[c].at = 1
      /\ local[c].chains \in ChainLists /\ Untouched(c) /\ answer[c] = "none"
      /\ local[c].org \in Orgs /\ Exists(local[c].org)
      /\ \A o \in local[c].read : Exists(o) /\ owner[o] = local[c].user
  BY <1>0 DEF CallInv, InFlight
<1>2. new \in Vault
  BY <1>1 DEF Vault
<1>3. TypeOK'
  BY <1>0, <1>2 DEF TypeOK, Steps, Ends, GoTo
<1>4. TableInv'
  BY <1>0, <1>1 DEF TableInv, WalletHasKey, Exists
<1>5. Frame(c)
  BY <1>0 DEF Frame, TablesGrow, Member, Ends, GoTo, TypeOK
<1>6. AskedAccounted'
  BY <1>0, <1>5, AskedKept
<1>7. \E v \in vaults' : v.id = c
  <2>1. new \in vaults' /\ new.id = c
    BY <1>0
  <2>2. QED
    BY <2>1
<1>8. CallInv(c)'
  <2>1. CASE local[c].chains = <<>>
    <3>1. DOMAIN local[c].chains = {}
      BY <2>1
    <3>2. Answered(c)'
      BY <1>0, <1>1, <1>7, <2>1, <3>1 DEF Answered, Ends, TypeOK
    <3>3. QED
      BY <1>0, <2>1, <3>2 DEF CallInv, InFlight, WalletSteps, Ends, TypeOK
  <2>2. CASE local[c].chains # <<>>
    <3>1. 1 \in 1 .. Len(local[c].chains)
      BY <1>1, <2>2, ListsAssumption
    <3>2. Provisioning(c)'
      BY <1>0, <1>1, <1>7, <3>1 DEF Provisioning, Untouched
    <3>3. QED
      BY <1>0, <1>1, <2>2, <3>2 DEF CallInv, InFlight, WalletSteps, GoTo, TypeOK, Exists
  <2>3. QED
    BY <2>1, <2>2
<1>9. QED
  BY <1>3, <1>4, <1>5, <1>6, <1>8, StepOf

-----------------------------------------------------------------------------
(* Creating a wallet *)

LEMMA FindVaultStep ==
  ASSUME NEW c \in Calls, NEW u \in Users, NEW list \in ChainLists, NEW v \in vaults,
         ProvisioningInv, FindVault(c, u, v, list)
  PROVE  ProvisioningInv'
<1> USE DEF FindVault, Arrives, Binds, GoTo, infra
<1>0. TypeOK /\ TableInv /\ CallInv(c) /\ v \in Vault
  BY DEF ProvisioningInv, TypeOK
<1>1. /\ local' = [local EXCEPT ![c] = local'[c]] /\ local'[c] \in Local
      /\ local'[c].kind = "wallet" /\ local'[c].vault = v.id /\ local'[c].at = 1
      /\ local'[c].chains = list /\ local'[c].read = {} /\ local'[c].org = v.org
  BY <1>0 DEF TypeOK, Local, Vault
<1>2. TypeOK'
  BY <1>0, <1>1 DEF TypeOK, Steps, tables
<1>3. TableInv'
  BY <1>0, TablesKept
<1>4. Frame(c)
  BY <1>0, FrameOfCall DEF TypeOK
<1>5. AskedAccounted'
  BY <1>4, AskedKept
<1>6. Untouched(c)'
  BY <1>0 DEF CallInv, Untouched, tables
<1>7. Provisioning(c)'
  <2>1. v \in vaults' /\ v.id = local'[c].vault /\ v.org = local'[c].org
    BY <1>1 DEF tables
  <2>2. local'[c].at \in 1 .. Len(local'[c].chains) /\ Len(local'[c].chains) = 1
    <3>1. Len(list) = 1
      OBVIOUS
    <3> HIDE DEF FindVault, Arrives, Binds, GoTo, infra
    <3>2. QED
      BY <1>1, <3>1
  <2>3. \E x \in vaults' : x.id = local'[c].vault /\ x.org = local'[c].org
    BY <2>1
  <2>4. QED
    BY <1>1, <1>6, <2>2, <2>3 DEF Provisioning, Untouched
<1>8. CallInv(c)'
  BY <1>0, <1>1, <1>6, <1>7 DEF CallInv, InFlight, WalletSteps, TypeOK
<1>9. QED
  BY <1>2, <1>3, <1>4, <1>5, <1>8, StepOf

LEMMA GrpcCreateWalletStep ==
  ASSUME NEW c \in Calls, NEW list \in ChainLists, NEW v \in {x.id : x \in vaults} \union {c},
         ProvisioningInv, GrpcCreateWallet(c, v, list)
  PROVE  ProvisioningInv'
<1> USE DEF GrpcCreateWallet, Arrives, Binds, GoTo, infra
<1>0. TypeOK /\ TableInv /\ CallInv(c) /\ v \in Calls
  BY DEF ProvisioningInv, TypeOK, Vault
<1>1. /\ local' = [local EXCEPT ![c] = local'[c]] /\ local'[c] \in Local
      /\ local'[c].kind = "wallet" /\ local'[c].user = Nobody /\ local'[c].at = 1
      /\ local'[c].vault = v
      /\ local'[c].chains = list /\ local'[c].read = {}
  BY <1>0 DEF TypeOK, Local
<1>2. TypeOK'
  BY <1>0, <1>1 DEF TypeOK, Steps, tables
<1>3. TableInv'
  BY <1>0, TablesKept
<1>4. Frame(c)
  BY <1>0, FrameOfCall DEF TypeOK
<1>5. AskedAccounted'
  BY <1>4, AskedKept
<1>6. Untouched(c)'
  BY <1>0 DEF CallInv, Untouched, tables
<1>7. Provisioning(c)'
  <2>1. local'[c].at \in 1 .. Len(local'[c].chains) /\ Len(local'[c].chains) = 1
    BY <1>1
  <2>2. local'[c].vault = c \/ \E x \in vaults' : x.id = local'[c].vault
    BY <1>1 DEF tables
  <2>3. QED
    BY <1>1, <1>6, <2>1, <2>2 DEF Provisioning, Untouched
<1>8. CallInv(c)'
  BY <1>0, <1>1, <1>6, <1>7 DEF CallInv, InFlight, WalletSteps, TypeOK
<1>9. QED
  BY <1>2, <1>3, <1>4, <1>5, <1>8, StepOf

LEMMA IsMemberStep ==
  ASSUME NEW c \in Calls, ProvisioningInv, IsMember(c)
  PROVE  ProvisioningInv'
<1> USE DEF infra
<1>0. /\ TypeOK /\ TableInv /\ CallInv(c) /\ pc[c] = "isMember"
      /\ UNCHANGED <<tables, asked, keys, failed, broken, local, ousted>>
      /\ IF <<local[c].org, local[c].user>> \in members THEN GoTo(c, "chain") ELSE Ends(c, "error")
  BY DEF ProvisioningInv, IsMember
<1>1. /\ local[c].kind = "wallet" /\ Untouched(c) /\ Provisioning(c)
  BY <1>0 DEF CallInv
<1>2. TypeOK'
  BY <1>0 DEF TypeOK, Steps, Ends, GoTo, tables
<1>3. TableInv'
  BY <1>0, TablesKept
<1>4. Frame(c)
  BY <1>0, FrameOfCall DEF TypeOK, Ends, GoTo
<1>5. AskedAccounted'
  BY <1>0, <1>4, AskedKept
<1>6. Provisioning(c)' /\ Untouched(c)'
  BY <1>0, <1>1 DEF Provisioning, Untouched, Attempted, tables
<1>7. CASE GoTo(c, "chain") /\ <<local[c].org, local[c].user>> \in members
  <2>1. CallInv(c)'
    BY <1>0, <1>1, <1>6, <1>7
    DEF CallInv, InFlight, WalletSteps, GoTo, TypeOK, tables, Exists, Member
  <2>2. QED
    BY <1>2, <1>3, <1>4, <1>5, <2>1, StepOf
<1>8. CASE Ends(c, "error")
  <2>1. CallInv(c)'
    BY <1>0, <1>1, <1>6, <1>8 DEF CallInv, InFlight, WalletSteps, Ends, TypeOK, Answered
  <2>2. QED
    BY <1>2, <1>3, <1>4, <1>5, <2>1, StepOf
<1>9. QED
  BY <1>0, <1>7, <1>8

\* An attempt ends: with the wallet stored, or failed and nothing stored.
LEMMA AttemptKept ==
  ASSUME NEW c \in Calls, NEW ok \in BOOLEAN, ProvisioningInv,
         pc[c] \in WalletSteps, AttemptEnds(c, ok),
         UNCHANGED <<owner, members, vaults, asked, keys, ousted>>,
         wallets \subseteq wallets', wallets' \subseteq Wallet, TableInv',
         broken' \subseteq broken \union {ThisKey(c)},
         \A w \in wallets' \ wallets : w.id = ThisKey(c),
         IF ok THEN \E w \in wallets' : w.id = ThisKey(c) ELSE wallets' = wallets
  PROVE  ProvisioningInv'
<1> DEFINE at == local[c].at
           list == local[c].chains
<1>0. TypeOK /\ TableInv /\ CallInv(c) /\ c \in InFlight /\ pc[c] # "idle" /\ pc[c] # "done"
  BY DEF ProvisioningInv, InFlight, WalletSteps
<1>1. /\ local[c] \in Local /\ answer[c] = "none" /\ Provisioning(c)
      /\ \A o \in local[c].read : Exists(o) /\ owner[o] = local[c].user
      /\ local[c].kind = "wallet" => Member(c) \/ local[c].user = Nobody
  BY <1>0 DEF CallInv
<1>2. /\ list \in ChainLists /\ at \in 1 .. Len(list) /\ Len(list) \in Nat /\ at \in Nat
      /\ DOMAIN list = 1 .. Len(list)
  BY <1>1, ListHasChain DEF Provisioning
<1>3. /\ failed' = IF ok THEN failed ELSE failed \union {<<c, at>>}
      /\ failed \subseteq failed'
  BY DEF AttemptEnds, ThisKey
<1>4. \A w \in wallets' : w.id[1] = c => w.id[2] \in 1 .. at
  <2>1. \A w \in wallets : w.id[1] = c => w.id[2] \in 1 .. at
    BY <1>1, <1>2 DEF Provisioning
  <2>2. \A w \in wallets' \ wallets : w.id[2] = at
    BY DEF ThisKey
  <2>3. QED
    BY <1>2, <2>1, <2>2
<1>5. (\E w \in wallets' : w.id = <<c, at>>) \/ <<c, at>> \in failed'
  BY <1>3 DEF ThisKey
<1>6. local[c].kind = "vault" => \A i \in 1 .. at : Attempted(c, i)'
  <2>1. ASSUME local[c].kind = "vault", NEW i \in 1 .. at PROVE Attempted(c, i)'
    <3>1. CASE i = at
      BY <1>5, <3>1 DEF Attempted
    <3>2. CASE i # at
      <4>1. i \in 1 .. (at - 1)
        BY <1>2, <3>2
      <4>2. Attempted(c, i)
        BY <1>1, <2>1, <4>1 DEF Provisioning
      <4>3. QED
        BY <1>3, <4>2 DEF Attempted
    <3>3. QED
      BY <3>1, <3>2
  <2>2. QED
    BY <2>1
<1>7. ThisKey(c) \in KeyId
  BY <1>2 DEF ThisKey, KeyId
<1>8. CASE /\ at < Len(list) /\ GoTo(c, "chain")
           /\ local' = [local EXCEPT ![c].at = @ + 1]
  <2>1. /\ local'[c] = [local[c] EXCEPT !.at = at + 1]
        /\ \A d \in Calls \ {c} : local'[d] = local[d]
        /\ local' \in [Calls -> Local \union {NoLocal}]
    BY <1>0, <1>1, <1>2, <1>8 DEF TypeOK, Local
  <2>2. /\ local'[c] \in Local /\ local'[c].at = at + 1 /\ local'[c].chains = list
        /\ local'[c].kind = local[c].kind /\ local'[c].org = local[c].org
        /\ local'[c].user = local[c].user /\ local'[c].vault = local[c].vault
        /\ local'[c].read = local[c].read
    BY <1>1, <1>2, <2>1 DEF Local
  <2>3. TypeOK'
    BY <1>0, <1>3, <1>7, <1>8, <2>1 DEF TypeOK, Steps, GoTo, ThisKey
  <2>4. Frame(c)
    BY <1>0, <1>3, <1>8, <2>1 DEF Frame, TablesGrow, Member, GoTo, TypeOK, ThisKey
  <2>5. AskedAccounted'
    BY <1>0, <1>5, <2>4, AskedKept DEF Accounted, ThisKey
  <2>6. at + 1 \in 1 .. Len(list) /\ (at + 1) - 1 = at
    BY <1>2, <1>8
  <2>7. Provisioning(c)'
    BY <1>1, <1>4, <1>6, <2>2, <2>6 DEF Provisioning
  <2>8. local[c].kind = "wallet" => Member(c)' \/ local'[c].user = Nobody
    BY <1>1, <2>2 DEF Member
  <2>9. CallInv(c)'
    BY <1>0, <1>1, <1>8, <2>2, <2>7, <2>8 DEF CallInv, InFlight, WalletSteps, GoTo, TypeOK, Exists
  <2>10. QED
    BY <2>3, <2>4, <2>5, <2>9, StepOf
<1>9. CASE /\ ~(at < Len(list)) /\ UNCHANGED local
           /\ Ends(c, IF ok \/ local[c].kind = "vault" THEN "ok" ELSE "error")
  <2>1. TypeOK'
    BY <1>0, <1>3, <1>7, <1>9 DEF TypeOK, Steps, Ends, ThisKey
  <2>2. Frame(c)
    BY <1>0, <1>3, <1>9 DEF Frame, TablesGrow, Member, Ends, TypeOK, ThisKey
  <2>3. AskedAccounted'
    BY <1>0, <1>5, <2>2, AskedKept DEF Accounted, ThisKey
  <2>4. at = Len(list)
    BY <1>2, <1>9
  <2>5. local[c].kind = "vault" => \A i \in DOMAIN list : Attempted(c, i)'
    BY <1>2, <1>6, <2>4
  <2>6. local[c].kind = "wallet" => at = 1 /\ Untouched(c)
    <3>1. local[c].kind = "wallet" => at = 1 /\ \A v \in vaults : v.id # c
      BY <1>1, <2>4 DEF Provisioning
    <3>2. \A w \in wallets : w.id[1] = c => w.id[2] \in 1 .. (at - 1)
      BY <1>1 DEF Provisioning
    <3>3. at = 1 => \A w \in wallets : w.id[1] # c
      BY <3>2
    <3>4. QED
      BY <3>1, <3>3 DEF Untouched
  <2>7. Answered(c)'
    <3>1. answer'[c] = (IF ok \/ local[c].kind = "vault" THEN "ok" ELSE "error")
      BY <1>0, <1>9 DEF Ends, TypeOK
    <3>2. local[c].kind \in {"vault", "wallet"}
      BY <1>1 DEF Provisioning
    <3>3. CASE local[c].kind = "vault"
      BY <1>1, <1>9, <2>5, <3>1, <3>3 DEF Answered, Provisioning
    <3>4. CASE local[c].kind = "wallet" /\ ok
      BY <1>9, <2>6, <3>1, <3>4 DEF Answered, ThisKey
    <3>5. CASE local[c].kind = "wallet" /\ ~ok
      BY <1>9, <2>6, <3>1, <3>5 DEF Answered, Untouched
    <3>6. QED
      BY <3>2, <3>3, <3>4, <3>5
  <2>8. CallInv(c)'
    BY <1>0, <1>9, <2>7 DEF CallInv, InFlight, WalletSteps, Ends, TypeOK
  <2>9. QED
    BY <2>1, <2>2, <2>3, <2>8, StepOf
<1>10. QED
  BY <1>8, <1>9 DEF AttemptEnds

LEMMA FindChainStep ==
  ASSUME NEW c \in Calls, ProvisioningInv, FindChain(c)
  PROVE  ProvisioningInv'
<1>0. /\ TypeOK /\ TableInv /\ CallInv(c) /\ pc[c] = "chain" /\ c \in InFlight
      /\ UNCHANGED <<tables, keys, broken, ousted>>
  BY DEF ProvisioningInv, FindChain, InFlight
<1>1. CASE AttemptEnds(c, FALSE) /\ UNCHANGED asked
  <2>1. wallets' = wallets /\ wallets \subseteq Wallet /\ TableInv'
        /\ UNCHANGED <<owner, members, vaults, asked, keys, ousted>>
    BY <1>0, <1>1, TablesKept DEF tables, TypeOK
  <2>2. QED
    BY <1>0, <1>1, <2>1, AttemptKept DEF WalletSteps
<1>2. CASE asked' = asked \union {ThisKey(c)} /\ GoTo(c, "key") /\ UNCHANGED <<failed, local>>
  <2>1. /\ local[c] \in Local /\ answer[c] = "none" /\ Provisioning(c)
        /\ \A o \in local[c].read : Exists(o) /\ owner[o] = local[c].user
        /\ local[c].kind = "wallet" => Member(c) \/ local[c].user = Nobody
    BY <1>0 DEF CallInv, WalletSteps
  <2>2. ThisKey(c) \in KeyId
    BY <2>1 DEF ThisKey, KeyId, Local
  <2>3. TypeOK'
    BY <1>0, <1>2, <2>2 DEF TypeOK, Steps, GoTo, tables
  <2>4. TableInv'
    BY <1>0, <1>2, TablesKept
  <2>5. Frame(c)
    BY <1>0, <1>2, FrameOfCall DEF TypeOK, GoTo
  <2>6. AskedAccounted'
    <3>1. ASSUME NEW k \in asked' PROVE Accounted(k)'
      <4>1. pc'[c] = "key" /\ ThisKey(c)' = ThisKey(c)
        BY <1>0, <1>2 DEF GoTo, TypeOK, ThisKey
      <4>2. CASE k = ThisKey(c)
        BY <4>1, <4>2 DEF Accounted, ThisKey
      <4>3. CASE k \in asked
        <5>1. Accounted(k) /\ k[1] \in Calls
          BY <4>3 DEF ProvisioningInv, AskedAccounted, TypeOK, KeyId
        <5>2. k[1] = c => (\E w \in wallets : w.id = k) \/ k \in failed
          BY <1>0, <5>1 DEF Accounted
        <5>3. QED
          BY <1>2, <2>5, <5>1, <5>2 DEF Accounted, Frame, TablesGrow, ThisKey
      <4>4. QED
        BY <1>2, <4>2, <4>3
    <3>2. QED
      BY <3>1 DEF AskedAccounted
  <2>7. Provisioning(c)'
    BY <1>0, <1>2, <2>1 DEF Provisioning, Attempted, tables
  <2>8. CallInv(c)'
    BY <1>0, <1>2, <2>1, <2>7
    DEF CallInv, InFlight, WalletSteps, GoTo, TypeOK, tables, Exists, Member
  <2>9. QED
    BY <2>3, <2>4, <2>5, <2>6, <2>8, StepOf
<1>3. QED
  BY <1>1, <1>2 DEF FindChain

LEMMA KeyMadeStep ==
  ASSUME NEW c \in Calls, ProvisioningInv, KeyMade(c)
  PROVE  ProvisioningInv'
<1> USE DEF infra
<1>0. /\ TypeOK /\ TableInv /\ CallInv(c) /\ pc[c] = "key" /\ c \in InFlight
      /\ ThisKey(c) \in keys /\ GoTo(c, "insertWallet")
      /\ UNCHANGED <<tables, asked, keys, failed, broken, local, ousted>>
  BY DEF ProvisioningInv, KeyMade, InFlight
<1>1. /\ local[c] \in Local /\ answer[c] = "none" /\ Provisioning(c)
      /\ \A o \in local[c].read : Exists(o) /\ owner[o] = local[c].user
      /\ local[c].kind = "wallet" => Member(c) \/ local[c].user = Nobody
  BY <1>0 DEF CallInv, WalletSteps
<1>2. TypeOK'
  BY <1>0 DEF TypeOK, Steps, GoTo, tables
<1>3. TableInv'
  BY <1>0, TablesKept
<1>4. Frame(c)
  BY <1>0, FrameOfCall DEF TypeOK, GoTo
<1>5. AskedAccounted'
  <2>1. \A k \in asked : k = ThisKey(c) => Accounted(k)'
    BY <1>0 DEF Accounted, ThisKey, GoTo, TypeOK
  <2>2. QED
    BY <1>0, <1>4, <2>1, AskedKept
<1>6. Provisioning(c)'
  BY <1>0, <1>1 DEF Provisioning, Attempted, tables
<1>7. ThisKey(c)' \in keys'
  BY <1>0 DEF ThisKey
<1>8. CallInv(c)'
  BY <1>0, <1>1, <1>6, <1>7
  DEF CallInv, InFlight, WalletSteps, GoTo, TypeOK, tables, Exists, Member
<1>9. QED
  BY <1>2, <1>3, <1>4, <1>5, <1>8, StepOf

LEMMA InsertWalletStep ==
  ASSUME NEW c \in Calls, ProvisioningInv, InsertWallet(c)
  PROVE  ProvisioningInv'
<1> DEFINE w == ThisWallet(c)
           accepted == Accepts(w)
<1> USE DEF infra
<1>0. /\ TypeOK /\ TableInv /\ CallInv(c) /\ pc[c] = "insertWallet" /\ c \in InFlight
      /\ wallets' = IF accepted THEN wallets \union {w} ELSE wallets
      /\ AttemptEnds(c, accepted)
      /\ UNCHANGED <<owner, members, vaults, asked, keys, broken, ousted>>
  BY DEF ProvisioningInv, InsertWallet, InFlight
<1>1. local[c] \in Local /\ Provisioning(c) /\ ThisKey(c) \in keys
  BY <1>0 DEF CallInv, WalletSteps
<1>2. w \in Wallet
  <2>1. ThisChain(c) \in ChainNames
    BY <1>1, ListHasChain DEF ThisChain, Provisioning
  <2>2. QED
    BY <1>0, <1>1, <2>1 DEF ThisWallet, Wallet, Local, TypeOK
<1>3. TableInv'
  <2>1. CASE ~accepted
    BY <1>0, <2>1, TablesKept DEF tables
  <2>2. CASE accepted
    <3>1. w.id = ThisKey(c) /\ w.vault = local[c].vault /\ \E v \in vaults : v.id = w.vault
      BY <2>2 DEF ThisWallet, Accepts
    <3>2. WalletHasKey'
      BY <1>0, <1>1, <2>2, <3>1 DEF TableInv, WalletHasKey, Exists
    <3>3. QED
      BY <1>0, <3>2 DEF TableInv, Exists
  <2>3. QED
    BY <2>1, <2>2
<1>4. /\ wallets \subseteq wallets' /\ wallets' \subseteq Wallet
      /\ \A x \in wallets' \ wallets : x.id = ThisKey(c)
  BY <1>0, <1>2 DEF TypeOK, ThisWallet
<1>5. IF accepted THEN \E x \in wallets' : x.id = ThisKey(c) ELSE wallets' = wallets
  <2>1. accepted => w \in wallets' /\ w.id = ThisKey(c)
    BY <1>0 DEF ThisWallet
  <2>2. QED
    BY <1>0, <2>1
<1>6. accepted \in BOOLEAN
  BY DEF Accepts
<1>7. QED
  <2> HIDE DEF accepted
  <2>1. QED
    BY <1>0, <1>3, <1>4, <1>5, <1>6, AttemptKept DEF WalletSteps

-----------------------------------------------------------------------------
(* Failures and the infrastructure *)

LEMMA AttemptFailsStep ==
  ASSUME NEW c \in Calls, ProvisioningInv, AttemptFails(c)
  PROVE  ProvisioningInv'
<1>1. /\ TypeOK /\ TableInv /\ pc[c] \in WalletSteps /\ AttemptEnds(c, FALSE)
      /\ UNCHANGED <<tables, infra>> /\ UNCHANGED ousted
      /\ broken' = broken \union {ThisKey(c)}
  BY DEF ProvisioningInv, AttemptFails, WalletSteps
<1>2. wallets' = wallets /\ wallets \subseteq Wallet /\ TableInv'
      /\ UNCHANGED <<owner, members, vaults, asked, keys, ousted>>
  BY <1>1, TablesKept DEF tables, infra, TypeOK
<1>3. QED
  BY <1>1, <1>2, AttemptKept

LEMMA CallFailsStep ==
  ASSUME NEW c \in Calls, ProvisioningInv, CallFails(c)
  PROVE  ProvisioningInv'
<1> USE DEF infra
<1>0. /\ TypeOK /\ TableInv /\ CallInv(c) /\ pc[c] # "done" /\ pc[c] # "idle"
      /\ Ends(c, "lost") /\ UNCHANGED <<tables, asked, keys, failed, broken, local, ousted>>
  BY DEF ProvisioningInv, CallFails, InFlight
<1>1. TypeOK'
  BY <1>0 DEF TypeOK, Steps, Ends, tables
<1>2. TableInv'
  BY <1>0, TablesKept
<1>3. Frame(c)
  BY <1>0, FrameOfCall DEF TypeOK, Ends
<1>4. AskedAccounted'
  <2>1. \A k \in asked : k = ThisKey(c) => Accounted(k)'
    BY <1>0 DEF Accounted, ThisKey, Ends, TypeOK
  <2>2. QED
    BY <1>0, <1>3, <2>1, AskedKept
<1>5. CallInv(c)'
  BY <1>0 DEF CallInv, InFlight, WalletSteps, Ends, TypeOK, Answered
<1>6. QED
  BY <1>1, <1>2, <1>3, <1>4, <1>5, StepOf

LEMMA MakeKeyStep ==
  ASSUME NEW k \in asked, ProvisioningInv, MakeKey(k)
  PROVE  ProvisioningInv'
<1>0. /\ TypeOK /\ TableInv /\ keys' = keys \union {k}
      /\ UNCHANGED <<owner, members, vaults, wallets, asked, failed, broken, pc, local, answer, ousted>>
  BY DEF ProvisioningInv, MakeKey, tables
<1>1. TypeOK'
  BY <1>0 DEF TypeOK
<1>2. TableInv'
  BY <1>0 DEF TableInv, WalletHasKey, Exists
<1>3. AskedAccounted'
  BY <1>0 DEF ProvisioningInv, AskedAccounted, Accounted, ThisKey
<1>4. ASSUME NEW c \in Calls PROVE CallInv(c)'
  <2>1. CallInv(c) /\ TablesGrow
    BY <1>0 DEF ProvisioningInv, TablesGrow
  <2>2. Member(c) => Member(c)'
    BY <1>0 DEF Member
  <2>3. QED
    BY <1>0, <2>1, <2>2, CallKept
<1>5. QED
  BY <1>1, <1>2, <1>3, <1>4 DEF ProvisioningInv

-----------------------------------------------------------------------------
(* The invariant *)

LEMMA ProvisioningInvInit == Init => ProvisioningInv
<1> SUFFICES ASSUME Init PROVE ProvisioningInv
  OBVIOUS
<1>1. TypeOK
  BY DEF Init, TypeOK, Steps
<1>2. TableInv
  BY DEF Init, TableInv, WalletHasKey, Exists
<1>3. AskedAccounted
  BY DEF Init, AskedAccounted
<1>4. ASSUME NEW c \in Calls PROVE CallInv(c)
  BY DEF Init, CallInv, InFlight, WalletSteps, Untouched
<1>5. QED
  BY <1>1, <1>2, <1>3, <1>4 DEF ProvisioningInv

LEMMA ProvisioningInvStep == ProvisioningInv /\ [Next]_vars => ProvisioningInv'
<1> SUFFICES ASSUME ProvisioningInv, [Next]_vars PROVE ProvisioningInv'
  OBVIOUS
<1>1. CASE UNCHANGED vars
  <2>1. TypeOK' /\ TableInv' /\ AskedAccounted'
    BY <1>1 DEF vars, ProvisioningInv, TypeOK, InFlight, TableInv, WalletHasKey, Exists, AskedAccounted, Accounted, ThisKey
  <2>2. ASSUME NEW c \in Calls PROVE CallInv(c)'
    <3>1. CallInv(c) /\ TypeOK /\ TablesGrow /\ (Member(c) => Member(c)')
      BY <1>1 DEF ProvisioningInv, TablesGrow, vars, Member
    <3>2. QED
      BY <1>1, <3>1, CallKept DEF vars
  <2>3. QED
    BY <2>1, <2>2 DEF ProvisioningInv
<1>2. CASE \E k \in asked : MakeKey(k)
  BY <1>2, MakeKeyStep
<1>3. ASSUME NEW c \in Calls, Arrive(c) PROVE ProvisioningInv'
  <2>1. QED
    BY <1>3, CreateOrganizationStep, MemberFindStep, OwnedOrganizationsStep,
       FindVaultStep, GrpcCreateWalletStep
    DEF Arrive
<1>4. ASSUME NEW c \in Calls, Proceed(c) PROVE ProvisioningInv'
  BY <1>4, AddMemberStep, RemoveMemberStep, MembershipsStep, InsertVaultStep, IsMemberStep,
     FindChainStep, KeyMadeStep, InsertWalletStep
  DEF Proceed
<1>5. ASSUME NEW c \in Calls, AttemptFails(c) \/ CallFails(c) PROVE ProvisioningInv'
  BY <1>5, AttemptFailsStep, CallFailsStep
<1>6. QED
  BY <1>1, <1>2, <1>3, <1>4, <1>5 DEF Next

LEMMA ProvisioningInvHolds == Spec => []ProvisioningInv
BY ProvisioningInvInit, ProvisioningInvStep, PTL DEF Spec

-----------------------------------------------------------------------------
(* Attempts that were refused although nothing broke down *)

\* Why the attempt that made key k was refused.
Refused(k) ==
  /\ pc[k[1]] # "idle"
  /\ LET call == local[k[1]] IN
       \/ call.chains[k[2]] \notin Chains
       \/ call.kind = "wallet" /\ call.vault = k[1]
       \/ \E w \in wallets : w.vault = call.vault /\ w.chain = call.chains[k[2]]

\* Vaults come from calls that create vaults: one that a gRPC caller made up is in
\* no row, now or later.
RefusalInv ==
  /\ \A v \in vaults : pc[v.id] # "idle" /\ local[v.id].kind = "vault"
  /\ \A k \in failed \ broken : Refused(k)

\* Calls that have begun stay what they are about.
Remembered ==
  \A d \in Calls : pc[d] # "idle" =>
    /\ pc'[d] # "idle"
    /\ local'[d].kind = local[d].kind
    /\ local'[d].vault = local[d].vault
    /\ local'[d].chains = local[d].chains

LEMMA RefusalKept ==
  ASSUME TypeOK, RefusalInv, Remembered, wallets \subseteq wallets',
         \A v \in vaults' \ vaults : pc'[v.id] # "idle" /\ local'[v.id].kind = "vault",
         \A k \in (failed' \ broken') \ (failed \ broken) : Refused(k)'
  PROVE  RefusalInv'
<1>1. \A v \in vaults : v.id \in Calls
  BY DEF TypeOK, Vault
<1>2. \A v \in vaults' : pc'[v.id] # "idle" /\ local'[v.id].kind = "vault"
  BY <1>1 DEF RefusalInv, Remembered
<1>3. \A k \in failed \ broken : k[1] \in Calls /\ Refused(k)
  BY DEF RefusalInv, TypeOK, KeyId
<1>4. \A k \in failed \ broken : Refused(k)'
  BY <1>3 DEF Refused, Remembered
<1>5. QED
  BY <1>2, <1>4 DEF RefusalInv

LEMMA ArriveRefusal ==
  ASSUME NEW c \in Calls, ProvisioningInv, RefusalInv, Arrive(c)
  PROVE  RefusalInv'
<1>1. TypeOK
  BY DEF ProvisioningInv
<1>2. /\ pc[c] = "idle" /\ UNCHANGED <<vaults, wallets, failed, broken>>
      /\ \A d \in Calls \ {c} : pc'[d] = pc[d] /\ local'[d] = local[d]
  BY <1>1 DEF Arrive, CreateOrganization, AddMemberFind, RemoveMemberFind, OwnedOrganizations,
     FindVault, GrpcCreateWallet, Arrives, Binds, GoTo, Ends, tables, TypeOK
<1>3. Remembered
  BY <1>2 DEF Remembered
<1>4. QED
  BY <1>1, <1>2, <1>3, RefusalKept

\* A call that proceeds, other than by the end of an attempt.
LEMMA ProceedRefusal ==
  ASSUME NEW c \in Calls, ProvisioningInv, RefusalInv,
         \/ AddMember(c) \/ RemoveMember(c) \/ IsMember(c) \/ KeyMade(c)
         \/ InsertVault(c) \/ CallFails(c) \/ Memberships(c)
  PROVE  RefusalInv'
<1>1. TypeOK /\ CallInv(c)
  BY DEF ProvisioningInv
<1>2. /\ pc[c] # "idle" /\ pc'[c] # "idle" /\ UNCHANGED <<wallets, failed, broken>>
      /\ \A d \in Calls \ {c} : pc'[d] = pc[d]
  BY <1>1 DEF AddMember, RemoveMember, IsMember, KeyMade, InsertVault, CallFails, Memberships,
     InFlight, GoTo, Ends, tables, TypeOK
<1>3. \A d \in Calls : /\ local'[d].kind = local[d].kind
                       /\ local'[d].vault = local[d].vault
                       /\ local'[d].chains = local[d].chains
  <2>1. CASE UNCHANGED local
    BY <2>1
  <2>2. CASE Memberships(c)
    <3>1. local[c] \in Local
      BY <1>1, <2>2 DEF CallInv, InFlight, Memberships
    <3>2. UNCHANGED local \/ \E o \in local[c].read : local' = [local EXCEPT ![c].org = o]
      BY <2>2 DEF Memberships
    <3>3. QED
      BY <1>1, <3>1, <3>2 DEF TypeOK, Local
  <2>3. QED
    BY <2>1, <2>2 DEF AddMember, RemoveMember, IsMember, KeyMade, InsertVault, CallFails
<1>4. Remembered
  BY <1>2, <1>3 DEF Remembered
<1>5. \A v \in vaults' \ vaults : pc'[v.id] # "idle" /\ local'[v.id].kind = "vault"
  <2>1. CASE InsertVault(c)
    <3>1. local[c].kind = "vault" /\ local' = local
      BY <1>1, <2>1 DEF CallInv, InsertVault
    <3>2. \A v \in vaults' \ vaults : v.id = c
      BY <2>1 DEF InsertVault
    <3>3. QED
      BY <1>2, <3>1, <3>2
  <2>2. CASE ~InsertVault(c)
    BY <2>2 DEF AddMember, RemoveMember, IsMember, KeyMade, CallFails, Memberships, tables
  <2>3. QED
    BY <2>1, <2>2
<1>6. QED
  BY <1>1, <1>2, <1>4, <1>5, RefusalKept

\* The end of an attempt: it is explained when it was refused.
LEMMA AttemptRefusal ==
  ASSUME NEW c \in Calls, NEW ok \in BOOLEAN, ProvisioningInv, RefusalInv,
         pc[c] \in WalletSteps, AttemptEnds(c, ok), vaults' = vaults,
         wallets \subseteq wallets',
         \/ ThisKey(c) \in broken' /\ broken \subseteq broken'
         \/ broken' = broken /\ (~ok => Refused(ThisKey(c)))
  PROVE  RefusalInv'
<1>1. TypeOK /\ local[c] \in Local
  BY DEF ProvisioningInv, CallInv, InFlight, WalletSteps
<1>2. \/ local' = local
      \/ local' = [local EXCEPT ![c] = [local[c] EXCEPT !.at = local[c].at + 1]]
  BY DEF AttemptEnds
<1>3. \A d \in Calls : /\ local'[d].kind = local[d].kind
                       /\ local'[d].vault = local[d].vault
                       /\ local'[d].chains = local[d].chains
  BY <1>1, <1>2 DEF TypeOK, Local
<1>4. /\ pc[c] # "idle" /\ pc'[c] # "idle"
      /\ \A d \in Calls \ {c} : pc'[d] = pc[d]
  BY <1>1 DEF AttemptEnds, GoTo, Ends, TypeOK, WalletSteps
<1>5. Remembered
  BY <1>3, <1>4 DEF Remembered
<1>6. \A k \in (failed' \ broken') \ (failed \ broken) : Refused(k)'
  <2>1. failed' = IF ok THEN failed ELSE failed \union {ThisKey(c)}
    BY DEF AttemptEnds
  <2>2. ASSUME NEW k \in (failed' \ broken') \ (failed \ broken) PROVE Refused(k)'
    <3>1. k = ThisKey(c) /\ Refused(k)
      BY <2>1, <2>2
    <3>2. k[1] = c
      BY <3>1 DEF ThisKey
    <3>3. QED
      BY <1>5, <3>1, <3>2 DEF Refused, Remembered
  <2>3. QED
    BY <2>2
<1>7. QED
  BY <1>1, <1>5, <1>6, RefusalKept

LEMMA FindChainRefusal ==
  ASSUME NEW c \in Calls, ProvisioningInv, RefusalInv, FindChain(c)
  PROVE  RefusalInv'
<1>1. pc[c] = "chain" /\ UNCHANGED <<vaults, wallets, broken>> /\ TypeOK
  BY DEF FindChain, tables, ProvisioningInv
<1>2. CASE ThisChain(c) \notin Chains /\ AttemptEnds(c, FALSE)
  <2>1. Refused(ThisKey(c))
    BY <1>1, <1>2 DEF Refused, ThisKey, ThisChain
  <2>2. QED
    BY <1>1, <1>2, <2>1, AttemptRefusal DEF WalletSteps
<1>3. CASE GoTo(c, "key") /\ UNCHANGED <<failed, local>>
  <2>1. Remembered
    BY <1>1, <1>3 DEF Remembered, GoTo, TypeOK
  <2>2. QED
    BY <1>1, <1>3, <2>1, RefusalKept
<1>4. QED
  BY <1>2, <1>3 DEF FindChain

LEMMA InsertWalletRefusal ==
  ASSUME NEW c \in Calls, ProvisioningInv, RefusalInv, InsertWallet(c)
  PROVE  RefusalInv'
<1> DEFINE accepted == Accepts(ThisWallet(c))
<1>1. /\ pc[c] = "insertWallet" /\ vaults' = vaults /\ wallets \subseteq wallets'
      /\ AttemptEnds(c, accepted) /\ broken' = broken
  BY DEF InsertWallet
<1>2. Provisioning(c)
  BY <1>1 DEF ProvisioningInv, CallInv, WalletSteps
<1>3. ~accepted => Refused(ThisKey(c))
  <2>1. CASE \E x \in wallets : x.vault = local[c].vault /\ x.chain = ThisChain(c)
    BY <1>1, <2>1 DEF Refused, ThisKey, ThisChain
  <2>2. CASE ~\E v \in vaults : v.id = local[c].vault
    <3>1. local[c].kind = "wallet" /\ local[c].vault = c
      BY <1>2, <2>2 DEF Provisioning
    <3>2. QED
      BY <1>1, <3>1 DEF Refused, ThisKey
  <2>3. QED
    BY <2>1, <2>2 DEF Accepts, ThisWallet
<1>4. accepted \in BOOLEAN
  BY DEF Accepts
<1> HIDE DEF accepted
<1>5. QED
  BY <1>1, <1>3, <1>4, AttemptRefusal DEF WalletSteps

LEMMA RefusalStep ==
  ProvisioningInv /\ RefusalInv /\ [Next]_vars => RefusalInv'
<1> SUFFICES ASSUME ProvisioningInv, RefusalInv, [Next]_vars PROVE RefusalInv'
  OBVIOUS
<1>1. CASE UNCHANGED vars
  BY <1>1 DEF vars, RefusalInv, Refused
<1>2. ASSUME NEW k \in asked, MakeKey(k) PROVE RefusalInv'
  BY <1>2 DEF MakeKey, tables, RefusalInv, Refused
<1>3. ASSUME NEW c \in Calls, AttemptFails(c) PROVE RefusalInv'
  <2>1. /\ pc[c] \in WalletSteps /\ AttemptEnds(c, FALSE) /\ UNCHANGED <<vaults, wallets>>
        /\ broken' = broken \union {ThisKey(c)}
    BY <1>3 DEF AttemptFails, WalletSteps, tables
  <2>2. QED
    BY <2>1, AttemptRefusal
<1>4. ASSUME NEW c \in Calls, Arrive(c) PROVE RefusalInv'
  BY <1>4, ArriveRefusal
<1>5. ASSUME NEW c \in Calls, Proceed(c) \/ CallFails(c) PROVE RefusalInv'
  BY <1>5, ProceedRefusal, FindChainRefusal, InsertWalletRefusal DEF Proceed
<1>6. QED
  BY <1>1, <1>2, <1>3, <1>4, <1>5 DEF Next

-----------------------------------------------------------------------------
(* Theorems *)

\* The variables keep their types.
THEOREM TypeCorrect == Spec => []TypeOK
<1>1. ProvisioningInv => TypeOK
  BY DEF ProvisioningInv
<1>2. QED
  BY <1>1, ProvisioningInvHolds, PTL

\* Every wallet that is stored has its key and its vault: CreateWallet inserts
\* the row only once the infrastructure has answered.
THEOREM WalletHasKeyHolds == Spec => []WalletHasKey
<1>1. ProvisioningInv => WalletHasKey
  BY DEF ProvisioningInv, TableInv
<1>2. QED
  BY <1>1, ProvisioningInvHolds, PTL

\* What CreateVault and CreateWallet answer agrees with the tables ever after.
THEOREM AnswersTrueHolds == Spec => []AnswersTrue
<1>1. ASSUME ProvisioningInv, NEW c \in Calls PROVE Answered(c)
  <2>1. CallInv(c)
    BY <1>1 DEF ProvisioningInv
  <2>2. CASE pc[c] = "done"
    BY <2>1, <2>2 DEF CallInv
  <2>3. CASE pc[c] # "done"
    BY <2>1, <2>3 DEF CallInv, InFlight, Answered
  <2>4. QED
    BY <2>2, <2>3
<1>2. ProvisioningInv => AnswersTrue
  BY <1>1 DEF AnswersTrue, Answered, Untouched, Attempted
<1>3. QED
  BY <1>2, ProvisioningInvHolds, PTL

\* A key without a wallet comes from a failed attempt, a lost call or the attempt
\* that is being made.
THEOREM KeysAccountedForHolds == Spec => []KeysAccountedFor
<1>1. ASSUME ProvisioningInv, NEW k \in keys PROVE
        \/ \E w \in wallets : w.id = k
        \/ k \in failed
        \/ answer[k[1]] = "lost"
        \/ k[1] \in InFlight /\ k = ThisKey(k[1])
  <2>1. Accounted(k) /\ k[1] \in Calls
    BY <1>1 DEF ProvisioningInv, TableInv, AskedAccounted, TypeOK, KeyId
  <2>2. QED
    BY <2>1 DEF Accounted, InFlight
<1>2. ProvisioningInv => KeysAccountedFor
  BY <1>1 DEF KeysAccountedFor
<1>3. QED
  BY <1>2, ProvisioningInvHolds, PTL

\* Of the attempts at a chain of a vault in which nothing broke down, never all
\* are refused: the vault has its wallet there, whichever call it came from.
THEOREM RefusedIsServedHolds == Spec => []RefusedIsServed
<1>1. Init => RefusalInv
  BY DEF Init, RefusalInv
<1>2. ASSUME ProvisioningInv, RefusalInv, NEW k \in failed \ broken
      PROVE  LET call == local[k[1]] IN
               \/ call.chains[k[2]] \notin Chains
               \/ \A v \in vaults : v.id # call.vault
               \/ \E w \in wallets : w.vault = call.vault /\ w.chain = call.chains[k[2]]
  <2>1. CASE local[k[1]].kind = "wallet" /\ local[k[1]].vault = k[1]
    BY <1>2, <2>1 DEF RefusalInv
  <2>2. CASE ~(local[k[1]].kind = "wallet" /\ local[k[1]].vault = k[1])
    BY <1>2, <2>2 DEF RefusalInv, Refused
  <2>3. QED
    BY <2>1, <2>2
<1>3. ProvisioningInv /\ RefusalInv => RefusedIsServed
  BY <1>2 DEF RefusedIsServed
<1>4. QED
  BY <1>1, <1>3, ProvisioningInvHolds, RefusalStep, PTL DEF Spec

\* Vaults come only from owners, and over HTTP wallets only from members, or from
\* someone removed since the check of the call.
THEOREM ProvisionedByMembersHolds == Spec => ProvisionedByMembers
<1> DEFINE Allowed ==
      /\ \A w \in wallets' \ wallets : LET c == w.id[1] IN
           \/ local[c].kind = "vault" \/ local[c].user = Nobody
           \/ \E v \in vaults : v.id = w.vault /\ <<v.org, local[c].user>> \in members
           \/ c \in ousted
      /\ \A v \in vaults' \ vaults : owner[v.org] = local[v.id].user
<1>1. ASSUME ProvisioningInv, [Next]_vars PROVE [Allowed]_vars
  <2>1. ASSUME NEW c \in Calls, InsertWallet(c) PROVE Allowed
    <3>1. \A w \in wallets' \ wallets : w.id[1] = c /\ w.vault = local[c].vault
      BY <2>1 DEF InsertWallet, ThisWallet, ThisKey
    <3>2. \/ local[c].kind = "vault" \/ local[c].user = Nobody
          \/ /\ Member(c)
             /\ \E v \in vaults : v.id = local[c].vault /\ v.org = local[c].org
      BY <1>1, <2>1 DEF ProvisioningInv, CallInv, InsertWallet, WalletSteps, Provisioning
    <3>3. vaults' = vaults
      BY <2>1 DEF InsertWallet
    <3>4. QED
      BY <3>1, <3>2, <3>3 DEF Member
  <2>2. ASSUME NEW c \in Calls, InsertVault(c) PROVE Allowed
    <3>1. \A v \in vaults' \ vaults : v.id = c /\ v.org = local[c].org
      BY <2>2 DEF InsertVault
    <3>2. owner[local[c].org] = local[c].user
      BY <1>1, <2>2 DEF ProvisioningInv, CallInv, InsertVault
    <3>3. wallets' = wallets
      BY <2>2 DEF InsertVault
    <3>4. QED
      BY <3>1, <3>2, <3>3
  <2>3. ASSUME vaults' = vaults, wallets' = wallets PROVE Allowed
    BY <2>3
  <2>4. ASSUME NEW c \in Calls, Arrive(c) PROVE vaults' = vaults /\ wallets' = wallets
    BY <2>4 DEF Arrive, CreateOrganization, AddMemberFind, RemoveMemberFind,
       OwnedOrganizations, FindVault, GrpcCreateWallet, tables
  <2>5. ASSUME NEW c \in Calls, Proceed(c), ~InsertVault(c), ~InsertWallet(c)
        PROVE  vaults' = vaults /\ wallets' = wallets
    BY <2>5 DEF Proceed, AddMember, RemoveMember, Memberships, IsMember, FindChain, KeyMade, tables
  <2>6. ASSUME NEW c \in Calls, AttemptFails(c) \/ CallFails(c)
        PROVE  vaults' = vaults /\ wallets' = wallets
    BY <2>6 DEF AttemptFails, CallFails, tables
  <2>7. ASSUME NEW k \in asked, MakeKey(k) PROVE vaults' = vaults /\ wallets' = wallets
    BY <2>7 DEF MakeKey, tables
  <2>8. CASE UNCHANGED vars
    BY <2>8
  <2> HIDE DEF Allowed
  <2>9. CASE Next
    BY <2>1, <2>2, <2>3, <2>4, <2>5, <2>6, <2>7, <2>9 DEF Next
  <2>10. QED
    BY <1>1, <2>8, <2>9
<1>2. QED
  BY <1>1, ProvisioningInvHolds, PTL DEF Spec, ProvisionedByMembers
=============================================================================
