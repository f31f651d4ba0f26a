-------------------------- MODULE VaultProvisioning --------------------------
(***************************************************************************)
(* Organizations and their members (internal/service/organization), vaults *)
(* and wallets (internal/service/vault) and the handlers that decide who   *)
(* may provision them, with the keys that the MPC infrastructure makes.    *)
(* No transaction spans two statements, and none spans the two systems.    *)
(*                                                                         *)
(* A call is one HTTP request, or a CreateWallet of the gRPC facade; calls *)
(* are numbered as they arrive.  A vault is named by the call that made it, *)
(* a wallet, like its key, by the call and the position of its chain in    *)
(* the call's list.                                                        *)
(***************************************************************************)
EXTENDS Integers, FiniteSets, Sequences

CONSTANTS
  Users, Orgs,
  Chains,        \* rows of the table chains
  ChainLists,    \* lists of chains a caller may ask for, known or not
  MaxCalls,      \* bound: calls of a behaviour
  MaxInFlight,   \* bound: calls at once
  Nobody,        \* no owner, no organization, the user of a gRPC call
  Failures       \* whether statements, RPCs and calls may fail

\* The names of chains that callers use.
ChainNames == UNION {{l[i] : i \in DOMAIN l} : l \in ChainLists}

ASSUME BoundsAssumption == MaxCalls \in Nat /\ MaxInFlight \in Nat
ASSUME NobodyAssumption == Nobody \notin Users
ASSUME ListsAssumption == \A l \in ChainLists : l \in Seq(ChainNames)
ASSUME FailuresAssumption == Failures \in BOOLEAN

VARIABLES
  owner,    \* organizations.owner_id
  members,  \* organization_members, as pairs; no role is ever looked at
  vaults,   \* vaults
  wallets,  \* wallets
  asked,    \* CreateRootKey requests sent to the infrastructure
  keys,     \* keys the infrastructure has made
  failed,   \* attempts to create a wallet that returned an error ...
  broken,   \* ... and those of them in which a statement or the RPC had failed
  pc, local,
  answer,   \* what a call was answered; "lost" when it failed unanswered
  ousted    \* calls during which their user was removed from their organization

tables == <<owner, members, vaults, wallets>>
infra == <<asked, keys>>
vars == <<owner, members, vaults, wallets, asked, keys, failed, broken, pc, local, answer, ousted>>

Calls == 1 .. MaxCalls
KeyId == Calls \X Nat
Vault == [id : Calls, org : Orgs]
Wallet == [id : KeyId, vault : Calls, chain : ChainNames]

Steps == {"idle", "done", "addMember", "removeMember", "memberships", "insertVault",
          "isMember", "chain", "key", "insertWallet"}
\* A call's user, the organization and vault it is about, the organizations it
\* has read, its chains and how far it has got with them.
Local == [kind : {"member", "vault", "wallet"}, user : Users \union {Nobody},
          org : Orgs \union {Nobody}, vault : Calls, read : SUBSET Orgs, chains : ChainLists \union {<<>>}, at : Nat]
NoLocal == [kind |-> "none"]

TypeOK ==
  /\ owner \in [Orgs -> Users \union {Nobody}]
  /\ members \subseteq Orgs \X Users
  /\ vaults \subseteq Vault /\ wallets \subseteq Wallet
  /\ asked \subseteq KeyId /\ keys \subseteq KeyId
  /\ failed \subseteq KeyId /\ broken \subseteq KeyId
  /\ pc \in [Calls -> Steps]
  /\ local \in [Calls -> Local \union {NoLocal}]
  /\ answer \in [Calls -> {"none", "ok", "error", "lost"}]
  /\ ousted \subseteq Calls

\* Organizations and members of earlier calls may be there.
Init ==
  /\ owner \in [Orgs -> Users \union {Nobody}]
  /\ members \in SUBSET {m \in Orgs \X Users : owner[m[1]] # Nobody}
  /\ vaults = {} /\ wallets = {}
  /\ asked = {} /\ keys = {} /\ failed = {} /\ broken = {}
  /\ pc = [c \in Calls |-> "idle"]
  /\ local = [c \in Calls |-> NoLocal]
  /\ answer = [c \in Calls |-> "none"]
  /\ ousted = {}

InFlight == {c \in Calls : pc[c] \notin {"idle", "done"}}
Exists(o) == owner[o] # Nobody

-----------------------------------------------------------------------------
(* Calls *)

\* The next call to arrive.
Arrives(c) ==
  /\ pc[c] = "idle"
  /\ \A d \in Calls : d < c => pc[d] # "idle"
  /\ Cardinality(InFlight) < MaxInFlight

GoTo(c, step) == pc' = [pc EXCEPT ![c] = step] /\ UNCHANGED answer
Ends(c, result) ==
  pc' = [pc EXCEPT ![c] = "done"] /\ answer' = [answer EXCEPT ![c] = result]

Binds(c, kind, u, o, v, read, list) ==
  local' = [local EXCEPT ![c] = [kind |-> kind, user |-> u, org |-> o, vault |-> v,
                                 read |-> read, chains |-> list, at |-> 1]]

-----------------------------------------------------------------------------
(* Organizations *)

CreateOrganization(c, o, u) ==
  /\ Arrives(c) /\ ~Exists(o)
  /\ owner' = [owner EXCEPT ![o] = u]
  /\ Ends(c, "ok")
  /\ UNCHANGED <<members, vaults, wallets, infra, failed, broken, local, ousted>>

\* FindOrganization, then the INSERT, which the primary key may refuse.
AddMemberFind(c, o, u) ==
  /\ Arrives(c) /\ Exists(o)
  /\ Binds(c, "member", u, o, c, {}, <<>>)
  /\ GoTo(c, "addMember")
  /\ UNCHANGED <<tables, infra, failed, broken, ousted>>

AddMember(c) ==
  /\ pc[c] = "addMember"
  /\ LET row == <<local[c].org, local[c].user>> IN
       /\ members' = members \union {row}
       /\ Ends(c, IF row \in members THEN "error" ELSE "ok")
  /\ UNCHANGED <<owner, vaults, wallets, infra, failed, broken, local, ousted>>

\* FindOrganizationMember, then DELETE by primary key; an absent row is fine
\* both times.
RemoveMemberFind(c, o, u) ==
  /\ Arrives(c) /\ <<o, u>> \in members
  /\ Binds(c, "member", u, o, c, {}, <<>>)
  /\ GoTo(c, "removeMember")
  /\ UNCHANGED <<tables, infra, failed, broken, ousted>>

RemoveMember(c) ==
  /\ pc[c] = "removeMember"
  /\ members' = members \ {<<local[c].org, local[c].user>>}
  /\ ousted' = ousted \union {d \in InFlight \ {c} : /\ local[d].user = local[c].user
                                                   /\ local[d].org = local[c].org}
  /\ Ends(c, "ok")
  /\ UNCHANGED <<owner, vaults, wallets, infra, failed, broken, local>>

-----------------------------------------------------------------------------
(* Creating a vault, with its first wallets *)

\* ListUserOrganizations: the organizations the user owns ...
OwnedOrganizations(c, u, list) ==
  /\ Arrives(c)
  /\ Binds(c, "vault", u, Nobody, c, {o \in Orgs : owner[o] = u}, list)
  /\ GoTo(c, "memberships")
  /\ UNCHANGED <<tables, infra, failed, broken, ousted>>

\* ... and those it is a member of, whose query qm.WhereIn("id", ids) has no "in ?"
\* and is refused: the list of a user with a membership is an error.  Without one,
\* the handler takes an organization the user owns.
Memberships(c) ==
  /\ pc[c] = "memberships"
  /\ LET member == \E o \in Orgs : <<o, local[c].user>> \in members IN
       \/ /\ member \/ local[c].read = {}
          /\ Ends(c, "error")
          /\ UNCHANGED local
       \/ /\ ~member
          /\ \E o \in local[c].read : local' = [local EXCEPT ![c].org = o]
          /\ GoTo(c, "insertVault")
  /\ UNCHANGED <<tables, infra, failed, broken, ousted>>

\* Mutant: the organization is not filled in.
InsertVaultNoOrg(c) ==
  /\ pc[c] = "insertVault"
  /\ vaults' = vaults \union {[id |-> c, org |-> Nobody]}
  /\ IF local[c].chains = <<>> THEN Ends(c, "ok") ELSE GoTo(c, "chain")
  /\ UNCHANGED <<owner, members, wallets, infra, failed, broken, local, ousted>>

InsertVault(c) ==
  /\ pc[c] = "insertVault"
  /\ vaults' = vaults \union {[id |-> c, org |-> local[c].org]}
  /\ IF local[c].chains = <<>> THEN Ends(c, "ok") ELSE GoTo(c, "chain")
  /\ UNCHANGED <<owner, members, wallets, infra, failed, broken, local, ousted>>

-----------------------------------------------------------------------------
(* Creating a wallet *)

\* FindVault, then whether the user is a member of its organization.
FindVault(c, u, v, list) ==
  /\ Arrives(c)
  /\ Len(list) = 1
  /\ Binds(c, "wallet", u, v.org, v.id, {}, list)
  /\ GoTo(c, "isMember")
  /\ UNCHANGED <<tables, infra, failed, broken, ousted>>

\* Mutant: the result of the query is not looked at.
IsMemberAnyway(c) ==
  /\ pc[c] = "isMember"
  /\ GoTo(c, "chain")
  /\ UNCHANGED <<tables, infra, failed, broken, local, ousted>>

IsMember(c) ==
  /\ pc[c] = "isMember"
  /\ IF <<local[c].org, local[c].user>> \in members
     THEN GoTo(c, "chain")
     ELSE Ends(c, "error")
  /\ UNCHANGED <<tables, infra, failed, broken, local, ousted>>

\* The gRPC facade passes the caller's vault id on: it knows no user and asks for
\* no membership.
GrpcCreateWallet(c, v, list) ==
  /\ Arrives(c)
  /\ Len(list) = 1
  /\ Binds(c, "wallet", Nobody, Nobody, v, {}, list)
  /\ GoTo(c, "chain")
  /\ UNCHANGED <<tables, infra, failed, broken, ousted>>

ThisKey(c) == <<c, local[c].at>>
ThisChain(c) == local[c].chains[local[c].at]

\* Mutant: the error is logged and forgotten.
AttemptEndsWell(c, ok) ==
  /\ failed' = IF ok THEN failed ELSE failed \union {ThisKey(c)}
  /\ IF local[c].at < Len(local[c].chains)
     THEN GoTo(c, "chain") /\ local' = [local EXCEPT ![c].at = @ + 1]
     ELSE Ends(c, "ok") /\ UNCHANGED local

\* CreateWallet returned.  A wallet call answers with its result; a vault call
\* logs an error and goes on with the next chain.
AttemptEnds(c, ok) ==
  /\ failed' = IF ok THEN failed ELSE failed \union {ThisKey(c)}
  /\ IF local[c].at < Len(local[c].chains)
     THEN GoTo(c, "chain") /\ local' = [local EXCEPT ![c].at = @ + 1]
     ELSE Ends(c, IF ok \/ local[c].kind = "vault" THEN "ok" ELSE "error") /\ UNCHANGED local

\* Mutant: the key is made in the background.
FindChainAsync(c) ==
  /\ pc[c] = "chain"
  /\ IF ThisChain(c) \in Chains
     THEN /\ asked' = asked \union {ThisKey(c)}
          /\ GoTo(c, "insertWallet")
          /\ UNCHANGED <<failed, local>>
     ELSE AttemptEnds(c, FALSE) /\ UNCHANGED asked
  /\ UNCHANGED <<tables, keys, broken, ousted>>

\* Look the chain up and ask the infrastructure for a key named like the wallet.
FindChain(c) ==
  /\ pc[c] = "chain"
  /\ IF ThisChain(c) \in Chains
     THEN /\ asked' = asked \union {ThisKey(c)}
          /\ GoTo(c, "key")
          /\ UNCHANGED <<failed, local>>
     ELSE AttemptEnds(c, FALSE) /\ UNCHANGED asked
  /\ UNCHANGED <<tables, keys, broken, ousted>>

\* CreateRootKey is carried out, whether or not anybody still waits for it.
MakeKey(k) ==
  /\ k \in asked \ keys
  /\ keys' = keys \union {k}
  /\ UNCHANGED <<tables, asked, failed, broken, pc, local, answer, ousted>>

KeyMade(c) ==
  /\ pc[c] = "key"
  /\ ThisKey(c) \in keys
  /\ GoTo(c, "insertWallet")
  /\ UNCHANGED <<tables, infra, failed, broken, local, ousted>>

ThisWallet(c) == [id |-> ThisKey(c), vault |-> local[c].vault, chain |-> ThisChain(c)]

\* Mutant: UNIQUE (chain_id, derive_index).
AcceptsOnePerChain(w) ==
  /\ \E v \in vaults : v.id = w.vault
  /\ ~\E x \in wallets : x.chain = w.chain

\* The constraints of the table: the vault exists, and derive_index is 0 under
\* UNIQUE (vault_id, chain_id, derive_index).
Accepts(w) ==
  /\ \E v \in vaults : v.id = w.vault
  /\ ~\E x \in wallets : x.vault = w.vault /\ x.chain = w.chain

\* Mutant: ON CONFLICT DO NOTHING.
InsertWalletQuietly(c) ==
  /\ pc[c] = "insertWallet"
  /\ wallets' = IF Accepts(ThisWallet(c)) THEN wallets \union {ThisWallet(c)} ELSE wallets
  /\ AttemptEnds(c, TRUE)
  /\ UNCHANGED <<owner, members, vaults, infra, broken, ousted>>

InsertWallet(c) ==
  /\ pc[c] = "insertWallet"
  /\ wallets' = IF Accepts(ThisWallet(c)) THEN wallets \union {ThisWallet(c)} ELSE wallets
  /\ AttemptEnds(c, Accepts(ThisWallet(c)))
  /\ UNCHANGED <<owner, members, vaults, infra, broken, ousted>>

-----------------------------------------------------------------------------

\* One statement or RPC of CreateWallet fails; the key may be made all the same.
AttemptFails(c) ==
  /\ Failures
  /\ pc[c] \in {"chain", "key", "insertWallet"}
  /\ AttemptEnds(c, FALSE)
  /\ broken' = broken \union {ThisKey(c)}
  /\ UNCHANGED <<tables, infra, ousted>>

\* The request is cancelled or the process crashes.
CallFails(c) ==
  /\ Failures
  /\ c \in InFlight
  /\ Ends(c, "lost")
  /\ UNCHANGED <<tables, infra, failed, broken, local, ousted>>

Proceed(c) ==
  \/ AddMember(c) \/ RemoveMember(c) \/ Memberships(c) \/ InsertVault(c)
  \/ IsMember(c) \/ FindChain(c) \/ KeyMade(c) \/ InsertWallet(c)

Arrive(c) ==
  \/ \E o \in Orgs, u \in Users :
       CreateOrganization(c, o, u) \/ AddMemberFind(c, o, u) \/ RemoveMemberFind(c, o, u)
  \/ \E u \in Users, list \in ChainLists :
       \/ OwnedOrganizations(c, u, list)
       \/ \E v \in vaults : FindVault(c, u, v, list)
  \* c is not the id of any vault, as if the caller had made one up
  \/ \E v \in {x.id : x \in vaults} \union {c}, list \in ChainLists : GrpcCreateWallet(c, v, list)

Next ==
  \/ \E c \in Calls : Arrive(c) \/ Proceed(c) \/ AttemptFails(c) \/ CallFails(c)
  \/ \E k \in asked : MakeKey(k)

Spec == Init /\ [][Next]_vars

-----------------------------------------------------------------------------
(* Properties *)

\* Nobody holds an address whose key does not exist: a wallet's key has been
\* made, and its vault and organization are there (the RPC comes before the
\* INSERT, and they are not one transaction).
WalletHasKey ==
  /\ \A w \in wallets : w.id \in keys /\ \E v \in vaults : v.id = w.vault
  /\ \A v \in vaults : Exists(v.org)

\* An error answer leaves no vault and no wallet behind, though it may leave a
\* key; a wallet that was answered is stored; of an answered vault every chain
\* of the request has its wallet or a failed attempt.
AnswersTrue ==
  \A c \in Calls :
    /\ answer[c] = "error" => /\ \A v \in vaults : v.id # c
                              /\ \A w \in wallets : w.id[1] # c
    /\ answer[c] = "ok" /\ local[c].kind = "wallet" => \E w \in wallets : w.id = <<c, 1>>
    /\ answer[c] = "ok" /\ local[c].kind = "vault" =>
         /\ \E v \in vaults : v.id = c
         /\ \A i \in DOMAIN local[c].chains :
              (\E w \in wallets : w.id = <<c, i>>) \/ <<c, i>> \in failed

\* A key that no wallet refers to comes from an attempt that failed, from a call
\* that was lost, or from the attempt its call is at: none is lost silently.
KeysAccountedFor ==
  \A k \in keys :
    \/ \E w \in wallets : w.id = k
    \/ k \in failed
    \/ answer[k[1]] = "lost"
    \/ k[1] \in InFlight /\ k = ThisKey(k[1])

\* The derivation index is always 0, so one of the attempts at a chain of a vault
\* is refused after its key was made.  Of those in which nothing broke down, though,
\* never all: once one was refused, the vault has its wallet on that chain, from
\* whichever call, unless the chain is unknown or a gRPC caller made the vault up.
RefusedIsServed ==
  \A k \in failed \ broken : LET call == local[k[1]] IN
    \/ call.chains[k[2]] \notin Chains
    \/ \A v \in vaults : v.id # call.vault
    \/ \E w \in wallets : w.vault = call.vault /\ w.chain = call.chains[k[2]]

\* Over HTTP, a vault is made only by the owner of its organization, and a wallet
\* only by a member of the organization whose vault it goes into, or by someone who
\* was removed while the call was in flight, for the handler checks before it writes.
ProvisionedByMembers ==
  [][/\ \A w \in wallets' \ wallets : LET c == w.id[1] IN
          \/ local[c].kind = "vault" \/ local[c].user = Nobody
          \/ \E v \in vaults : v.id = w.vault /\ <<v.org, local[c].user>> \in members
          \/ c \in ousted
     /\ \A v \in vaults' \ vaults : owner[v.org] = local[v.id].user]_vars
=============================================================================
