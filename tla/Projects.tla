------------------------------ MODULE Projects ------------------------------
(***************************************************************************)
(* Installed Projects and what lets accounts in through them (server        *)
(* routes/admin.rs, db/projects.rs, db/capabilities.rs,                     *)
(* db/bot_signup_keys.rs, registration.rs gate_registration): a Project is   *)
(* installed and uninstalled, granted and denied the gatekeeper capability   *)
(* with the key that signs its invites, and given keys its bots sign up with.*)
(*                                                                         *)
(* Requests of the adminbot run side by side, and each statement commits by *)
(* itself (the uninstall is one transaction).  Slugs, names, URLs, OAuth     *)
(* registration, the directory, other capabilities and the single use of an *)
(* invite (Accounts) are left out: there is one Project, installed several   *)
(* times in its life, each time under a new id.                            *)
(***************************************************************************)
EXTENDS Integers, FiniteSets

CONSTANTS
    Requests,    \* requests of the adminbot that may run at once
    MaxIds,      \* bound: times the Project is installed
    MaxKeys,     \* bound: keys that sign invites, and keys bots sign up with
    MaxOrders    \* bound: requests of the adminbot

ASSUME ProjectAssumption ==
    /\ IsFiniteSet(Requests) /\ MaxIds \in Nat /\ MaxKeys \in Nat /\ MaxOrders \in Nat

VARIABLES
    installed,    \* id of the Project's row, 0: not installed
    ids,          \* ids given out
    signingKey,   \* signingKey[id]: the key pinned in the row, 0: none
    gatekeepers,  \* ids with the capability registration.gatekeeper
    signupKey,    \* signupKey[id]: the bots' key, 0: none
    bots,         \* ids of the Projects of the bots linked
    order,        \* order[q]: a request under way
    applicant,    \* a registration under way
    keys, minted, \* keys made: 1 up to keys, MaxKeys + 1 up to MaxKeys + minted
    orders,
    retired,      \* bookkeeping: keys withdrawn before now, and answered so
    crossed       \* bookkeeping: ids a grant and a revocation met on

projectVars == <<installed, ids, signingKey, gatekeepers, signupKey, bots, order,
                 applicant, keys, minted, orders, retired, crossed>>
tables == <<installed, ids, signingKey, gatekeepers, signupKey, bots>>

Ids == 1..MaxIds
NoOrder == [does |-> "none", step |-> "none", id |-> 0, key |-> 0, alone |-> TRUE]
NoApplicant == [by |-> "none", step |-> "none", key |-> 0, id |-> 0, pinned |-> 0,
                withdrawn |-> FALSE]

ProjectsInit ==
    /\ installed = 0 /\ ids = 0
    /\ signingKey = [i \in Ids |-> 0] /\ gatekeepers = {}
    /\ signupKey = [i \in Ids |-> 0] /\ bots = {}
    /\ order = [q \in Requests |-> NoOrder] /\ applicant = NoApplicant
    /\ keys = 0 /\ minted = 0 /\ orders = 0 /\ retired = {} /\ crossed = {}

Exists(id) == id # 0 /\ id = installed
OrderAt(q, does, step) == order[q].does = does /\ order[q].step = step
UnderWay == {q \in Requests : order[q].does # "none"}

----------------------------------------------------------------------------
(* Requests of the adminbot *)

\* find_by_slug or resolve_mutable_project: each starts with the row's id.
\* A key presented again is in force again from here on.
BeginOrder(q, does, key) ==
    /\ order[q] = NoOrder /\ orders < MaxOrders /\ orders' = orders + 1
    /\ order' = [p \in Requests |->
           IF p = q THEN [does |-> does, step |-> "first", id |-> installed, key |-> key,
                          alone |-> UnderWay = {}]
           ELSE IF p \in UnderWay THEN [order[p] EXCEPT !.alone = FALSE] ELSE order[p]]
    /\ crossed' = IF \E p \in UnderWay : /\ {does, order[p].does} = {"grant", "revoke"}
                                     /\ order[p].id = installed
                  THEN crossed \cup {installed} ELSE crossed
    /\ retired' = retired \ {key}
    /\ applicant' = IF applicant.key = key THEN [applicant EXCEPT !.withdrawn = FALSE]
                    ELSE applicant
    /\ keys' = IF does = "grant" /\ key > keys THEN key ELSE keys
    /\ minted' = IF does = "mint" THEN minted + 1 ELSE minted
    /\ UNCHANGED tables

AnyKey == 1..(IF keys < MaxKeys THEN keys + 1 ELSE keys)
InstallProject(q) == BeginOrder(q, "install", 0)
UninstallProject(q) == installed # 0 /\ BeginOrder(q, "uninstall", 0)
GrantCapability(q) == installed # 0 /\ \E k \in AnyKey : BeginOrder(q, "grant", k)
RevokeCapability(q) == installed # 0 /\ BeginOrder(q, "revoke", 0)
MintBotSignupKey(q) == 
    installed # 0 /\ minted < MaxKeys /\ BeginOrder(q, "mint", MaxKeys + minted + 1)
LinkBot(q) == installed # 0 /\ BeginOrder(q, "link", 0)
UnlinkBot(q) == installed # 0 /\ BeginOrder(q, "unlink", 0)

\* The answer; it withdraws keys for certain if no other request ran.
Answer(q, withdrawn) ==
    /\ order' = [order EXCEPT ![q] = NoOrder]
    /\ retired' = IF order[q].alone THEN retired \cup withdrawn ELSE retired
    /\ UNCHANGED <<applicant, keys, minted, orders, crossed>>
FirstDone(q) ==
    /\ order' = [order EXCEPT ![q].step = "second"]
    /\ UNCHANGED <<applicant, keys, minted, orders, retired, crossed>>
SigningKeys == 1..keys
SignupKeys == (MaxKeys + 1)..(MaxKeys + minted)

\* The row is updated if there was one, else made; one made since then
\* refuses a second (UNIQUE).
WriteProject(q) ==
    /\ OrderAt(q, "install", "first")
    /\ IF order[q].id = 0 /\ installed = 0 /\ ids < MaxIds
       THEN ids' = ids + 1 /\ installed' = ids + 1
       ELSE UNCHANGED <<ids, installed>>
    /\ UNCHANGED <<signingKey, gatekeepers, signupKey, bots>>
    /\ Answer(q, {})

\* One transaction; the bots' key goes with the row.
DeleteBySlug(q) ==
    /\ OrderAt(q, "uninstall", "first") /\ installed # 0
    /\ gatekeepers' = gatekeepers \ {installed} /\ bots' = bots \ {installed}
    /\ installed' = 0
    /\ signingKey' = [signingKey EXCEPT ![installed] = 0]
    /\ signupKey' = [signupKey EXCEPT ![installed] = 0]
    /\ UNCHANGED ids
    /\ Answer(q, SigningKeys \cup SignupKeys)
AlreadyGone(q) ==
    /\ OrderAt(q, "uninstall", "first") /\ installed = 0
    /\ UNCHANGED tables /\ Answer(q, {})

\* set_signing_key; a row that is gone is not changed.
SetSigningKey(q, step, key) ==
    /\ order[q].step = step
    /\ signingKey' = IF Exists(order[q].id)
                     THEN [signingKey EXCEPT ![order[q].id] = key] ELSE signingKey
    /\ UNCHANGED <<installed, ids, gatekeepers, signupKey, bots>>
Grant(q, step) ==
    /\ order[q].step = step
    /\ gatekeepers' = IF Exists(order[q].id) THEN gatekeepers \cup {order[q].id}
                      ELSE gatekeepers
    /\ UNCHANGED <<installed, ids, signingKey, signupKey, bots>>

\* The key first, then the capability.
GrantSteps_CapabilityFirst(q) ==
    /\ order[q].does = "grant"
    /\ \/ Grant(q, "first") /\ FirstDone(q)
       \/ SetSigningKey(q, "second", order[q].key) /\ Answer(q, {})
GrantSteps(q) ==
    /\ order[q].does = "grant"
    /\ \/ SetSigningKey(q, "first", order[q].key) /\ FirstDone(q)
       \/ Grant(q, "second") /\ Answer(q, SigningKeys \ {order[q].key})

Revoke(q) ==
    /\ OrderAt(q, "revoke", "first")
    /\ gatekeepers' = gatekeepers \ {order[q].id}
    /\ UNCHANGED <<installed, ids, signingKey, signupKey, bots>> /\ FirstDone(q)
RetireKey(q) ==
    /\ order[q].does = "revoke"
    /\ SetSigningKey(q, "second", 0)
    /\ Answer(q, SigningKeys)

\* bot_signup_keys::set: one key a Project, the new one replaces the old.
Replaced_Kept(id, key) == IF signupKey[id] = 0 THEN key ELSE signupKey[id]
Replaced(id, key) == key
SetSignupKey(q) ==
    /\ OrderAt(q, "mint", "first")
    /\ signupKey' = IF Exists(order[q].id)
                    THEN [signupKey EXCEPT ![order[q].id] = Replaced(order[q].id, order[q].key)]
                    ELSE signupKey
    /\ UNCHANGED <<installed, ids, signingKey, gatekeepers, bots>>
    /\ Answer(q, SignupKeys \ {order[q].key})

LinkStep(q) ==
    /\ order[q].does \in {"link", "unlink"}
    /\ bots' = IF order[q].does = "unlink" THEN {}
               ELSE IF Exists(order[q].id) THEN {order[q].id} ELSE bots
    /\ UNCHANGED <<installed, ids, signingKey, gatekeepers, signupKey>>
    /\ Answer(q, {})

\* The server is stopped, or a statement fails: what has committed stays.
RequestDies(q) ==
    /\ order[q] # NoOrder /\ order' = [order EXCEPT ![q] = NoOrder]
    /\ UNCHANGED <<tables, applicant, keys, minted, orders, retired, crossed>>

----------------------------------------------------------------------------
(* A registration: gate_registration *)

KeepOrders == UNCHANGED <<order, keys, minted, orders, retired, crossed>>

\* With an invite a key has signed, or with a bots' key.
Apply(by, k) ==
    /\ applicant = NoApplicant
    /\ applicant' = [NoApplicant EXCEPT !.by = by, !.key = k, !.step = "find",
                                        !.withdrawn = k \in retired]
    /\ UNCHANGED tables /\ KeepOrders

FindIssuer ==
    /\ applicant.by = "invite" /\ applicant.step = "find"
    /\ applicant' = IF installed = 0 THEN NoApplicant
                    ELSE [applicant EXCEPT !.step = "check", !.id = installed,
                                           !.pinned = signingKey[installed]]
    /\ UNCHANGED tables /\ KeepOrders

\* project_has, then verify_claims with the key read before.
Verified_AnyKey == applicant.pinned # 0
Verified == applicant.pinned # 0 /\ applicant.pinned = applicant.key
GateByInvite ==
    /\ applicant.by = "invite" /\ applicant.step = "check"
    /\ applicant' = IF applicant.id \in gatekeepers /\ Verified
                    THEN [applicant EXCEPT !.step = "admitted"] ELSE NoApplicant
    /\ UNCHANGED tables /\ KeepOrders

ProjectForKey ==
    /\ applicant.by = "bot" /\ applicant.step = "find"
    /\ applicant' = IF \E i \in Ids : signupKey[i] = applicant.key
                    THEN [applicant EXCEPT !.step = "admitted",
                             !.id = CHOOSE i \in Ids : signupKey[i] = applicant.key]
                    ELSE NoApplicant
    /\ UNCHANGED tables /\ KeepOrders

\* The account is made, and a bot linked to the Project the gate read.
AdmitApplicant ==
    /\ applicant.step = "admitted" /\ applicant' = NoApplicant
    /\ bots' = IF applicant.by = "bot" /\ Exists(applicant.id) THEN {applicant.id} ELSE bots
    /\ UNCHANGED <<installed, ids, signingKey, gatekeepers, signupKey>> /\ KeepOrders

----------------------------------------------------------------------------
OrderStep(q) ==
    \/ WriteProject(q) \/ DeleteBySlug(q) \/ AlreadyGone(q) \/ GrantSteps(q)
    \/ Revoke(q) \/ RetireKey(q) \/ SetSignupKey(q) \/ LinkStep(q)
ProjectsNext ==
    \/ \E q \in Requests :
          \/ InstallProject(q) \/ UninstallProject(q) \/ GrantCapability(q)
          \/ RevokeCapability(q) \/ MintBotSignupKey(q) \/ LinkBot(q) \/ UnlinkBot(q)
          \/ OrderStep(q) \/ RequestDies(q)
    \/ \E k \in SigningKeys : Apply("invite", k)
    \/ \E k \in SignupKeys : Apply("bot", k)
    \/ FindIssuer \/ GateByInvite \/ ProjectForKey \/ AdmitApplicant

ProjectsSpec == ProjectsInit /\ [][ProjectsNext]_projectVars

----------------------------------------------------------------------------
\* The types of the state.
Keys == 0..(2 * MaxKeys)
Orders == [does : {"none", "install", "uninstall", "grant", "revoke", "mint", "link", "unlink"},
           step : {"none", "first", "second"}, id : 0..MaxIds, key : Keys, alone : BOOLEAN]
Applicants == [by : {"none", "invite", "bot"}, step : {"none", "find", "check", "admitted"},
               key : Keys, id : 0..MaxIds, pinned : Keys, withdrawn : BOOLEAN]
ProjectsTypeOK ==
    /\ installed \in 0..MaxIds /\ ids \in 0..MaxIds
    /\ signingKey \in [Ids -> 0..MaxKeys] /\ gatekeepers \subseteq Ids
    /\ signupKey \in [Ids -> {0} \cup (MaxKeys + 1)..(2 * MaxKeys)] /\ bots \subseteq Ids
    /\ order \in [Requests -> Orders] /\ applicant \in Applicants
    /\ keys \in 0..MaxKeys /\ minted \in 0..MaxKeys /\ orders \in Nat
    /\ retired \subseteq Keys \ {0} /\ crossed \subseteq Ids

(* A Project that holds the gatekeeper capability has a key pinned, wherever *)
(* requests are cut short, unless a grant and a revocation of the same       *)
(* Project met: without a key nobody can register by invite, and the shared  *)
(* registration secret has stopped admitting (grant_capability,              *)
(* revoke_capability, gate_registration).                                  *)
GatekeeperHasKey == \A id \in gatekeepers : signingKey[id] # 0 \/ id \in crossed

(* An invite or a bots' key that had been withdrawn, by a revocation, an      *)
(* uninstall or a new key, before the registration began admits nobody,       *)
(* whatever the gate reads between its statements.                           *)
RetiredKeysAdmitNobody == applicant.step = "admitted" => ~applicant.withdrawn

(* Both: the gate can open for invites, and stays shut for withdrawn keys.   *)
GateHolds == GatekeeperHasKey /\ RetiredKeysAdmitNobody
=============================================================================
