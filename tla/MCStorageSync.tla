--------------------------- MODULE MCStorageSync ---------------------------
(***************************************************************************)
(* Storage sync, and the contact rows that it carries.  They share no state *)
(* that the properties are about, so each behaviour is one of one part.     *)
(***************************************************************************)
EXTENDS StorageSync, Contacts

CONSTANTS d1, d2

VARIABLE part

\* The first record is edited on both devices, the second on one only.
OneShared == [k \in Records |-> IF k = 1 THEN {d1, d2} ELSE {d2}]

Storing == part = "storage" /\ Next /\ UNCHANGED <<contactVars, part>>
Contacting == part = "contacts" /\ ContactsNext /\ UNCHANGED <<vars, part>>

\* Contacts treats its devices alike, so the person is vouched for on one.
SyncInit ==
    /\ Init /\ ContactsInit /\ part \in {"storage", "contacts"}
    /\ vouched = IF part = "storage" THEN {} ELSE {d1}

\* Contacts syncs nothing where it begins; StorageSync always may.
SyncSpec ==
    /\ SyncInit
    /\ [][Storing \/ Contacting]_<<vars, contactVars, part>>
    /\ \A d \in Devices : WF_vars(part = "storage" /\ SyncStep(d))
    /\ ContactsFairness
=============================================================================
