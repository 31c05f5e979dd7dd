----------------------------- MODULE MCServices -----------------------------
(***************************************************************************)
(* The parts of the homeserver beside the delivery of messages: accounts    *)
(* and logins (MCAccounts), installed Projects, attachments, pictures, push  *)
(* registrations.  They share no state that the properties are about, so    *)
(* each behaviour is one of one part, and the others stay as they begin.    *)
(***************************************************************************)
EXTENDS MCAccounts, Projects, Attachments, Profiles, PushTokens

CONSTANTS o1, o2, u1, u2, e1, e2, h1, h2, club

VARIABLE part

\* Both calls on one device, or one on each.
OneOrTwoPhones == {[c \in Calls |-> h1], [c \in Calls |-> IF c = e1 THEN h1 ELSE h2]}

\* MCAccounts' limits, and one under which no account does anything.
ServiceLimits == AllLimits \cup {None}

ServicesInit ==
    /\ part \in {"accounts", "projects", "attachments", "profiles", "push"}
    /\ Init /\ ProjectsInit /\ BlobsInit /\ ProfilesInit /\ PushInit
    /\ part # "accounts" <=> bound = None
    /\ part # "profiles" => owner = "group" /\ runsOn = [c \in Calls |-> h1]

Accounting == part = "accounts" /\ Next
    /\ UNCHANGED <<projectVars, blobVars, profileVars, pushVars>>
Administering == part = "projects" /\ ProjectsNext
    /\ UNCHANGED <<vars, blobVars, profileVars, pushVars>>
Attaching == part = "attachments" /\ BlobsNext
    /\ UNCHANGED <<vars, projectVars, profileVars, pushVars>>
Picturing == part = "profiles" /\ ProfilesNext
    /\ UNCHANGED <<vars, projectVars, blobVars, pushVars>>
Pushing == part = "push" /\ PushNext
    /\ UNCHANGED <<vars, projectVars, blobVars, profileVars>>
ServicesNext ==
    /\ Accounting \/ Administering \/ Attaching \/ Picturing \/ Pushing
    /\ UNCHANGED part

\* No step that is fair in a part is enabled where that part begins.
Spec ==
    /\ ServicesInit
    /\ [][ServicesNext]_<<vars, projectVars, blobVars, profileVars, pushVars, part>>
    /\ AccountsFairness /\ BlobsFairness /\ ProfilesFairness /\ PushFairness
=============================================================================
