---------------------------- MODULE MCGroupState ----------------------------
(* Small instances of GroupState: whose the devices are, who tries what. *)
EXTENDS GroupState

CONSTANTS a, a2, b, b2

\* One device per account; two of b's account; one account.
OwnDevice == [d \in Devices |-> d]
TwoOfB == [d \in Devices |-> IF d = b2 THEN b ELSE d]
OneAccount == [d \in Devices |-> a]

\* An administrator against a member that joins, leaves and edits.
AdminAndMember ==
    [d \in Devices |->
        IF d = a THEN {"invite", "remove", "role", "approve", "policy"}
        ELSE {"look", "join", "leave", "deny", "cancel", "decline"}]
Editors == [d \in Devices |-> {"look", "leave"}]
InviteAndLeave ==
    [d \in Devices |-> IF d = a THEN {"invite"} ELSE IF d = b THEN {"leave"} ELSE {}]

\* A group one may ask to join, and one anyone may join and edit.
AskOrOpen == {[least |-> 1, join |-> "request"], [least |-> 0, join |-> "open"]}
=============================================================================
