------------------------------ MODULE Profiles ------------------------------
(***************************************************************************)
(* A name and a picture, and what one other person's device shows of them   *)
(* (app-core lib.rs set_display_name, set_own_avatar, clear_own_avatar,     *)
(* refresh_contact_profile; messaging.rs handle_inbound_profile_key,        *)
(* sync_contact_avatar; groups.rs set_avatar, fetch_group_avatar; server    *)
(* routes/profile.rs, routes/avatar.rs).                                    *)
(*                                                                         *)
(* The picture is a blob overwritten in place; the profile (or the group    *)
(* state) carries its version and digest.  A picture is the number of its   *)
(* upload, a digest the same number.  No call holds a lock: any number run  *)
(* at once, on one device or on two.  Publishing a group's picture is a     *)
(* submitted change (GroupState), here one step.                           *)
(***************************************************************************)
EXTENDS Integers, FiniteSets

CONSTANTS
    Calls,       \* calls that may run at once
    Phones,      \* devices of the account, or members of the group
    Placements,  \* the ways calls are spread over devices
    MaxChanges,  \* bound: calls that change name or picture
    MaxLapses    \* bound: requests of theirs that fail

ASSUME ProfileAssumption ==
    /\ IsFiniteSet(Calls) /\ IsFiniteSet(Phones) /\ Phones # {}
    /\ Placements \subseteq [Calls -> Phones]
    /\ MaxChanges \in Nat /\ MaxLapses \in Nat

VARIABLES
    owner,      \* whose picture: "account" or "group"
    runsOn,     \* runsOn[c]: the device a call runs on
    picture,    \* the blob the server holds, 0: none
    published,  \* the profile the server holds
    local,      \* local[p]: name and cached version on a device
    edit,       \* edit[c]: where the call is
    viewed,     \* the other device's copy
    pulled,     \* the group state it has pulled
    reading,    \* reading[r]: its fetch, after opening or on a message
    uploads, changes, lapses,
    everOut,    \* bookkeeping: every pair of version and picture published
    restarted   \* bookkeeping: a version published was not the highest yet

profileVars == <<owner, runsOn, picture, published, local, edit, viewed, pulled, reading,
                 uploads, changes, lapses, everOut, restarted>>
viewing == <<viewed, pulled, reading>>

Blank == [name |-> 0, version |-> 0, picture |-> 0]
NoEdit == [step |-> "none", does |-> "none", profile |-> Blank]
NoRead == [step |-> "none", profile |-> Blank]
Reads == {"opened", "inbound"}

ProfilesInit ==
    /\ owner \in {"account", "group"} /\ runsOn \in Placements
    /\ picture = 0 /\ published = Blank
    /\ local = [p \in Phones |-> [name |-> 0, version |-> 0]]
    /\ edit = [c \in Calls |-> NoEdit]
    /\ viewed = [known |-> FALSE, name |-> 0, version |-> 0, picture |-> 0] /\ pulled = Blank
    /\ reading = [r \in Reads |-> NoRead]
    /\ uploads = 0 /\ changes = 0 /\ lapses = 0
    /\ everOut = {<<0, 0>>} /\ restarted = FALSE

EditAt(c, step) == edit[c].step = step
EditGoes(c, step, profile) ==
    edit' = [edit EXCEPT ![c].step = step, ![c].profile = profile]
EditEnds(c) == edit' = [edit EXCEPT ![c] = NoEdit]

----------------------------------------------------------------------------
(* Changing the name or the picture *)

\* Every call starts from the name this device has.
BeginEdit(c, does) ==
    /\ EditAt(c, "none") /\ changes < MaxChanges /\ changes' = changes + 1
    /\ edit' = [edit EXCEPT ![c] =
           [step |-> IF does = "rename" THEN "publish" ELSE "blob", does |-> does,
            profile |-> [Blank EXCEPT !.name = IF does = "rename" THEN changes + 1
                                               ELSE local[runsOn[c]].name]]]
    /\ UNCHANGED <<owner, runsOn, picture, published, local, viewing, uploads, lapses,
                   everOut, restarted>>

SetOwnAvatar(c) == BeginEdit(c, "set")
ClearOwnAvatar(c) == BeginEdit(c, "clear")
SetDisplayName(c) == owner = "account" /\ BeginEdit(c, "rename")

\* The version after the one cached here, read once the blob is up.
NextVersion(c) == local[runsOn[c]].version + 1
PutAvatar(c) ==
    /\ EditAt(c, "blob") /\ edit[c].does = "set"
    /\ uploads' = uploads + 1 /\ picture' = uploads + 1
    /\ EditGoes(c, "publish", [edit[c].profile EXCEPT !.version = NextVersion(c),
                                                  !.picture = uploads + 1])
    /\ UNCHANGED <<owner, runsOn, published, local, viewing, changes, lapses, everOut,
                   restarted>>

DeleteAvatar(c) ==
    /\ EditAt(c, "blob") /\ edit[c].does = "clear"
    /\ picture' = 0
    /\ EditGoes(c, "publish", edit[c].profile)
    /\ UNCHANGED <<owner, runsOn, published, local, viewing, uploads, changes, lapses,
                   everOut, restarted>>

\* A group's version follows the one in the state the change is built on.
Outgoing(c) ==
    IF owner = "group" /\ edit[c].does = "set"
    THEN [edit[c].profile EXCEPT !.version = published.version + 1]
    ELSE edit[c].profile

PutProfile(c) ==
    /\ EditAt(c, "publish")
    /\ published' = Outgoing(c)
    /\ everOut' = everOut \cup {<<Outgoing(c).version, Outgoing(c).picture>>}
    /\ restarted' = (restarted \/ (/\ Outgoing(c).version # 0
                                   /\ \E e \in everOut : e[1] >= Outgoing(c).version))
    /\ EditGoes(c, "local", Outgoing(c))
    /\ UNCHANGED <<owner, runsOn, picture, local, viewing, uploads, changes, lapses>>

\* update_own_display_name, upsert_avatar, delete_avatar
KeepLocally(c) ==
    /\ EditAt(c, "local")
    /\ local' = IF edit[c].does = "rename"
                THEN [local EXCEPT ![runsOn[c]].name = edit[c].profile.name]
                ELSE [local EXCEPT ![runsOn[c]].version = edit[c].profile.version]
    /\ EditEnds(c)
    /\ UNCHANGED <<owner, runsOn, picture, published, viewing, uploads, changes, lapses,
                   everOut, restarted>>

\* A request fails and the call with it; deleting a group's blob is
\* best-effort.
RequestFails(c) ==
    /\ edit[c].step \in {"blob", "publish"}
    /\ lapses < MaxLapses /\ lapses' = lapses + 1
    /\ IF owner = "group" /\ EditAt(c, "blob") /\ edit[c].does = "clear"
       THEN EditGoes(c, "publish", edit[c].profile) ELSE EditEnds(c)
    /\ UNCHANGED <<owner, runsOn, picture, published, local, viewing, uploads, changes,
                   everOut, restarted>>

----------------------------------------------------------------------------
(* The other device *)

KeepOwner == UNCHANGED <<owner, runsOn, picture, published, local, edit, uploads, changes,
                         lapses, everOut, restarted>>

\* handle_inbound_profile_key: a key not yet cached is looked up at once.
HandleInboundProfileKey ==
    /\ owner = "account" /\ ~viewed.known /\ reading["inbound"].step = "none"
    /\ reading' = [reading EXCEPT !["inbound"] = [step |-> "avatar", profile |-> published]]
    /\ UNCHANGED <<viewed, pulled>> /\ KeepOwner

\* prime_member_profiles (or prime_contact_profile): the name, no picture.
PrimeMemberProfile ==
    /\ owner = "account" /\ ~viewed.known
    /\ viewed' = [viewed EXCEPT !.known = TRUE, !.name = published.name]
    /\ UNCHANGED <<pulled, reading>> /\ KeepOwner

\* A refresh inside the window of an earlier one does nothing.
RefreshContactProfile ==
    /\ owner = "account" /\ viewed.known
    /\ reading["opened"].step = "none"
    /\ reading' = [reading EXCEPT !["opened"] = [step |-> "avatar", profile |-> published]]
    /\ UNCHANGED <<viewed, pulled>> /\ KeepOwner

PullGroupState ==
    /\ owner = "group" /\ pulled # published /\ pulled' = published
    /\ UNCHANGED <<viewed, reading>> /\ KeepOwner

\* Without a picture now or before it does nothing.
FetchGroupAvatar ==
    /\ owner = "group" /\ reading["opened"].step = "none"
    /\ pulled.version # 0 \/ viewed.version # 0
    /\ reading' = [reading EXCEPT !["opened"] = [step |-> "avatar", profile |-> pulled]]
    /\ UNCHANGED <<viewed, pulled>> /\ KeepOwner

\* The picture is fetched when its version is newer than the cached one, and
\* kept when it has the digest that came with the version.
Behind_Far(p) == viewed.version + 1 < p.version
Behind(p) == viewed.version < p.version
DigestMatches_Any(p) == picture # 0
DigestMatches(p) == picture # 0 /\ picture = p.picture
SyncContactAvatar(r) ==
    /\ reading[r].step = "avatar"
    /\ LET p == reading[r].profile IN
       viewed' = IF p.version = 0 THEN [viewed EXCEPT !.version = 0, !.picture = 0]
                 ELSE IF Behind(p) /\ DigestMatches(p)
                 THEN [viewed EXCEPT !.version = p.version, !.picture = picture]
                 ELSE viewed
    /\ reading' = [reading EXCEPT ![r].step = "name"]
    /\ UNCHANGED pulled /\ KeepOwner

UpsertContactProfile(r) ==
    /\ reading[r].step = "name"
    /\ viewed' = IF owner = "group" THEN viewed
                 ELSE [viewed EXCEPT !.known = TRUE, !.name = reading[r].profile.name]
    /\ reading' = [reading EXCEPT ![r] = NoRead]
    /\ UNCHANGED pulled /\ KeepOwner

ReadFails(r) ==
    /\ reading[r].step = "avatar" /\ lapses < MaxLapses /\ lapses' = lapses + 1
    /\ reading' = [reading EXCEPT ![r].step = "name"]
    /\ UNCHANGED <<owner, runsOn, picture, published, local, edit, viewed, pulled,
                   uploads, changes, everOut, restarted>>

----------------------------------------------------------------------------
EditStep(c) == PutAvatar(c) \/ DeleteAvatar(c) \/ PutProfile(c) \/ KeepLocally(c)
ReadStep(r) == SyncContactAvatar(r) \/ UpsertContactProfile(r)
OpenConversation == RefreshContactProfile \/ FetchGroupAvatar
ProfilesNext ==
    \/ \E c \in Calls :
          \/ SetOwnAvatar(c) \/ ClearOwnAvatar(c) \/ SetDisplayName(c)
          \/ EditStep(c) \/ RequestFails(c)
    \/ HandleInboundProfileKey \/ PrimeMemberProfile \/ PullGroupState \/ OpenConversation
    \/ \E r \in Reads : ReadStep(r) \/ ReadFails(r)

ProfilesSpec == ProfilesInit /\ [][ProfilesNext]_profileVars

\* A message with the key comes or the group is pulled, and the conversation
\* is opened again and again.
ProfilesFairness ==
    /\ WF_profileVars(\E c \in Calls : EditStep(c))
    /\ WF_profileVars(\E r \in Reads : ReadStep(r))
    /\ WF_profileVars(HandleInboundProfileKey \/ PullGroupState)
    /\ WF_profileVars(OpenConversation)

----------------------------------------------------------------------------
\* The types of the state.
Published == [name : Nat, version : Nat, picture : Nat]
ProfilesTypeOK ==
    /\ owner \in {"account", "group"} /\ runsOn \in [Calls -> Phones] /\ picture \in Nat
    /\ published \in Published /\ pulled \in Published
    /\ local \in [Phones -> [name : Nat, version : Nat]]
    /\ edit \in [Calls -> [step : {"none", "blob", "publish", "local"},
                           does : {"none", "set", "clear", "rename"}, profile : Published]]
    /\ viewed \in [known : BOOLEAN, name : Nat, version : Nat, picture : Nat]
    /\ reading \in [Reads -> [step : {"none", "avatar", "name"}, profile : Published]]
    /\ uploads \in Nat /\ changes \in Nat /\ lapses \in Nat
    /\ everOut \subseteq Nat \X Nat /\ restarted \in BOOLEAN

(* The picture shown with a version is one that was published with that     *)
(* version, in whatever order uploads, publications and fetches of several   *)
(* calls interleave (sync_contact_avatar's digest check; the blob and the    *)
(* profile are two requests).                                              *)
ShownWasPublished == <<viewed.version, viewed.picture>> \in everOut

(* In the end the other device shows the picture that is published, if the   *)
(* blob is still that one, except that a version published again, after a    *)
(* clear or from a device that has none cached, may never be fetched.        *)
PictureFollows ==
    <>[](\/ viewed.picture = published.picture
         \/ picture # published.picture
         \/ restarted)
=============================================================================
