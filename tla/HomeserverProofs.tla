-------------------------- MODULE HomeserverProofs --------------------------
(***************************************************************************)
(* Proofs about four parts of the homeserver, each under its own            *)
(* specification, for any values of the constants:                          *)
(*                                                                         *)
(*   GateIsSafe        installed Projects: the gate for invites and for     *)
(*                     bots (Projects);                                     *)
(*   PicturesMatch     pictures: what is shown was published (Profiles);    *)
(*   BlobsAreServed    attachments: pointers resolve and ranges are served  *)
(*                     (Attachments);                                       *)
(*   WakeupsArrive     push registrations: a wakeup finds the device        *)
(*                     (PushTokens).                                        *)
(***************************************************************************)
EXTENDS Projects, Profiles, Attachments, PushTokens, SequenceTheorems, TLAPS

----------------------------------------------------------------------------
(* Push registrations *)

Fresh == [token |-> token, age |-> "live"]
Newest(n) == known[n] # 0 /\ \A m \in Drawable \ {n} : known[m] < known[n]
Registering == pushCall.step \in {"relay", "groups", "server"}

(* What each step of a call may rely on, and where a settled device stands.  *)
PushInv ==
    /\ drawn <= calls /\ pushState.name <= drawn
    /\ \A n \in Drawable : known[n] <= calls
    /\ Registering =>
          /\ pushCall.name \in Drawable /\ pushCall.old # pushCall.name
          /\ \A n \in Drawable : known[n] < calls
          /\ pushCall.token # token => settled = {}
          /\ pushCall.spoilt => "device" \notin settled
    /\ (pushCall.step \in {"groups", "server"} /\ ~pushCall.spoilt) =>
          relay[pushCall.name] = [token |-> pushCall.token, age |-> "live"]
    /\ pushCall.step \in {"retire", "forget"} =>
          pushCall.name \in Drawable /\ Newest(pushCall.name)
          /\ pushCall.old \in Drawable /\ pushCall.old # pushCall.name
    /\ pushCall.step \in {"leave", "leaveServer", "clear"} =>
          settled = {} /\ pushCall.old \in Drawable
    /\ "device" \in settled => \E n \in Drawable : Newest(n) /\ relay[n] = Fresh
    /\ \A g \in settled \cap PushGroups : relay[g] = Fresh

----------------------------------------------------------------------------
(* Installed Projects *)

Grants(q) == order[q].does = "grant"
Revokes(q) == order[q].does = "revoke"

(* Keys and capabilities go with the row that is there.                     *)
OneRow ==
    /\ installed <= ids
    /\ \A i \in Ids : (signingKey[i] # 0 \/ signupKey[i] # 0 \/ i \in gatekeepers) => i = installed

(* What an order under way carries, and what it has to itself.              *)
OrderFits(q) ==
    /\ order[q].does = "none" => order[q] = NoOrder
    /\ order[q].id <= ids
    /\ Grants(q) => order[q].id # 0 /\ order[q].key \in 1..MaxKeys
    /\ Revokes(q) => order[q].id # 0
    /\ order[q].does = "mint" => order[q].id # 0 /\ order[q].key > MaxKeys
    /\ (q \in UnderWay /\ order[q].alone) =>
          /\ UnderWay = {q}
          /\ order[q].does \in {"grant", "revoke", "mint"} => order[q].id = installed
    /\ (Grants(q) /\ order[q].step = "second" /\ order[q].id = installed) =>
          /\ signingKey[installed] # 0 \/ installed \in crossed
          /\ order[q].alone => signingKey[installed] = order[q].key
    /\ (Revokes(q) /\ order[q].step = "second" /\ order[q].id \in gatekeepers) =>
          order[q].id \in crossed
    /\ \A p \in Requests : (Grants(p) /\ Revokes(q) /\ order[p].id = order[q].id) =>
          order[q].id \in crossed

(* A withdrawn key is nowhere in force, and nobody carries one.             *)
RetiredOut ==
    /\ \A k \in retired :
          /\ \A i \in Ids : signingKey[i] # k /\ signupKey[i] # k
          /\ \A q \in Requests : order[q].key # k
    /\ applicant.withdrawn =>
          /\ applicant.key \in retired /\ applicant.pinned # applicant.key
          /\ applicant.step # "admitted"

GateInv == OneRow /\ GatekeeperHasKey /\ (\A q \in Requests : OrderFits(q)) /\ RetiredOut

----------------------------------------------------------------------------
(* Pictures *)

Pair(p) == <<p.version, p.picture>>
PictureInv ==
    /\ {<<0, 0>>, Pair(published), Pair(pulled), Pair(viewed)} \subseteq everOut
    /\ \A r \in Reads : Pair(reading[r].profile) \in everOut

----------------------------------------------------------------------------
(* Attachments *)

Stored == {x \in DOMAIN file : file[x] # NoFile}

(* One upload to a slot; a file there while its row is.                     *)
BlobInv ==
    /\ \A d \in Uploaders :
          /\ upload[d].step \in {"idle", "insert"} => upload[d].slot = 0
          /\ upload[d].step \in {"put", "open", "write"} =>
                upload[d].slot \in DOMAIN slots \ pointers
          /\ (upload[d].step = "write" /\ upload[d].slot \in Rows) => upload[d].slot \in Stored
    /\ \A d, e \in Uploaders : (upload[d].slot = upload[e].slot /\ upload[d].slot # 0) => d = e
    /\ doomed \cap Rows = {}
    /\ PointersResolve

----------------------------------------------------------------------------
(* Pictures: proof *)

LEMMA PicturesBegin == ProfilesInit => ProfilesTypeOK /\ PictureInv
<1> SUFFICES ASSUME ProfilesInit  PROVE ProfilesTypeOK /\ PictureInv
  OBVIOUS
<1>1. Blank \in Published /\ Blank.version = 0 /\ Blank.picture = 0  BY DEF Blank, Published
<1>2. reading \in [Reads -> [step : {"none", "avatar", "name"}, profile : Published]]
      /\ \A r \in Reads : reading[r].profile = Blank
  BY <1>1 DEF ProfilesInit, NoRead
<1>3. edit \in [Calls -> [step : {"none", "blob", "publish", "local"},
                         does : {"none", "set", "clear", "rename"}, profile : Published]]
  BY <1>1 DEF ProfilesInit, NoEdit
<1>4. ProfilesTypeOK
  <2>1. runsOn \in [Calls -> Phones]  BY ProfileAssumption DEF ProfilesInit
  <2>2. local \in [Phones -> [name : Nat, version : Nat]]  BY DEF ProfilesInit
  <2>3. viewed \in [known : BOOLEAN, name : Nat, version : Nat, picture : Nat]
    BY DEF ProfilesInit
  <2>4. everOut \subseteq Nat \X Nat  BY DEF ProfilesInit
  <2> QED  BY <1>1, <1>2, <1>3, <2>1, <2>2, <2>3, <2>4 DEF ProfilesInit, ProfilesTypeOK
<1>5. PictureInv  BY <1>1, <1>2 DEF ProfilesInit, PictureInv, Pair
<1> QED  BY <1>4, <1>5

\* The steps of a call: a profile is made, and published with its pair.
LEMMA EditsKeepPictures ==
  ASSUME ProfilesTypeOK, PictureInv, NEW c \in Calls,
         \/ SetOwnAvatar(c) \/ ClearOwnAvatar(c) \/ SetDisplayName(c)
         \/ EditStep(c) \/ RequestFails(c)
  PROVE  ProfilesTypeOK' /\ PictureInv'
<1> DEFINE Edits == [step : {"none", "blob", "publish", "local"},
                     does : {"none", "set", "clear", "rename"}, profile : Published]
           here == local[runsOn[c]]
<1>1. /\ edit[c] \in Edits /\ edit[c].profile \in Published /\ edit[c].does \in {"none", "set", "clear", "rename"}
      /\ here \in [name : Nat, version : Nat] /\ here.name \in Nat /\ here.version \in Nat
      /\ runsOn[c] \in Phones
  BY DEF ProfilesTypeOK
<1>2. Blank \in Published /\ NoEdit \in Edits  BY DEF Blank, NoEdit, Published
<1>3. UNCHANGED <<owner, runsOn, viewed, pulled, reading>>
  BY DEF SetOwnAvatar, ClearOwnAvatar, SetDisplayName, BeginEdit, EditStep, PutAvatar,
         DeleteAvatar, PutProfile, KeepLocally, RequestFails, viewing
<1>4. \/ edit' = [edit EXCEPT ![c] = NoEdit]
      \/ \E j \in Edits : edit' = [edit EXCEPT ![c] = j]
  <2>1. CASE SetOwnAvatar(c) \/ ClearOwnAvatar(c) \/ SetDisplayName(c)
    <3>1. PICK does \in {"set", "clear", "rename"} : BeginEdit(c, does)
      BY <2>1 DEF SetOwnAvatar, ClearOwnAvatar, SetDisplayName
    <3> DEFINE name == IF does = "rename" THEN changes + 1 ELSE here.name
               step == IF does = "rename" THEN "publish" ELSE "blob"
               j == [step |-> step, does |-> does, profile |-> [Blank EXCEPT !.name = name]]
    <3>2. edit' = [edit EXCEPT ![c] = j]  BY <3>1 DEF BeginEdit
    <3>3. name \in Nat /\ step \in {"publish", "blob"}  BY <1>1 DEF ProfilesTypeOK
    <3> HIDE DEF name, step
    <3>4. [Blank EXCEPT !.name = name] \in Published  BY <1>2, <3>3 DEF Published
    <3>5. j \in Edits  BY <3>3, <3>4
    <3> QED  BY <3>2, <3>5
  <2>2. CASE PutAvatar(c)
    <3> DEFINE p == [edit[c].profile EXCEPT !.version = NextVersion(c), !.picture = uploads + 1]
               j == [edit[c] EXCEPT !.step = "publish", !.profile = p]
    <3>1. edit' = [edit EXCEPT ![c] = j]  BY <1>1, <2>2 DEF PutAvatar, EditGoes, ProfilesTypeOK
    <3>a. NextVersion(c) \in Nat /\ uploads + 1 \in Nat  BY <1>1 DEF NextVersion, ProfilesTypeOK
    <3>2. p \in Published  BY <1>1, <3>a DEF Published
    <3> HIDE DEF p
    <3>3. j \in Edits  BY <1>1, <3>2
    <3> QED  BY <3>1, <3>3
  <2>3. CASE DeleteAvatar(c) \/ RequestFails(c)
    <3> DEFINE j == [edit[c] EXCEPT !.step = "publish", !.profile = edit[c].profile]
    <3>1. edit' = [edit EXCEPT ![c] = j] \/ edit' = [edit EXCEPT ![c] = NoEdit]
      BY <1>1, <2>3 DEF DeleteAvatar, RequestFails, EditGoes, EditEnds, ProfilesTypeOK
    <3>2. j \in Edits  BY <1>1
    <3> QED  BY <3>1, <3>2
  <2>4. CASE PutProfile(c)
    <3> DEFINE p == Outgoing(c)
               j == [edit[c] EXCEPT !.step = "local", !.profile = p]
    <3>1. edit' = [edit EXCEPT ![c] = j]  BY <1>1, <2>4 DEF PutProfile, EditGoes, ProfilesTypeOK
    <3>2. p \in Published  BY <1>1 DEF Outgoing, Published, ProfilesTypeOK
    <3> HIDE DEF p
    <3>3. j \in Edits  BY <1>1, <3>2
    <3> QED  BY <3>1, <3>3
  <2>5. CASE KeepLocally(c)  BY <2>5 DEF KeepLocally, EditEnds
  <2> QED  BY <2>1, <2>2, <2>3, <2>4, <2>5 DEF EditStep
<1>5. edit' \in [Calls -> Edits]  BY <1>2, <1>4 DEF ProfilesTypeOK
<1>6. /\ picture' \in Nat /\ uploads' \in Nat /\ changes' \in Nat /\ lapses' \in Nat
      /\ local' \in [Phones -> [name : Nat, version : Nat]]
  <2>0. /\ picture \in Nat /\ uploads \in Nat /\ changes \in Nat /\ lapses \in Nat
        /\ local \in [Phones -> [name : Nat, version : Nat]]
        /\ edit[c].profile.name \in Nat /\ edit[c].profile.version \in Nat
    BY <1>1 DEF ProfilesTypeOK, Published
  <2>1. CASE SetOwnAvatar(c) \/ ClearOwnAvatar(c) \/ SetDisplayName(c)
    BY <2>0, <2>1 DEF SetOwnAvatar, ClearOwnAvatar, SetDisplayName, BeginEdit
  <2>2. CASE PutAvatar(c) \/ DeleteAvatar(c) \/ PutProfile(c) \/ RequestFails(c)
    BY <2>0, <2>2 DEF PutAvatar, DeleteAvatar, PutProfile, RequestFails
  <2>3. CASE KeepLocally(c)
    <3>1. \/ local' = [local EXCEPT ![runsOn[c]].name = edit[c].profile.name]
          \/ local' = [local EXCEPT ![runsOn[c]].version = edit[c].profile.version]
      BY <2>3 DEF KeepLocally
    <3>2. local' \in [Phones -> [name : Nat, version : Nat]]
      BY <1>1, <2>0, <3>1
    <3> QED  BY <2>0, <2>3, <3>2 DEF KeepLocally
  <2> QED  BY <2>1, <2>2, <2>3 DEF EditStep
<1>7. \/ UNCHANGED <<published, everOut, restarted>>
      \/ /\ published' = Outgoing(c) /\ everOut' = everOut \cup {Pair(Outgoing(c))}
         /\ restarted' \in BOOLEAN
  <2>1. CASE PutProfile(c)
    <3> DEFINE again == /\ Outgoing(c).version # 0
                        /\ \E e \in everOut : e[1] >= Outgoing(c).version
    <3>1. restarted' = (restarted \/ again) /\ again \in BOOLEAN  BY <2>1 DEF PutProfile
    <3> HIDE DEF again
    <3>2. restarted' \in BOOLEAN  BY <3>1 DEF ProfilesTypeOK
    <3> QED  BY <2>1, <3>2 DEF PutProfile, Pair
  <2>2. CASE ~PutProfile(c)
    BY <2>2 DEF SetOwnAvatar, ClearOwnAvatar, SetDisplayName, BeginEdit, EditStep, PutAvatar,
                DeleteAvatar, KeepLocally, RequestFails
  <2> QED  BY <2>1, <2>2
<1>8. Outgoing(c) \in Published /\ Pair(Outgoing(c)) \in Nat \X Nat
  BY <1>1 DEF Outgoing, Published, ProfilesTypeOK, Pair
<1>9. ProfilesTypeOK'
  BY <1>3, <1>5, <1>6, <1>7, <1>8 DEF ProfilesTypeOK
<1>10. PictureInv'
  BY <1>3, <1>7 DEF PictureInv, Pair
<1> QED  BY <1>9, <1>10

\* The steps of the other device.
LEMMA ReadsKeepPictures ==
  ASSUME ProfilesTypeOK, PictureInv,
         \/ HandleInboundProfileKey \/ PrimeMemberProfile \/ PullGroupState \/ OpenConversation
         \/ \E r \in Reads : ReadStep(r) \/ ReadFails(r)
  PROVE  ProfilesTypeOK' /\ PictureInv'
<1> DEFINE Readings == [step : {"none", "avatar", "name"}, profile : Published]
           Views == [known : BOOLEAN, name : Nat, version : Nat, picture : Nat]
           Good(j) == j \in Readings /\ Pair(j.profile) \in everOut
<1>1. /\ UNCHANGED <<owner, runsOn, picture, published, local, edit, uploads, changes, everOut,
                     restarted>>
      /\ lapses' \in Nat
  <2>1. CASE KeepOwner  BY <2>1 DEF KeepOwner, ProfilesTypeOK
  <2>2. ASSUME NEW r \in Reads, ReadFails(r)
        PROVE  /\ UNCHANGED <<owner, runsOn, picture, published, local, edit, uploads, changes,
                              everOut, restarted>>
               /\ lapses' \in Nat
    BY <2>2 DEF ReadFails, ProfilesTypeOK
  <2> QED
    BY <2>1, <2>2
    DEF HandleInboundProfileKey, PrimeMemberProfile, PullGroupState, OpenConversation,
        RefreshContactProfile, FetchGroupAvatar, ReadStep, SyncContactAvatar,
        UpsertContactProfile
<1>2. Good(NoRead) /\ Good([step |-> "avatar", profile |-> published])
      /\ Good([step |-> "avatar", profile |-> pulled])
  BY DEF NoRead, Blank, Published, ProfilesTypeOK, PictureInv, Pair
<1>3. \A r \in Reads : Good(reading[r]) /\ Good([reading[r] EXCEPT !.step = "name"])
  BY DEF ProfilesTypeOK, PictureInv
<1>4. \/ reading' = reading
      \/ \E r \in Reads, j \in Readings : Good(j) /\ reading' = [reading EXCEPT ![r] = j]
  <2>1. CASE HandleInboundProfileKey \/ RefreshContactProfile
    BY <1>2, <2>1 DEF HandleInboundProfileKey, RefreshContactProfile, Reads
  <2>2. CASE FetchGroupAvatar  BY <1>2, <2>2 DEF FetchGroupAvatar, Reads
  <2>3. CASE PrimeMemberProfile \/ PullGroupState
    BY <2>3 DEF PrimeMemberProfile, PullGroupState
  <2>4. ASSUME NEW r \in Reads, SyncContactAvatar(r) \/ ReadFails(r)
        PROVE  \E j \in Readings : Good(j) /\ reading' = [reading EXCEPT ![r] = j]
    <3>1. reading' = [reading EXCEPT ![r] = [reading[r] EXCEPT !.step = "name"]]
      BY <2>4 DEF SyncContactAvatar, ReadFails, ProfilesTypeOK
    <3> QED  BY <1>3, <3>1
  <2>5. ASSUME NEW r \in Reads, UpsertContactProfile(r)
        PROVE  reading' = [reading EXCEPT ![r] = NoRead]
    BY <2>5 DEF UpsertContactProfile
  <2> QED  BY <1>2, <2>1, <2>2, <2>3, <2>4, <2>5 DEF OpenConversation, ReadStep
<1>5. reading' \in [Reads -> Readings] /\ \A r \in Reads : Pair(reading'[r].profile) \in everOut
  <2>0. reading \in [Reads -> Readings] /\ \A r \in Reads : Pair(reading[r].profile) \in everOut
    BY <1>3 DEF ProfilesTypeOK
  <2>1. CASE reading' = reading  BY <2>0, <2>1
  <2>2. ASSUME NEW r \in Reads, NEW j \in Readings, Good(j), reading' = [reading EXCEPT ![r] = j]
        PROVE  reading' \in [Reads -> Readings]
               /\ \A s \in Reads : Pair(reading'[s].profile) \in everOut
    <3> HIDE DEF Readings
    <3>1. \A s \in Reads : reading'[s] = IF s = r THEN j ELSE reading[s]  BY <2>0, <2>2
    <3>2. Pair(j.profile) \in everOut  BY <2>2
    <3> QED  BY <2>0, <2>2, <3>1, <3>2
  <2> QED  BY <1>4, <2>1, <2>2
<1>6. pulled' \in {pulled, published}
  BY DEF HandleInboundProfileKey, PrimeMemberProfile, PullGroupState, OpenConversation,
         RefreshContactProfile, FetchGroupAvatar, ReadStep, SyncContactAvatar,
         UpsertContactProfile, ReadFails
<1>7. viewed' \in Views /\ Pair(viewed') \in everOut
  <2>0. viewed \in Views /\ Pair(viewed) \in everOut /\ <<0, 0>> \in everOut
    BY DEF ProfilesTypeOK, PictureInv
  <2>1. CASE viewed' = viewed  BY <2>0, <2>1
  <2>2. CASE PrimeMemberProfile
    <3>1. viewed' = [viewed EXCEPT !.known = TRUE, !.name = published.name]
      BY <2>2 DEF PrimeMemberProfile
    <3>2. published.name \in Nat  BY DEF ProfilesTypeOK, Published
    <3> QED  BY <2>0, <3>1, <3>2 DEF Pair
  <2>3. ASSUME NEW r \in Reads, UpsertContactProfile(r), viewed' # viewed
        PROVE  viewed' \in Views /\ Pair(viewed') \in everOut
    <3>1. viewed' = [viewed EXCEPT !.known = TRUE, !.name = reading[r].profile.name]
      BY <2>3 DEF UpsertContactProfile
    <3>2. reading[r].profile.name \in Nat  BY DEF ProfilesTypeOK, Published
    <3> QED  BY <2>0, <3>1, <3>2 DEF Pair
  <2>4. ASSUME NEW r \in Reads, SyncContactAvatar(r), viewed' # viewed
        PROVE  viewed' \in Views /\ Pair(viewed') \in everOut
    <3> DEFINE p == reading[r].profile
    <3>1. \/ viewed' = [viewed EXCEPT !.version = 0, !.picture = 0]
          \/ viewed' = [viewed EXCEPT !.version = p.version, !.picture = picture] /\ picture = p.picture
      BY <2>4 DEF SyncContactAvatar, DigestMatches
    <3>2. p.version \in Nat /\ p.picture \in Nat /\ <<p.version, p.picture>> \in everOut
      BY DEF ProfilesTypeOK, Published, PictureInv, Pair
    <3> HIDE DEF p
    <3>3. CASE viewed' = [viewed EXCEPT !.version = 0, !.picture = 0]
      BY <2>0, <3>3 DEF Pair
    <3>4. CASE viewed' = [viewed EXCEPT !.version = p.version, !.picture = picture] /\ picture = p.picture
      <4>1. viewed'.version = p.version /\ viewed'.picture = p.picture /\ viewed' \in Views
        BY <2>0, <3>2, <3>4
      <4> QED  BY <3>2, <4>1 DEF Pair
    <3> QED  BY <3>1, <3>3, <3>4
  <2> QED
    BY <2>1, <2>2, <2>3, <2>4
    DEF HandleInboundProfileKey, PullGroupState, OpenConversation, RefreshContactProfile,
        FetchGroupAvatar, ReadStep, ReadFails
<1>8. ProfilesTypeOK'  BY <1>1, <1>5, <1>6, <1>7 DEF ProfilesTypeOK
<1>9. PictureInv'  BY <1>1, <1>5, <1>6, <1>7 DEF PictureInv, Pair
<1> QED  BY <1>8, <1>9

\* However calls and fetches interleave, the picture shown with a version was
\* published with it (sync_contact_avatar).
THEOREM PicturesMatch == ProfilesSpec => [](ProfilesTypeOK /\ ShownWasPublished)
<1>1. ProfilesTypeOK /\ PictureInv /\ [ProfilesNext]_profileVars => ProfilesTypeOK' /\ PictureInv'
  <2> SUFFICES ASSUME ProfilesTypeOK, PictureInv, [ProfilesNext]_profileVars
               PROVE  ProfilesTypeOK' /\ PictureInv'
    OBVIOUS
  <2>1. CASE ProfilesNext  BY <2>1, EditsKeepPictures, ReadsKeepPictures DEF ProfilesNext
  <2>2. CASE UNCHANGED profileVars
    BY <2>2 DEF profileVars, viewing, ProfilesTypeOK, PictureInv, Pair
  <2> QED  BY <2>1, <2>2
<1>2. PictureInv => ShownWasPublished  BY DEF PictureInv, Pair, ShownWasPublished
<1> QED  BY <1>1, <1>2, PicturesBegin, PTL DEF ProfilesSpec

----------------------------------------------------------------------------
(* Attachments: proof *)

\* What a range names in a blob of n bytes.
Named(h, n) == {i \in 0..(n - 1) : /\ h.kind = "suffix" => i + h.last >= n
                                   /\ h.kind # "suffix" => i >= h.first
                                   /\ h.kind = "span" => i <= h.last}

LEMMA OneRange ==
  ASSUME NEW n \in Nat, NEW h, NEW a \in Nat, NEW b \in Nat, a <= b,
         ParseRange(h, n) = {<<a, b>>}, Named(h, n) = a..b
  PROVE  Download(h, n) = Named(h, n) /\ Named(h, n) # {}
<1>1. UNION {r[1]..r[2] : r \in {<<a, b>>}} = a..b  OBVIOUS
<1>2. a \in a..b  OBVIOUS
<1>3. ParseRange(h, n) # {}  OBVIOUS
<1> QED  BY <1>1, <1>2, <1>3 DEF Download

\* A range is answered with the bytes it names, whatever the size of the blob.
LEMMA RangeIsServed ==
  ASSUME NEW n \in Nat, NEW h \in Ranges
  PROVE  Download(h, n) = IF Named(h, n) = {} THEN 0..(n - 1) ELSE Named(h, n)
<1>1. /\ h.kind \in {"suffix", "from", "span"}
      /\ h.kind # "suffix" => h.first \in Nat
      /\ h.kind # "from" => h.last \in Nat
  BY DEF Ranges
<1>2. CASE n = 0
  <2>1. ParseRange(h, n) = {} /\ 0..(n - 1) = {}  BY <1>2 DEF ParseRange
  <2> QED  BY <2>1 DEF Download, Named
<1>3. CASE n > 0 /\ h.kind = "suffix"
  <2>1. CASE h.last = 0
    <3>1. ParseRange(h, n) = {}  BY <1>3, <2>1 DEF ParseRange
    <3>2. Named(h, n) = {}  BY <1>3, <2>1 DEF Named
    <3> QED  BY <3>1, <3>2 DEF Download
  <2>2. CASE h.last # 0
    <3> DEFINE a == IF h.last > n THEN 0 ELSE n - h.last
    <3>1. a \in Nat /\ a <= n - 1 /\ n - 1 \in Nat  BY <1>1, <1>3, <2>2
    <3>2. ParseRange(h, n) = {<<a, n - 1>>}  BY <1>3, <2>2 DEF ParseRange
    <3>3. Named(h, n) = a..(n - 1)  BY <1>1, <1>3, <2>2 DEF Named
    <3> HIDE DEF a
    <3> QED  BY <3>1, <3>2, <3>3, OneRange
  <2> QED  BY <2>1, <2>2
<1>4. CASE n > 0 /\ h.kind = "from"
  <2>1. CASE h.first > n - 1
    <3>1. ParseRange(h, n) = {}  BY <1>4, <2>1 DEF ParseRange
    <3>2. Named(h, n) = {}  BY <1>1, <1>4, <2>1 DEF Named
    <3> QED  BY <3>1, <3>2 DEF Download
  <2>2. CASE ~(h.first > n - 1)
    <3>1. h.first \in Nat /\ h.first <= n - 1 /\ n - 1 \in Nat  BY <1>1, <1>4, <2>2
    <3>2. ParseRange(h, n) = {<<h.first, n - 1>>}  BY <1>4, <2>2 DEF ParseRange
    <3>3. Named(h, n) = h.first..(n - 1)  BY <1>1, <1>4, <2>2 DEF Named
    <3> QED  BY <3>1, <3>2, <3>3, OneRange
  <2> QED  BY <2>1, <2>2
<1>5. CASE n > 0 /\ h.kind = "span"
  <2>1. CASE h.first > h.last \/ h.first > n - 1
    <3>1. ParseRange(h, n) = {}  BY <1>5, <2>1 DEF ParseRange
    <3>2. Named(h, n) = {}  BY <1>1, <1>5, <2>1 DEF Named
    <3> QED  BY <3>1, <3>2 DEF Download
  <2>2. CASE ~(h.first > h.last \/ h.first > n - 1)
    <3> DEFINE b == End(h.last, n)
    <3>1. h.first \in Nat /\ b \in Nat /\ h.first <= b  BY <1>1, <1>5, <2>2 DEF End
    <3>2. ParseRange(h, n) = {<<h.first, b>>}  BY <1>5, <2>2 DEF ParseRange
    <3>3. Named(h, n) = h.first..b  BY <1>1, <1>5, <2>2 DEF Named, End
    <3> HIDE DEF b
    <3> QED  BY <3>1, <3>2, <3>3, OneRange
  <2> QED  BY <2>1, <2>2
<1> QED  BY <1>1, <1>2, <1>3, <1>4, <1>5

LEMMA RangesAreServed == BlobsTypeOK => RangesServed
<1> SUFFICES ASSUME BlobsTypeOK, NEW x \in DOMAIN slots, NEW h \in Ranges
             PROVE  LET n == IF OnDisk(x) THEN file[x] ELSE 0
                    IN  Download(h, n) = IF Named(h, n) = {} THEN 0..(n - 1) ELSE Named(h, n)
  BY DEF RangesServed, Named
<1> DEFINE n == IF OnDisk(x) THEN file[x] ELSE 0
<1>1. n \in Nat  BY DEF OnDisk, BlobsTypeOK, NoFile, Whole
<1> HIDE DEF n
<1>2. Download(h, n) = IF Named(h, n) = {} THEN 0..(n - 1) ELSE Named(h, n)
  BY <1>1, RangeIsServed
<1> QED  BY <1>2 DEF n

LEMMA BlobsBegin == BlobsInit => BlobsTypeOK /\ BlobInv
  BY DEF BlobsInit, BlobsTypeOK, BlobInv, AtRest, PointersResolve, Rows

\* A step of one upload, which may add a slot, open a file or fill it.
LEMMA BlobsUploaded ==
  ASSUME BlobsTypeOK, BlobInv, NEW d \in Uploaders,
         Allocate(d) \/ UploadSteps(d) \/ UploadFails(d)
  PROVE  BlobsTypeOK' /\ BlobInv'
<1> DEFINE x == upload[d].slot
           Uploads == [step : {"idle", "insert", "put", "open", "write"}, slot : Nat]
<1>1. /\ slots \in Seq({"kept", "gone"}) /\ DOMAIN slots = 1..Len(slots) /\ Len(slots) \in Nat
      /\ file \in Seq({NoFile, 0, Whole}) /\ DOMAIN file = DOMAIN slots
      /\ upload \in [Uploaders -> Uploads] /\ upload[d] \in Uploads
  BY DEF BlobsTypeOK
<1>2. AtRest \in Uploads  BY DEF AtRest
<1>3. UNCHANGED mine /\ mishaps' \in Nat
  BY DEF Allocate, UploadSteps, InsertSlot, CheckSlot, OpenFile, FillFile, UploadFails, BlobsTypeOK
<1>4. CASE Allocate(d) \/ CheckSlot(d) \/ UploadFails(d)
  <2>1. UNCHANGED <<slots, recent, late, file, doomed, pointers, leaked>>
    BY <1>4 DEF Allocate, CheckSlot, UploadFails
  <2>2. \/ upload' = [upload EXCEPT ![d] = AtRest]
        \/ x = 0 /\ upload' = [upload EXCEPT ![d].step = "insert"]
        \/ upload[d].step = "put" /\ upload' = [upload EXCEPT ![d].step = "open"]
    BY <1>4 DEF Allocate, CheckSlot, UploadFails, At, To, Rests, BlobInv
  <2>3. upload' \in [Uploaders -> Uploads]  BY <1>1, <1>2, <2>2
  <2>4. /\ \A e \in Uploaders \ {d} : upload'[e] = upload[e]
        /\ \/ upload'[d].step = "idle" /\ upload'[d].slot = 0
           \/ upload'[d].step = "insert" /\ upload'[d].slot = 0
           \/ upload'[d].step = "open" /\ upload'[d].slot = x /\ upload[d].step = "put"
    BY <1>1, <2>2 DEF AtRest
  <2>5. BlobsTypeOK'  BY <1>3, <2>1, <2>3 DEF BlobsTypeOK
  <2>6. Rows' = Rows /\ Stored' = Stored  BY <2>1 DEF Rows, Stored
  <2>7. BlobInv'  BY <2>1, <2>4, <2>6 DEF BlobInv, PointersResolve
  <2> QED  BY <2>5, <2>7
<1>5. CASE InsertSlot(d)
  <2> DEFINE y == Len(slots) + 1
  <2>1. /\ slots' = Append(slots, "kept") /\ file' = Append(file, NoFile)
        /\ recent' = recent \cup {y} /\ upload' = [upload EXCEPT ![d] = [step |-> "put", slot |-> y]]
        /\ UNCHANGED <<late, doomed, pointers, leaked>>
    BY <1>5 DEF InsertSlot
  <2>a. slots' \in Seq({"kept", "gone"}) /\ file' \in Seq({NoFile, 0, Whole})
    BY <1>1, <2>1
  <2>b. Len(file) = Len(slots)  BY DEF BlobsTypeOK
  <2>2. /\ Len(slots') = y /\ Len(file') = y /\ y \in Nat /\ y \notin DOMAIN slots
        /\ DOMAIN slots' = DOMAIN slots \cup {y} /\ DOMAIN file' = DOMAIN slots'
        /\ slots'[y] = "kept"
        /\ \A z \in DOMAIN slots : slots'[z] = slots[z] /\ file'[z] = file[z]
    BY <1>1, <2>1, <2>b
  <2>3. /\ upload' \in [Uploaders -> Uploads] /\ upload'[d] = [step |-> "put", slot |-> y]
        /\ \A e \in Uploaders \ {d} : upload'[e] = upload[e]
    BY <1>1, <2>1, <2>2
  <2> HIDE DEF y
  <2>4. BlobsTypeOK'  BY <1>3, <2>1, <2>a, <2>2, <2>3 DEF BlobsTypeOK
  <2>5. \A z \in DOMAIN slots : (z \in Rows' <=> z \in Rows) /\ (z \in Stored' <=> z \in Stored)
    BY <1>1, <2>2 DEF Rows, Stored
  <2>6. \A e \in Uploaders : upload[e].slot = 0 \/ upload[e].slot \in DOMAIN slots
    BY <1>1 DEF BlobInv
  <2>7. doomed \subseteq DOMAIN slots /\ pointers \subseteq DOMAIN slots  BY DEF BlobsTypeOK
  <2>8. BlobInv'
    <3>1. \A e \in Uploaders :
            /\ upload'[e].step \in {"idle", "insert"} => upload'[e].slot = 0
            /\ upload'[e].step \in {"put", "open", "write"} => upload'[e].slot \in DOMAIN slots' \ pointers'
      BY <2>1, <2>2, <2>3, <2>7 DEF BlobInv
    <3>2. ASSUME NEW e \in Uploaders, upload'[e].step = "write", upload'[e].slot \in Rows'
          PROVE  upload'[e].slot \in Stored'
      <4>1. e # d /\ upload'[e] = upload[e]  BY <2>3, <3>2
      <4>2. upload[e].slot \in DOMAIN slots  BY <3>2, <4>1 DEF BlobInv
      <4>3. upload[e].slot \in Stored  BY <2>5, <3>2, <4>1, <4>2 DEF BlobInv
      <4> QED  BY <2>5, <4>1, <4>2, <4>3
    <3>3. \A e, f \in Uploaders : (upload'[e].slot = upload'[f].slot /\ upload'[e].slot # 0) => e = f
      BY <2>2, <2>3, <2>6 DEF BlobInv
    <3>4. doomed' \cap Rows' = {}  BY <2>1, <2>5, <2>7 DEF BlobInv
    <3>5. PointersResolve'  BY <2>1, <2>2, <2>5, <2>7 DEF BlobInv, PointersResolve
    <3> QED  BY <3>1, <3>2, <3>3, <3>4, <3>5 DEF BlobInv
  <2> QED  BY <2>4, <2>8
<1>6. CASE OpenFile(d) \/ FillFile(d)
  <2>1. /\ upload[d].step \in {"open", "write"} /\ UNCHANGED <<slots, recent, late, doomed>>
        /\ file' = file \/ file' = [file EXCEPT ![x] = 0] \/ file' = [file EXCEPT ![x] = Whole]
    BY <1>6 DEF OpenFile, FillFile, At
  <2>2. x \in DOMAIN slots /\ x \notin pointers  BY <2>1 DEF BlobInv
  <2>a. Len(file) = Len(slots)  BY DEF BlobsTypeOK
  <2>b. ASSUME file' = file
        PROVE  file' \in Seq({NoFile, 0, Whole}) /\ Len(file') = Len(file)
               /\ \A z \in DOMAIN slots : z # x => file'[z] = file[z]
    BY <1>1, <2>b
  <2>c. ASSUME NEW v \in {NoFile, 0, Whole}, file' = [file EXCEPT ![x] = v]
        PROVE  file' \in Seq({NoFile, 0, Whole}) /\ Len(file') = Len(file)
               /\ \A z \in DOMAIN slots : z # x => file'[z] = file[z]
    BY <1>1, <2>2, <2>c
  <2>3. /\ file' \in Seq({NoFile, 0, Whole}) /\ Len(file') = Len(slots') /\ DOMAIN file' = DOMAIN slots
        /\ \A z \in DOMAIN slots : z # x => file'[z] = file[z]
    <3>1. /\ file' \in Seq({NoFile, 0, Whole}) /\ Len(file') = Len(file)
          /\ \A z \in DOMAIN slots : z # x => file'[z] = file[z]
      BY <2>1, <2>b, <2>c
    <3> QED  BY <1>1, <2>1, <2>a, <3>1
  <2>4. pointers' \subseteq DOMAIN slots /\ leaked' \subseteq DOMAIN slots
    BY <1>6, <2>2 DEF OpenFile, FillFile, BlobsTypeOK
  <2>5. \/ /\ OpenFile(d) /\ upload' = [upload EXCEPT ![d].step = "write"]
           /\ file' = [file EXCEPT ![x] = 0] /\ pointers' = pointers
        \/ /\ FillFile(d) /\ upload' = [upload EXCEPT ![d] = AtRest]
           /\ pointers' = pointers \cup {x} /\ upload[d].step = "write"
           /\ file' = IF OnDisk(x) THEN [file EXCEPT ![x] = Whole] ELSE file
    BY <1>6 DEF OpenFile, FillFile, To, Rests, At
  <2>6. upload' \in [Uploaders -> Uploads] /\ \A e \in Uploaders \ {d} : upload'[e] = upload[e]
    <3>1. [upload[d] EXCEPT !.step = "write"] \in Uploads  BY <1>1
    <3>2. \/ upload' = [upload EXCEPT ![d] = AtRest]
          \/ upload' = [upload EXCEPT ![d] = [upload[d] EXCEPT !.step = "write"]]
      BY <1>1, <2>5
    <3> HIDE DEF Uploads
    <3> QED  BY <1>1, <1>2, <3>1, <3>2
  <2>7. BlobsTypeOK'  BY <1>3, <2>1, <2>3, <2>4, <2>6 DEF BlobsTypeOK
  <2>8. Rows' = Rows  BY <2>1 DEF Rows
  <2>9. \A e \in Uploaders \ {d} : upload[e].slot # x  BY <1>1, <2>2 DEF BlobInv
  <2>10. \A z \in DOMAIN slots : z # x => (z \in Stored' <=> z \in Stored)  BY <1>1, <2>3 DEF Stored
  <2>11. ASSUME NEW e \in Uploaders, e # d
         PROVE  /\ upload'[e].step \in {"idle", "insert"} => upload'[e].slot = 0
                /\ upload'[e].step \in {"put", "open", "write"} =>
                      upload'[e].slot \in DOMAIN slots' \ pointers'
                /\ (upload'[e].step = "write" /\ upload'[e].slot \in Rows') => upload'[e].slot \in Stored'
    <3>1. upload'[e] = upload[e] /\ upload[e].slot # x  BY <2>6, <2>9, <2>11
    <3>2. upload[e].step = "write" => upload[e].slot \in DOMAIN slots  BY DEF BlobInv
    <3>4. (upload[e].step = "write" /\ upload[e].slot \in Rows) => upload[e].slot \in Stored'
      BY <2>10, <3>1, <3>2 DEF BlobInv
    <3>5. pointers' \subseteq pointers \cup {x}  BY <2>5
    <3> QED  BY <2>1, <2>8, <3>1, <3>4, <3>5 DEF BlobInv
  <2>12. doomed' \cap Rows' = {}  BY <2>1, <2>8 DEF BlobInv
  <2>13. CASE OpenFile(d)
    <3>1. /\ upload'[d].step = "write" /\ upload'[d].slot = x /\ file'[x] = 0 /\ pointers' = pointers
      BY <1>1, <2>2, <2>5, <2>13 DEF OpenFile, FillFile, At
    <3>2. x \in Stored'  BY <2>2, <2>3, <3>1 DEF Stored, NoFile
    <3>3. PointersResolve'  BY <2>2, <2>3, <2>8, <3>1 DEF BlobInv, PointersResolve, BlobsTypeOK
    <3>4. upload'[d].slot \in Stored'  BY <3>1, <3>2
    <3>5. \A e, f \in Uploaders : (upload'[e].slot = upload'[f].slot /\ upload'[e].slot # 0) => e = f
      BY <2>6, <3>1 DEF BlobInv
    <3> QED  BY <2>1, <2>2, <2>7, <2>11, <2>12, <3>1, <3>3, <3>4, <3>5 DEF BlobInv
  <2>14. CASE FillFile(d)
    <3>1. /\ upload[d].step = "write" /\ upload'[d] = AtRest
          /\ pointers' = pointers \cup {x}
          /\ file' = IF OnDisk(x) THEN [file EXCEPT ![x] = Whole] ELSE file
      BY <1>1, <2>5, <2>14 DEF OpenFile, FillFile, At
    <3>2. x \in Rows => file'[x] = Whole  BY <1>1, <2>2, <3>1 DEF BlobInv, Stored, OnDisk
    <3>3. PointersResolve'
      BY <2>2, <2>3, <2>8, <3>1, <3>2 DEF BlobInv, PointersResolve, BlobsTypeOK
    <3>4. \A e, f \in Uploaders : (upload'[e].slot = upload'[f].slot /\ upload'[e].slot # 0) => e = f
      BY <2>6, <3>1 DEF BlobInv, AtRest
    <3> QED  BY <2>7, <2>11, <2>12, <3>1, <3>3, <3>4 DEF BlobInv, AtRest
  <2> QED  BY <1>6, <2>13, <2>14
<1> QED  BY <1>4, <1>5, <1>6 DEF UploadSteps

\* Removal, time and the recipient's rows: no upload goes on.
LEMMA BlobsRemoved ==
  ASSUME BlobsTypeOK, BlobInv,
         \/ \E x \in DOMAIN slots : DeleteAttachment(x) \/ DropBlob(x) \/ DropFails(x) \/ TtlPasses(x)
         \/ SweepExpired \/ ServerStops \/ HourPasses
         \/ SaveAttachments \/ LoadAttachments \/ Downloaded
  PROVE  BlobsTypeOK' /\ BlobInv'
<1> DEFINE Uploads == [step : {"idle", "insert", "put", "open", "write"}, slot : Nat]
<1>1. /\ slots \in Seq({"kept", "gone"}) /\ DOMAIN slots = 1..Len(slots) /\ Len(slots) \in Nat
      /\ file \in Seq({NoFile, 0, Whole}) /\ DOMAIN file = DOMAIN slots
      /\ upload \in [Uploaders -> Uploads]
      /\ recent \cup late \cup doomed \cup pointers \cup leaked \subseteq DOMAIN slots
  BY DEF BlobsTypeOK
<1>2. mine' \in [id : Nat, shown : Nat, path : BOOLEAN, saves : Nat]
  <2>0. mine \in [id : Nat, shown : Nat, path : BOOLEAN, saves : Nat]  BY DEF BlobsTypeOK
  <2>1. CASE UNCHANGED mine  BY <2>0, <2>1
  <2>2. CASE SaveAttachments \/ LoadAttachments
    <3>1. CASE LoadAttachments  BY <2>0, <3>1 DEF LoadAttachments
    <3>2. CASE SaveAttachments
      <4>1. PICK id \in {mine.saves + 1} \cup ({mine.shown} \ {0}) :
              mine' = [mine EXCEPT !.id = id, !.path = mine.path, !.saves = @ + 1]
        BY <3>2 DEF SaveAttachments, Inherited
      <4> DEFINE path == mine.path
                 more == mine.saves + 1
      <4>2. id \in Nat /\ path \in BOOLEAN /\ more \in Nat  BY <2>0
      <4>3. mine' = [mine EXCEPT !.id = id, !.path = path, !.saves = more]  BY <4>1
      <4> HIDE DEF path, more
      <4> QED  BY <2>0, <4>2, <4>3
    <3> QED  BY <2>2, <3>1, <3>2
  <2>3. CASE Downloaded
    <3> DEFINE same == mine.id = mine.shown
    <3>1. mine' = [mine EXCEPT !.path = same] /\ same \in BOOLEAN  BY <2>3 DEF Downloaded
    <3> HIDE DEF same
    <3> QED  BY <2>0, <3>1
  <2> QED
    BY <2>1, <2>2, <2>3 DEF DeleteAttachment, DropBlob, DropFails, TtlPasses, SweepExpired,
                            ServerStops, HourPasses
<1>3. UNCHANGED pointers /\ mishaps' \in Nat
  <2>1. mishaps \in Nat  BY DEF BlobsTypeOK
  <2>2. UNCHANGED pointers /\ mishaps' \in {mishaps, mishaps + 1}
    BY DEF DeleteAttachment, DropBlob, DropFails, TtlPasses, SweepExpired, ServerStops, HourPasses,
           SaveAttachments, LoadAttachments, Downloaded
  <2> QED  BY <2>1, <2>2
<1>4. recent' \cup late' \cup leaked' \subseteq DOMAIN slots
  BY <1>1 DEF DeleteAttachment, DropBlob, DropFails, TtlPasses, SweepExpired, ServerStops, HourPasses,
         SaveAttachments, LoadAttachments, Downloaded, Rows
<1>5. upload' = upload \/ upload' = [d \in Uploaders |-> AtRest]
  BY DEF DeleteAttachment, DropBlob, DropFails, TtlPasses, SweepExpired, ServerStops, HourPasses,
         SaveAttachments, LoadAttachments, Downloaded
<1>6. /\ slots' \in Seq({"kept", "gone"}) /\ Len(slots') = Len(slots) /\ DOMAIN slots' = DOMAIN slots
      /\ Rows' \subseteq Rows /\ doomed' \subseteq DOMAIN slots /\ doomed' \cap Rows' = {}
  <2>1. CASE UNCHANGED slots
    <3>1. doomed' \subseteq doomed
      BY <2>1 DEF DeleteAttachment, DropBlob, DropFails, TtlPasses, SweepExpired, ServerStops,
                  HourPasses, SaveAttachments, LoadAttachments, Downloaded, Expired, Rows
    <3> QED  BY <1>1, <2>1, <3>1 DEF Rows, BlobInv
  <2>2. ASSUME NEW x \in DOMAIN slots, DeleteAttachment(x)
        PROVE  /\ slots' \in Seq({"kept", "gone"}) /\ Len(slots') = Len(slots) /\ DOMAIN slots' = DOMAIN slots
               /\ Rows' \subseteq Rows /\ doomed' \subseteq DOMAIN slots /\ doomed' \cap Rows' = {}
    <3>1. slots' = [slots EXCEPT ![x] = "gone"] /\ doomed' = doomed \cup {x}
      BY <2>2 DEF DeleteAttachment
    <3>2. /\ slots' \in Seq({"kept", "gone"}) /\ Len(slots') = Len(slots) /\ DOMAIN slots' = DOMAIN slots
          /\ \A z \in DOMAIN slots : slots'[z] = IF z = x THEN "gone" ELSE slots[z]
      BY <1>1, <3>1
    <3>3. Rows' = Rows \ {x}  BY <3>2 DEF Rows
    <3> QED  BY <1>1, <3>1, <3>2, <3>3 DEF BlobInv
  <2>3. CASE SweepExpired
    <3>1. slots' = [z \in DOMAIN slots |-> IF z \in Expired THEN "gone" ELSE slots[z]]
          /\ doomed' = doomed \cup Expired
      BY <2>3 DEF SweepExpired, Returned
    <3>2. \A z \in DOMAIN slots : slots'[z] \in {"kept", "gone"}  BY <1>1, <3>1
    <3>3. slots' \in Seq({"kept", "gone"}) /\ DOMAIN slots' = 1..Len(slots)
      BY <1>1, <3>1, <3>2
    <3>4. Len(slots') = Len(slots)  BY <1>1, <3>3
    <3>5. Rows' = Rows \ Expired  BY <3>1, <3>3, <1>1 DEF Rows
    <3> QED  BY <1>1, <3>1, <3>3, <3>4, <3>5 DEF BlobInv, Expired, Rows
  <2> QED
    BY <2>1, <2>2, <2>3 DEF DropBlob, DropFails, TtlPasses, ServerStops, HourPasses,
                            SaveAttachments, LoadAttachments, Downloaded
<1>7. /\ file' \in Seq({NoFile, 0, Whole}) /\ Len(file') = Len(slots) /\ DOMAIN file' = DOMAIN slots
      /\ \A z \in Rows' : file'[z] = file[z]
  <2>1. CASE UNCHANGED file  BY <1>1, <2>1 DEF BlobsTypeOK
  <2>2. ASSUME NEW x \in DOMAIN slots, DropBlob(x)
        PROVE  /\ file' \in Seq({NoFile, 0, Whole}) /\ Len(file') = Len(slots)
               /\ DOMAIN file' = DOMAIN slots /\ \A z \in Rows' : file'[z] = file[z]
    <3>1. file' = [file EXCEPT ![x] = NoFile] /\ x \in doomed  BY <2>2 DEF DropBlob, Removed
    <3>2. /\ file' \in Seq({NoFile, 0, Whole}) /\ Len(file') = Len(slots)
          /\ DOMAIN file' = DOMAIN slots /\ \A z \in DOMAIN slots : z # x => file'[z] = file[z]
      BY <1>1, <3>1 DEF BlobsTypeOK
    <3>3. x \notin Rows' /\ Rows' \subseteq DOMAIN slots  BY <1>6, <3>1 DEF BlobInv, Rows
    <3> QED  BY <3>2, <3>3
  <2> QED
    BY <2>1, <2>2 DEF DeleteAttachment, DropFails, TtlPasses, SweepExpired, ServerStops, HourPasses,
         SaveAttachments, LoadAttachments, Downloaded
<1>8. BlobsTypeOK'
  <2>1. upload' \in [Uploaders -> Uploads]  BY <1>1, <1>5 DEF AtRest
  <2> QED  BY <1>1, <1>2, <1>3, <1>4, <1>6, <1>7, <2>1 DEF BlobsTypeOK
<1>9. PointersResolve'  BY <1>3, <1>6, <1>7 DEF BlobInv, PointersResolve
<1>10. \A z \in Rows' : z \in Stored => z \in Stored'  BY <1>1, <1>7, <1>6 DEF Stored, Rows
<1>11. CASE upload' = upload
  <2>1. ASSUME NEW d \in Uploaders, upload[d].step = "write", upload[d].slot \in Rows'
        PROVE  upload[d].slot \in Stored'
    <3>1. upload[d].slot \in Stored  BY <1>6, <2>1 DEF BlobInv
    <3> QED  BY <1>10, <2>1, <3>1
  <2>2. \A d \in Uploaders :
           (upload'[d].step = "write" /\ upload'[d].slot \in Rows') => upload'[d].slot \in Stored'
    BY <1>11, <2>1
  <2> QED  BY <1>3, <1>6, <1>8, <1>9, <1>11, <2>2 DEF BlobInv
<1>12. CASE upload' = [d \in Uploaders |-> AtRest]
  <2>1. \A d \in Uploaders : upload'[d].step = "idle" /\ upload'[d].slot = 0  BY <1>12 DEF AtRest
  <2> QED  BY <1>6, <1>8, <1>9, <2>1 DEF BlobInv
<1> QED  BY <1>5, <1>11, <1>12

\* A pointer opens the whole blob while its row is there, and a range request
\* is answered with the bytes it names (upload, delete_expired, parse_range).
THEOREM BlobsAreServed == BlobsSpec => [](BlobsTypeOK /\ AttachmentsHold)
<1>1. BlobsTypeOK /\ BlobInv /\ [BlobsNext]_blobVars => BlobsTypeOK' /\ BlobInv'
  <2> SUFFICES ASSUME BlobsTypeOK, BlobInv, [BlobsNext]_blobVars  PROVE BlobsTypeOK' /\ BlobInv'
    OBVIOUS
  <2>1. CASE BlobsNext  BY <2>1, BlobsUploaded, BlobsRemoved DEF BlobsNext
  <2>2. CASE UNCHANGED blobVars
    BY <2>2 DEF blobVars, BlobsTypeOK, BlobInv, PointersResolve, Rows, Stored
  <2> QED  BY <2>1, <2>2
<1>2. BlobsTypeOK /\ BlobInv => AttachmentsHold
  BY RangesAreServed DEF BlobInv, AttachmentsHold
<1> QED  BY <1>1, <1>2, BlobsBegin, PTL DEF BlobsSpec

----------------------------------------------------------------------------
(* Push registrations: proof *)

\* The parts of the state, told apart once.
LEMMA PushNames ==
  ASSUME PushTypeOK
  PROVE  /\ MaxCalls \in Nat /\ Drawable \cap PushGroups = {} /\ 0 \notin Drawable
         /\ "device" \notin PushGroups /\ DOMAIN relay = Drawable \cup PushGroups
         /\ DOMAIN known = Drawable /\ \A n \in Drawable : known[n] \in Nat
         /\ pushState.name \in {0} \cup Drawable /\ pushState.token \in Nat
         /\ pushCall.name \in {0} \cup Drawable /\ pushCall.old \in {0} \cup Drawable
         /\ pushCall.token \in Nat /\ pushCall.step \in CallSteps
         /\ drawn \in Nat /\ calls \in Nat /\ calls <= MaxCalls /\ failures \in Nat
  BY PushAssumption DEF PushTypeOK, Drawable

\* A step of a call moves it on, and leaves what it carries.
LEMMA CallProceeds ==
  ASSUME PushTypeOK, NEW s \in CallSteps, Proceed(s)
  PROVE  /\ pushCall'.step = s /\ pushCall'.name = pushCall.name
         /\ pushCall'.token = pushCall.token /\ pushCall'.old = pushCall.old
         /\ pushCall'.spoilt = pushCall.spoilt
         /\ pushCall' \in [step : CallSteps, name : {0} \cup Drawable, token : Nat,
                            old : {0} \cup Drawable, spoilt : BOOLEAN]
<1> DEFINE spoilt == pushCall.spoilt
<1>1. spoilt \in BOOLEAN  BY DEF PushTypeOK
<1>2. pushCall' = [step |-> s, name |-> pushCall.name, token |-> pushCall.token,
                   old |-> pushCall.old, spoilt |-> spoilt]
  BY DEF PushTypeOK, Proceed
<1>3. pushCall'.spoilt = spoilt  BY <1>2
<1>4. /\ pushCall'.step = s /\ pushCall'.name = pushCall.name
      /\ pushCall'.token = pushCall.token /\ pushCall'.old = pushCall.old
  BY <1>2
<1>5. /\ pushCall.name \in {0} \cup Drawable /\ pushCall.token \in Nat
      /\ pushCall.old \in {0} \cup Drawable
  BY DEF PushTypeOK
<1>6. pushCall' \in [step : CallSteps, name : {0} \cup Drawable, token : Nat,
                      old : {0} \cup Drawable, spoilt : BOOLEAN]
  <2> HIDE DEF spoilt
  <2> QED  BY <1>1, <1>2, <1>5
<1> QED  BY <1>3, <1>4, <1>6

\* Retirement of a pseudonym n changes n alone.
LEMMA RetiredIsOne ==
  ASSUME PushTypeOK, NEW n \in Drawable
  PROVE  /\ Retired(n) \in [Drawable \cup PushGroups ->
                              [token : Nat, age : {"none", "live", "grace", "over"}]]
         /\ \A m \in (Drawable \cup PushGroups) \ {n} : Retired(n)[m] = relay[m]
<1> DEFINE r == [relay[n] EXCEPT !.age = "grace"]
<1>1. r \in [token : Nat, age : {"none", "live", "grace", "over"}]  BY DEF PushTypeOK
<1>2. Retired(n) = relay \/ Retired(n) = [relay EXCEPT ![n] = r]  BY DEF Retired
<1> HIDE DEF r
<1> QED  BY <1>1, <1>2 DEF PushTypeOK

LEMMA RegisteredAll ==
  ASSUME PushTypeOK, NEW ns \in SUBSET (Drawable \cup PushGroups)
  PROVE  /\ Registered(ns) \in [Drawable \cup PushGroups ->
                                  [token : Nat, age : {"none", "live", "grace", "over"}]]
         /\ \A n \in ns : Registered(ns)[n] = [token |-> pushCall.token, age |-> "live"]
         /\ \A n \in (Drawable \cup PushGroups) \ ns : Registered(ns)[n] = relay[n]
<1>1. DOMAIN relay = Drawable \cup PushGroups /\ pushCall.token \in Nat  BY DEF PushTypeOK
<1>2. [token |-> pushCall.token, age |-> "live"] \in [token : Nat, age : {"none", "live", "grace", "over"}]
  BY <1>1
<1> QED  BY <1>1, <1>2 DEF Registered, PushTypeOK

LEMMA PushBegins == PushInit => PushTypeOK /\ PushInv
<1> SUFFICES ASSUME PushInit  PROVE PushTypeOK /\ PushInv
  OBVIOUS
<1>1. NoCall \in [step : CallSteps, name : {0} \cup Drawable, token : Nat,
                  old : {0} \cup Drawable, spoilt : BOOLEAN]
  BY DEF NoCall, CallSteps
<1>2. NoState \in [name : {0} \cup Drawable, token : Nat, due : BOOLEAN]  BY DEF NoState
<1>3. PushTypeOK  BY <1>1, <1>2, PushAssumption DEF PushInit, PushTypeOK, Unknown
<1>4. PushInv  BY PushAssumption DEF PushInit, PushInv, NoCall, NoState, Registering, Drawable
<1> QED  BY <1>3, <1>4

\* A call begins: its pseudonym is the last that was drawn, or a new one.
LEMMA CallsBegin ==
  ASSUME PushTypeOK, PushInv, RegisterPushToken \/ UnregisterPushToken
  PROVE  PushTypeOK' /\ PushInv'
<1>n. calls + 1 \in 0..MaxCalls /\ drawn + 1 \in Drawable /\ drawn + 1 \in 0..MaxCalls
      /\ pushState.name # drawn + 1
  BY PushNames DEF PushInv, RegisterPushToken, UnregisterPushToken, Drawable
<1>1. CASE RegisterPushToken
  <2>1. /\ calls' = calls + 1
        /\ UNCHANGED <<token, joined, relay, known, settled, cut, failures>>
    BY <1>1 DEF RegisterPushToken
  <2>2. PICK n \in Drawable, o \in {0} \cup Drawable :
          /\ o # n
          /\ pushCall' = [step |-> "relay", name |-> n, token |-> token, old |-> o, spoilt |-> FALSE]
          /\ n <= drawn' /\ drawn' <= calls' /\ drawn' \in 0..MaxCalls
          /\ pushState' \in [name : {0} \cup Drawable, token : Nat, due : BOOLEAN]
          /\ pushState'.name = n
    <3>1. CASE Rotates
      <4>1. /\ drawn' = drawn + 1
            /\ pushState' = [name |-> drawn + 1, token |-> token, due |-> FALSE]
            /\ pushCall' = [step |-> "relay", name |-> drawn + 1, token |-> token,
                            old |-> pushState.name, spoilt |-> FALSE]
        BY <1>1, <3>1 DEF RegisterPushToken, NoCall
      <4>2. token \in Nat /\ drawn + 1 <= calls + 1  BY PushNames DEF PushTypeOK, PushInv
      <4>3. pushState' \in [name : {0} \cup Drawable, token : Nat, due : BOOLEAN]
            /\ pushState'.name = drawn + 1
        BY <1>n, <4>1, <4>2
      <4>4. drawn + 1 <= drawn' /\ drawn' <= calls' /\ drawn' \in 0..MaxCalls
        BY <1>n, <2>1, <4>1, <4>2, PushNames
      <4>5. drawn + 1 \in Drawable /\ pushState.name \in {0} \cup Drawable /\ pushState.name # drawn + 1
        BY <1>n, PushNames
      <4> DEFINE n == drawn + 1
      <4> HIDE DEF n
      <4> QED  BY <4>1, <4>3, <4>4, <4>5 DEF n
    <3>2. CASE ~Rotates
      <4>1. /\ drawn' = drawn /\ pushState' = pushState /\ pushState.name # 0
            /\ pushCall' = [step |-> "relay", name |-> pushState.name, token |-> token,
                            old |-> 0, spoilt |-> FALSE]
        BY <1>1, <3>2 DEF RegisterPushToken, NoCall, Rotates
      <4>2. drawn <= calls + 1 /\ pushState.name <= drawn  BY PushNames DEF PushInv
      <4> QED  BY <2>1, <4>1, <4>2, PushNames DEF PushTypeOK
    <3> QED  BY <3>1, <3>2
  <2>3. /\ pushCall' \in [step : CallSteps, name : {0} \cup Drawable, token : Nat,
                           old : {0} \cup Drawable, spoilt : BOOLEAN]
        /\ pushCall'.step = "relay" /\ pushCall'.name = n /\ pushCall'.old = o
        /\ pushCall'.token = token' /\ ~pushCall'.spoilt
    BY <2>1, <2>2 DEF PushTypeOK, CallSteps
  <2>4. PushTypeOK'  BY <1>n, <2>1, <2>2, <2>3 DEF PushTypeOK
  <2>5. \A m \in Drawable : known'[m] <= calls' /\ known'[m] < calls'
    BY <2>1, PushNames DEF PushInv
  <2>6. "device" \in settled' => \E m \in Drawable : Newest(m)' /\ relay'[m] = Fresh'
    BY <2>1 DEF PushInv, Newest, Fresh
  <2>7. \A g \in settled' \cap PushGroups : relay'[g] = Fresh'
    BY <2>1 DEF PushInv, Fresh
  <2>8. PushInv'  BY <2>2, <2>3, <2>5, <2>6, <2>7 DEF PushInv, Registering
  <2> QED  BY <2>4, <2>8
<1>2. CASE UnregisterPushToken
  <2>1. /\ calls' = calls + 1 /\ settled' = {} /\ pushState.name # 0
        /\ UNCHANGED <<token, pushState, joined, relay, known, drawn, cut, failures>>
        /\ pushCall' = [step |-> "leave", name |-> 0, token |-> 0,
                        old |-> pushState.name, spoilt |-> FALSE]
    BY <1>2 DEF UnregisterPushToken, NoCall
  <2>2. /\ pushCall' \in [step : CallSteps, name : {0} \cup Drawable, token : Nat,
                           old : {0} \cup Drawable, spoilt : BOOLEAN]
        /\ pushCall'.step = "leave" /\ pushCall'.old \in Drawable
    BY <2>1, PushNames DEF CallSteps
  <2>3. PushTypeOK'  BY <1>n, <2>1, <2>2 DEF PushTypeOK
  <2>4. \A m \in Drawable : known'[m] <= calls'  BY <2>1, PushNames DEF PushInv
  <2>5. drawn' <= calls' /\ pushState'.name <= drawn'  BY <2>1, PushNames DEF PushInv
  <2>6. PushInv'  BY <2>1, <2>2, <2>4, <2>5 DEF PushInv, Registering
  <2> QED  BY <2>3, <2>6
<1> QED  BY <1>1, <1>2

\* The three requests of a registration.
LEMMA CallsRegister ==
  ASSUME PushTypeOK, PushInv, RelayRegister \/ RelayRegisterGroups \/ ServerRegister
  PROVE  PushTypeOK' /\ PushInv'
<1>n. /\ pushCall.name \in Drawable /\ joined \subseteq PushGroups
      /\ pushCall.name \in Drawable \cup PushGroups
      /\ settled # {} => pushCall.token = token
      /\ pushCall.name \notin PushGroups /\ pushCall.old # pushCall.name
      /\ \A n \in Drawable : known[n] < calls
      /\ pushCall.step \in {"relay", "groups", "server"}
  BY PushNames DEF PushTypeOK, PushInv, Registering, RelayRegister, RelayRegisterGroups,
                   ServerRegister, Doing
<1>1. CASE RelayRegister
  <2>1. /\ Proceed("groups") /\ relay' = Registered({pushCall.name}) /\ pushCall.step = "relay"
        /\ UNCHANGED <<token, pushState, joined, known, drawn, settled, cut, calls, failures>>
    BY <1>1 DEF RelayRegister, Doing
  <2>2. /\ relay' \in [Drawable \cup PushGroups ->
                        [token : Nat, age : {"none", "live", "grace", "over"}]]
        /\ relay'[pushCall.name] = [token |-> pushCall.token, age |-> "live"]
        /\ \A n \in (Drawable \cup PushGroups) \ {pushCall.name} : relay'[n] = relay[n]
    BY <1>n, <2>1, RegisteredAll
  <2>3. /\ pushCall'.step = "groups" /\ pushCall'.name = pushCall.name
        /\ pushCall'.token = pushCall.token /\ pushCall'.old = pushCall.old
        /\ pushCall'.spoilt = pushCall.spoilt
        /\ pushCall' \in [step : CallSteps, name : {0} \cup Drawable, token : Nat,
                            old : {0} \cup Drawable, spoilt : BOOLEAN]
    BY <2>1, CallProceeds DEF CallSteps
  <2>4. PushTypeOK'  BY <2>1, <2>2, <2>3 DEF PushTypeOK
  <2>5. "device" \in settled => \E m \in Drawable : Newest(m)' /\ relay'[m] = Fresh'
    <3> SUFFICES ASSUME "device" \in settled
                 PROVE  \E m \in Drawable : Newest(m)' /\ relay'[m] = Fresh'
      OBVIOUS
    <3>1. PICK m \in Drawable : Newest(m) /\ relay[m] = Fresh  BY DEF PushInv
    <3>2. Newest(m)'  BY <2>1, <3>1 DEF Newest
    <3>3. relay'[m] = Fresh'  BY <1>n, <2>1, <2>2, <3>1 DEF Fresh
    <3> QED  BY <3>2, <3>3
  <2>6. \A g \in settled \cap PushGroups : relay'[g] = Fresh'
    BY <1>n, <2>1, <2>2, PushNames DEF PushInv, Fresh
  <2>7. PushInv'
    <3>1. pushCall'.spoilt => "device" \notin settled'
      BY <1>n, <2>1, <2>3 DEF PushInv, Registering
    <3> QED  BY <1>n, <2>1, <2>2, <2>3, <2>5, <2>6, <3>1 DEF PushInv, Registering
  <2> QED  BY <2>4, <2>7
<1>2. CASE RelayRegisterGroups
  <2>1. /\ Proceed("server") /\ pushCall.step = "groups"
        /\ UNCHANGED <<token, pushState, joined, known, drawn, cut, calls>>
        /\ \/ relay' = Registered(joined)
              /\ settled' = IF pushCall.token = token THEN settled \cup joined ELSE settled
           \/ relay' = relay /\ settled' = settled
        /\ failures' \in Nat
    <3>1. failures' = failures \/ failures' = failures + 1
      BY <1>2 DEF RelayRegisterGroups, Fails
    <3>2. failures' \in Nat  BY <3>1, PushNames
    <3> QED  BY <1>2, <3>2 DEF RelayRegisterGroups, Doing
  <2>2. /\ relay' \in [Drawable \cup PushGroups ->
                        [token : Nat, age : {"none", "live", "grace", "over"}]]
        /\ \A n \in (Drawable \cup PushGroups) \ joined : relay'[n] = relay[n]
        /\ \A n \in joined : relay'[n] \in {relay[n], [token |-> pushCall.token, age |-> "live"]}
        /\ settled' \subseteq settled \cup joined /\ settled \subseteq settled'
        /\ settled' # settled => pushCall.token = token
                                 /\ \A n \in joined : relay'[n] = [token |-> pushCall.token, age |-> "live"]
    <3>1. joined \in SUBSET (Drawable \cup PushGroups)  BY <1>n
    <3>2. CASE relay' = relay /\ settled' = settled  BY <3>2 DEF PushTypeOK
    <3>3. CASE relay' = Registered(joined)
               /\ settled' = IF pushCall.token = token THEN settled \cup joined ELSE settled
      BY <3>1, <3>3, RegisteredAll
    <3> QED  BY <2>1, <3>2, <3>3
  <2>3. /\ pushCall'.step = "server" /\ pushCall'.name = pushCall.name
        /\ pushCall'.token = pushCall.token /\ pushCall'.old = pushCall.old
        /\ pushCall'.spoilt = pushCall.spoilt
        /\ pushCall' \in [step : CallSteps, name : {0} \cup Drawable, token : Nat,
                            old : {0} \cup Drawable, spoilt : BOOLEAN]
    BY <2>1, CallProceeds DEF CallSteps
  <2>4. PushTypeOK'  BY <1>n, <2>1, <2>2, <2>3 DEF PushTypeOK
  <2>5. "device" \in settled' => "device" \in settled  BY <1>n, <2>2, PushNames
  <2>6. "device" \in settled' => \E m \in Drawable : Newest(m)' /\ relay'[m] = Fresh'
    <3> SUFFICES ASSUME "device" \in settled
                 PROVE  \E m \in Drawable : Newest(m)' /\ relay'[m] = Fresh'
      BY <2>5
    <3>1. PICK m \in Drawable : Newest(m) /\ relay[m] = Fresh  BY DEF PushInv
    <3>2. Newest(m)'  BY <2>1, <3>1 DEF Newest
    <3>3. relay'[m] = Fresh'  BY <1>n, <2>1, <2>2, <3>1, PushNames DEF Fresh
    <3> QED  BY <3>2, <3>3
  <2>7. \A g \in settled' \cap PushGroups : relay'[g] = Fresh'
    <3> SUFFICES ASSUME NEW g \in settled' \cap PushGroups  PROVE relay'[g] = Fresh'
      OBVIOUS
    <3>1. CASE g \in settled
      <4>1. relay[g] = Fresh /\ pushCall.token = token  BY <1>n, <3>1 DEF PushInv
      <4> QED  BY <2>1, <2>2, <4>1 DEF Fresh
    <3>2. CASE g \notin settled  BY <2>1, <2>2, <3>2 DEF Fresh
    <3> QED  BY <3>1, <3>2
  <2>8. relay'[pushCall.name] = relay[pushCall.name]  BY <1>n, <2>2
  <2>9. PushInv'
    <3>1. pushCall'.spoilt => "device" \notin settled'
      BY <2>3, <2>5, <1>n DEF PushInv, Registering
    <3>2. pushCall'.token # token' => settled' = {}  BY <1>n, <2>1, <2>2, <2>3
    <3>3. ~pushCall'.spoilt => relay'[pushCall'.name] = [token |-> pushCall'.token, age |-> "live"]
      BY <2>1, <2>3, <2>8 DEF PushInv
    <3> QED  BY <1>n, <2>1, <2>3, <2>6, <2>7, <3>1, <3>2, <3>3 DEF PushInv, Registering
  <2> QED  BY <2>4, <2>9
<1>3. CASE ServerRegister
  <2>0. PICK n \in Drawable : n = pushCall.name  BY <1>n
  <2>1. /\ known' = [known EXCEPT ![n] = calls] /\ pushCall.step = "server"
        /\ settled' = IF pushCall.token = token /\ ~pushCall.spoilt
                      THEN settled \cup {"device"} ELSE settled
        /\ IF pushCall.old = 0 THEN pushCall' = NoCall ELSE Proceed("retire")
        /\ UNCHANGED <<token, pushState, joined, relay, drawn, cut, calls, failures>>
    BY <1>3, <2>0 DEF ServerRegister, Doing
  <2>2. /\ pushCall' \in [step : CallSteps, name : {0} \cup Drawable, token : Nat,
                            old : {0} \cup Drawable, spoilt : BOOLEAN]
        /\ \/ pushCall'.step = "none"
           \/ /\ pushCall'.step = "retire" /\ pushCall'.name = n
              /\ pushCall'.old = pushCall.old /\ pushCall.old \in Drawable
    <3>1. CASE pushCall.old = 0
      <4>1. NoCall \in [step : CallSteps, name : {0} \cup Drawable, token : Nat,
                        old : {0} \cup Drawable, spoilt : BOOLEAN]
        BY DEF NoCall, CallSteps
      <4>2. pushCall' = NoCall /\ NoCall.step = "none"  BY <2>1, <3>1 DEF NoCall
      <4> QED  BY <4>1, <4>2
    <3>2. CASE pushCall.old # 0  BY <2>0, <2>1, <3>2, CallProceeds, PushNames DEF CallSteps
    <3> QED  BY <3>1, <3>2
  <2>3. /\ \A m \in Drawable : known'[m] <= calls
        /\ known'[n] = calls /\ calls # 0
        /\ \A m \in Drawable \ {n} : known'[m] < calls
    BY <1>n, <2>1, PushNames
  <2>4. Newest(n)'  BY <2>3, <2>1 DEF Newest
  <2>5. PushTypeOK'
    <3>1. known' \in [Drawable -> Nat]  BY <2>1, PushNames DEF PushTypeOK
    <3> QED  BY <2>1, <2>2, <3>1 DEF PushTypeOK
  <2>6. "device" \in settled' => relay'[n] = Fresh'
    <3> SUFFICES ASSUME "device" \in settled'  PROVE relay'[n] = Fresh'
      OBVIOUS
    <3>1. ~pushCall.spoilt  BY <1>n, <2>1 DEF PushInv, Registering
    <3>2. pushCall.token = token  BY <1>n, <2>1
    <3>3. relay[pushCall.name] = [token |-> pushCall.token, age |-> "live"]
      BY <2>1, <3>1 DEF PushInv
    <3> QED  BY <2>0, <2>1, <3>2, <3>3 DEF Fresh
  <2>7. \A g \in settled' \cap PushGroups : relay'[g] = Fresh'
    BY <2>1, PushNames DEF PushInv, Fresh
  <2>8. pushCall'.step \in {"retire", "forget"} =>
          /\ pushCall'.name \in Drawable /\ Newest(pushCall.name)'
          /\ pushCall'.old \in Drawable /\ pushCall'.old # pushCall'.name
    BY <1>n, <2>0, <2>2, <2>4 DEF Newest
  <2>9. "device" \in settled' => \E m \in Drawable : Newest(m)' /\ relay'[m] = Fresh'
    BY <2>4, <2>6
  <2>10. PushInv'  BY <2>1, <2>2, <2>3, <2>7, <2>8, <2>9 DEF PushInv, Registering
  <2> QED  BY <2>5, <2>10
<1> QED  BY <1>1, <1>2, <1>3

\* The two requests that retire the old pseudonym.
LEMMA CallsRetire ==
  ASSUME PushTypeOK, PushInv, RetireAtRelay \/ RetireAtServer
  PROVE  PushTypeOK' /\ PushInv'
<1>n. /\ pushCall.name \in Drawable /\ pushCall.old \in Drawable /\ pushCall.old # pushCall.name
      /\ Newest(pushCall.name) /\ failures + 1 \in Nat /\ failures \in Nat
  BY PushNames DEF PushInv, RetireAtRelay, RetireAtServer, Doing
<1>0. PICK n \in Drawable, o \in Drawable : n = pushCall.name /\ o = pushCall.old /\ o # n /\ Newest(n)
  BY <1>n
<1>m. \A m \in Drawable : Newest(m) => m = n  BY <1>0, PushNames DEF Newest
<1>1. CASE RetireAtRelay
  <2>1. /\ Proceed("forget")
        /\ relay' = relay \/ relay' = Retired(o)
        /\ cut' \subseteq cut \cup {o} /\ failures' \in Nat
        /\ UNCHANGED <<token, pushState, joined, known, drawn, settled, calls>>
    BY <1>1, <1>n, <1>0 DEF RetireAtRelay, Fails
  <2>2. /\ relay' \in [Drawable \cup PushGroups ->
                        [token : Nat, age : {"none", "live", "grace", "over"}]]
        /\ \A m \in (Drawable \cup PushGroups) \ {o} : relay'[m] = relay[m]
    BY <2>1, RetiredIsOne DEF PushTypeOK
  <2>3. /\ pushCall'.step = "forget" /\ pushCall'.name = n /\ pushCall'.old = o
        /\ pushCall' \in [step : CallSteps, name : {0} \cup Drawable, token : Nat,
                            old : {0} \cup Drawable, spoilt : BOOLEAN]
    BY <1>0, <2>1, CallProceeds DEF CallSteps
  <2>4. PushTypeOK'  BY <2>1, <2>2, <2>3 DEF PushTypeOK
  <2>5. Newest(n)'  BY <1>0, <2>1 DEF Newest
  <2>6. "device" \in settled' => \E m \in Drawable : Newest(m)' /\ relay'[m] = Fresh'
    BY <1>0, <1>m, <2>1, <2>2, <2>5 DEF PushInv, Fresh
  <2>7. \A g \in settled' \cap PushGroups : relay'[g] = Fresh'
    BY <2>1, <2>2, PushNames DEF PushInv, Fresh
  <2>8. Newest(pushCall.name)'  BY <2>3, <2>5 DEF Newest
  <2>9. PushInv'  BY <1>0, <2>1, <2>3, <2>6, <2>7, <2>8 DEF PushInv, Registering
  <2> QED  BY <2>4, <2>9
<1>2. CASE RetireAtServer
  <2>1. /\ pushCall' = NoCall
        /\ known' = known \/ known' = [known EXCEPT ![o] = 0]
        /\ failures' \in Nat
        /\ UNCHANGED <<token, pushState, joined, relay, drawn, settled, cut, calls>>
    BY <1>2, <1>n, <1>0 DEF RetireAtServer, Fails
  <2>2. NoCall \in [step : CallSteps, name : {0} \cup Drawable, token : Nat,
                    old : {0} \cup Drawable, spoilt : BOOLEAN] /\ NoCall.step = "none"
    BY DEF NoCall, CallSteps
  <2>3. /\ known' \in [Drawable -> Nat] /\ known'[n] = known[n]
        /\ \A m \in Drawable : known'[m] <= known[m]
    BY <1>0, <2>1, PushNames DEF PushTypeOK
  <2>4. PushTypeOK'  BY <2>1, <2>2, <2>3 DEF PushTypeOK
  <2>5. Newest(n)'  BY <1>0, <2>3, PushNames DEF Newest, PushTypeOK
  <2>6. "device" \in settled' => \E m \in Drawable : Newest(m)' /\ relay'[m] = Fresh'
    BY <1>m, <2>1, <2>5 DEF PushInv, Fresh
  <2>7. \A g \in settled' \cap PushGroups : relay'[g] = Fresh'  BY <2>1 DEF PushInv, Fresh
  <2>8. \A m \in Drawable : known'[m] <= calls'
    BY <2>1, <2>3, PushNames DEF PushInv, PushTypeOK
  <2>9. PushInv'  BY <2>1, <2>2, <2>6, <2>7, <2>8 DEF PushInv, Registering
  <2> QED  BY <2>4, <2>9
<1> QED  BY <1>1, <1>2

\* The requests that take the device off, when nothing is settled any more.
LEMMA CallsLeave ==
  ASSUME PushTypeOK, PushInv, LeaveRelay \/ LeaveServerRows \/ ClearPushState
  PROVE  PushTypeOK' /\ PushInv'
<1>0. PICK o \in Drawable : o = pushCall.old
  BY DEF PushInv, LeaveRelay, LeaveServerRows, ClearPushState, Doing
<1>n. settled = {} /\ settled' = {} /\ failures + 1 \in Nat /\ failures \in Nat
  BY PushNames DEF PushInv, LeaveRelay, LeaveServerRows, ClearPushState, Doing
<1>1. /\ failures' \in Nat /\ cut' \subseteq cut \cup {o}
      /\ relay' = relay \/ relay' = Retired(o)
      /\ known' = known \/ known' = [known EXCEPT ![o] = 0]
      /\ pushState' = pushState \/ pushState' = NoState
      /\ UNCHANGED <<token, joined, drawn, calls>>
  BY <1>0, <1>n DEF LeaveRelay, LeaveServerRows, ClearPushState, Fails
<1>2. relay' \in [Drawable \cup PushGroups -> [token : Nat, age : {"none", "live", "grace", "over"}]]
  BY <1>1, RetiredIsOne DEF PushTypeOK
<1>3. known' \in [Drawable -> Nat] /\ \A m \in Drawable : known'[m] <= known[m]
  BY <1>1, PushNames DEF PushTypeOK
<1>4. /\ pushCall' \in [step : CallSteps, name : {0} \cup Drawable, token : Nat,
                         old : {0} \cup Drawable, spoilt : BOOLEAN]
      /\ \/ pushCall'.step = "none"
         \/ pushCall'.step \in {"leaveServer", "clear"} /\ pushCall'.old \in Drawable
  <2>1. CASE ClearPushState
    <3>1. NoCall \in [step : CallSteps, name : {0} \cup Drawable, token : Nat,
                      old : {0} \cup Drawable, spoilt : BOOLEAN] /\ NoCall.step = "none"
      BY DEF NoCall, CallSteps
    <3> QED  BY <2>1, <3>1 DEF ClearPushState
  <2>2. CASE LeaveRelay  BY <1>0, <2>2, CallProceeds DEF LeaveRelay, CallSteps
  <2>3. CASE LeaveServerRows  BY <1>0, <2>3, CallProceeds DEF LeaveServerRows, CallSteps
  <2> QED  BY <2>1, <2>2, <2>3
<1>5. /\ pushState' \in [name : {0} \cup Drawable, token : Nat, due : BOOLEAN]
      /\ pushState'.name <= drawn'
  <2>1. NoState \in [name : {0} \cup Drawable, token : Nat, due : BOOLEAN] /\ NoState.name = 0
    BY DEF NoState
  <2> QED  BY <1>1, <2>1, PushNames DEF PushTypeOK, PushInv
<1>6. PushTypeOK'  BY <1>0, <1>n, <1>1, <1>2, <1>3, <1>4, <1>5 DEF PushTypeOK
<1>7. \A m \in Drawable : known'[m] <= calls'  BY <1>1, <1>3, PushNames DEF PushInv, PushTypeOK
<1>8. PushInv'  BY <1>n, <1>1, <1>4, <1>5, <1>7 DEF PushInv, Registering
<1> QED  BY <1>6, <1>8

\* What comes in between: a call is cut short, a token or a group is new, the
\* relay is wiped, and its old rows go.
LEMMA CallsDisturbed ==
  ASSUME PushTypeOK, PushInv,
         \/ CallCut \/ NewToken \/ Due \/ RelayWiped
         \/ \E g \in PushGroups : Join(g)
         \/ \E n \in DOMAIN relay : GraceEnds(n) \/ GcRelay(n)
  PROVE  PushTypeOK' /\ PushInv'
<1>n. failures + 1 \in Nat /\ failures \in Nat /\ DOMAIN relay = Drawable \cup PushGroups
  BY PushNames
<1>1. CASE CallCut
  <2>1. /\ pushCall' = NoCall /\ cut' \subseteq cut \cup ({pushCall.old} \ {0})
        /\ failures' \in Nat
        /\ UNCHANGED <<token, pushState, joined, relay, known, drawn, settled, calls>>
    BY <1>1, <1>n DEF CallCut, Fails
  <2>2. NoCall \in [step : CallSteps, name : {0} \cup Drawable, token : Nat,
                    old : {0} \cup Drawable, spoilt : BOOLEAN] /\ NoCall.step = "none"
    BY DEF NoCall, CallSteps
  <2>3. cut' \subseteq Drawable  BY <2>1, PushNames DEF PushTypeOK
  <2>4. PushTypeOK'  BY <2>1, <2>2, <2>3 DEF PushTypeOK
  <2>5. PushInv'  BY <2>1, <2>2 DEF PushInv, Registering, Newest, Fresh
  <2> QED  BY <2>4, <2>5
<1>2. CASE NewToken
  <2>1. /\ token' \in Nat \ {0} /\ settled' = {}
        /\ UNCHANGED <<pushState, joined, relay, known, pushCall, drawn, cut, calls, failures>>
    BY <1>2 DEF NewToken, PushTypeOK
  <2>2. PushTypeOK'  BY <2>1 DEF PushTypeOK
  <2>3. PushInv'  BY <2>1 DEF PushInv, Registering, Newest
  <2> QED  BY <2>2, <2>3
<1>3. CASE Due
  <2>1. /\ pushState' = [pushState EXCEPT !.due = TRUE]
        /\ UNCHANGED <<token, joined, relay, known, pushCall, drawn, settled, cut, calls, failures>>
    BY <1>3 DEF Due
  <2>2. /\ pushState' \in [name : {0} \cup Drawable, token : Nat, due : BOOLEAN]
        /\ pushState'.name = pushState.name
    BY <2>1 DEF PushTypeOK
  <2>3. PushTypeOK'  BY <2>1, <2>2 DEF PushTypeOK
  <2>4. PushInv'  BY <2>1, <2>2 DEF PushInv, Registering, Newest, Fresh
  <2> QED  BY <2>3, <2>4
<1>4. CASE \E g \in PushGroups : Join(g)
  <2>1. /\ joined' \subseteq PushGroups
        /\ UNCHANGED <<token, pushState, relay, known, pushCall, drawn, settled, cut, calls, failures>>
    BY <1>4 DEF Join, PushTypeOK
  <2>2. PushTypeOK'  BY <2>1 DEF PushTypeOK
  <2>3. PushInv'  BY <2>1 DEF PushInv, Registering, Newest, Fresh
  <2> QED  BY <2>2, <2>3
<1>5. CASE RelayWiped
  <2> DEFINE spoilt == ~Doing("none")
  <2>1. /\ relay' = [n \in DOMAIN relay |-> Unknown] /\ settled' = {}
        /\ pushCall' = [pushCall EXCEPT !.spoilt = spoilt] /\ failures' \in Nat
        /\ spoilt \in BOOLEAN /\ (spoilt <=> pushCall.step # "none")
        /\ UNCHANGED <<token, pushState, joined, known, drawn, cut, calls>>
    BY <1>5, <1>n DEF RelayWiped, Fails, Doing
  <2> HIDE DEF spoilt
  <2>2. pushCall' \in [step : CallSteps, name : {0} \cup Drawable, token : Nat,
                        old : {0} \cup Drawable, spoilt : BOOLEAN]
    BY <2>1 DEF PushTypeOK
  <2>3. /\ pushCall'.step = pushCall.step /\ pushCall'.name = pushCall.name
        /\ pushCall'.old = pushCall.old /\ pushCall'.token = pushCall.token
    BY <2>1 DEF PushTypeOK
  <2>4. pushCall.step # "none" => pushCall'.spoilt
    <3>1. pushCall'.spoilt = spoilt  BY <2>1 DEF PushTypeOK
    <3> QED  BY <2>1, <3>1
  <2>5. relay' \in [Drawable \cup PushGroups ->
                      [token : Nat, age : {"none", "live", "grace", "over"}]]
    BY <1>n, <2>1 DEF Unknown
  <2>6. PushTypeOK'  BY <2>1, <2>2, <2>5 DEF PushTypeOK
  <2>7. PushInv'  BY <2>1, <2>3, <2>4 DEF PushInv, Registering, Newest
  <2> QED  BY <2>6, <2>7
<1>6. CASE \E n \in DOMAIN relay : GraceEnds(n) \/ GcRelay(n)
  <2>1. PICK n \in Drawable \cup PushGroups : GraceEnds(n) \/ GcRelay(n)  BY <1>6, <1>n
  <2> DEFINE r == [relay[n] EXCEPT !.age = "over"]
  <2>2. r \in [token : Nat, age : {"none", "live", "grace", "over"}]  BY DEF PushTypeOK
  <2>3. /\ relay' = [relay EXCEPT ![n] = r] \/ relay' = [relay EXCEPT ![n] = Unknown]
        /\ relay[n].age # "live"
        /\ UNCHANGED <<token, pushState, joined, known, pushCall, drawn, settled, cut, calls, failures>>
    BY <2>1 DEF GraceEnds, GcRelay, Collectable
  <2> HIDE DEF r
  <2>4. /\ relay' \in [Drawable \cup PushGroups ->
                        [token : Nat, age : {"none", "live", "grace", "over"}]]
        /\ \A m \in Drawable \cup PushGroups : relay[m].age = "live" => relay'[m] = relay[m]
    BY <2>2, <2>3 DEF PushTypeOK, Unknown
  <2>5. PushTypeOK'  BY <2>3, <2>4 DEF PushTypeOK
  <2>6. "device" \in settled' => \E m \in Drawable : Newest(m)' /\ relay'[m] = Fresh'
    <3> SUFFICES ASSUME "device" \in settled
                 PROVE  \E m \in Drawable : Newest(m)' /\ relay'[m] = Fresh'
      BY <2>3
    <3>1. PICK m \in Drawable : Newest(m) /\ relay[m] = Fresh  BY DEF PushInv
    <3>2. Newest(m)' /\ relay[m].age = "live"  BY <2>3, <3>1 DEF Newest, Fresh
    <3>3. relay'[m] = relay[m]  BY <2>4, <3>2
    <3>4. relay'[m] = Fresh'  BY <2>3, <3>1, <3>3 DEF Fresh
    <3> QED  BY <3>2, <3>4
  <2>7. \A g \in settled' \cap PushGroups : relay'[g] = Fresh'
    <3> SUFFICES ASSUME NEW g \in settled \cap PushGroups  PROVE relay'[g] = Fresh'
      BY <2>3
    <3>1. relay[g] = Fresh /\ relay[g].age = "live"  BY DEF PushInv, Fresh
    <3>2. relay'[g] = relay[g]  BY <2>4, <3>1
    <3> QED  BY <2>3, <3>1, <3>2 DEF Fresh
  <2>8. (pushCall.step \in {"groups", "server"} /\ ~pushCall.spoilt) =>
           relay'[pushCall.name] = [token |-> pushCall.token, age |-> "live"]
    <3> SUFFICES ASSUME pushCall.step \in {"groups", "server"}, ~pushCall.spoilt
                 PROVE  relay'[pushCall.name] = [token |-> pushCall.token, age |-> "live"]
      OBVIOUS
    <3>1. pushCall.name \in Drawable /\ relay[pushCall.name] = [token |-> pushCall.token, age |-> "live"]
      BY DEF PushInv, Registering
    <3> QED  BY <2>4, <3>1
  <2>9. PushInv'  BY <2>3, <2>6, <2>7, <2>8 DEF PushInv, Registering, Newest
  <2> QED  BY <2>5, <2>9
<1> QED  BY <1>1, <1>2, <1>3, <1>4, <1>5, <1>6

\* The one newest pseudonym of a settled device is the one a wakeup goes to.
LEMMA SettledIsReached == (PushTypeOK /\ PushInv) => WakeupsReachDevice
<1> SUFFICES ASSUME PushTypeOK, PushInv  PROVE WakeupsReachDevice
  OBVIOUS
<1>1. ASSUME "device" \in settled
      PROVE  /\ PseudonymForDevice # {}
             /\ \A n \in PseudonymForDevice : Wakeup(n) = {token}
  <2>1. PICK m \in Drawable : Newest(m) /\ relay[m] = Fresh  BY <1>1 DEF PushInv
  <2>2. m \in PseudonymForDevice  BY <2>1, PushNames DEF Newest, PseudonymForDevice
  <2>3. \A n \in PseudonymForDevice : n = m  BY <2>1, PushNames DEF Newest, PseudonymForDevice
  <2>4. Wakeup(m) = {token}  BY <2>1 DEF Wakeup, Fresh
  <2> QED  BY <2>2, <2>3, <2>4
<1>2. \A g \in settled \cap PushGroups : Wakeup(g) = {token}  BY DEF PushInv, Wakeup, Fresh
<1> QED  BY <1>1, <1>2 DEF WakeupsReachDevice

\* Once registered with the current token the device and its groups are found
\* through every later rotation and failure (register_push_token, wakeup).
THEOREM WakeupsArrive == PushSpec => [](PushTypeOK /\ WakeupsReachDevice)
<1>1. PushTypeOK /\ PushInv /\ [PushNext]_pushVars => PushTypeOK' /\ PushInv'
  <2> SUFFICES ASSUME PushTypeOK, PushInv, [PushNext]_pushVars  PROVE PushTypeOK' /\ PushInv'
    OBVIOUS
  <2>1. CASE PushNext
    BY <2>1, CallsBegin, CallsRegister, CallsRetire, CallsLeave, CallsDisturbed DEF PushNext, CallStep
  <2>2. CASE UNCHANGED pushVars
    BY <2>2 DEF pushVars, PushTypeOK, PushInv, Registering, Newest, Fresh
  <2> QED  BY <2>1, <2>2
<1> QED  BY <1>1, PushBegins, SettledIsReached, PTL DEF PushSpec

----------------------------------------------------------------------------
(* Installed Projects: proof *)

\* The types of the state, taken apart once.
LEMMA GateShape ==
  ASSUME ProjectsTypeOK
  PROVE  /\ MaxIds \in Nat /\ MaxKeys \in Nat /\ 0 \notin Ids
         /\ installed \in Nat /\ ids \in Nat /\ ids <= MaxIds /\ installed <= MaxIds
         /\ installed # 0 => installed \in Ids
         /\ \A i \in Ids : /\ i \in Nat /\ signingKey[i] \in Nat /\ signingKey[i] <= MaxKeys
                           /\ signupKey[i] \in Nat /\ signupKey[i] \in Keys
                           /\ signupKey[i] = 0 \/ signupKey[i] > MaxKeys
         /\ \A q \in Requests : /\ order[q] \in Orders /\ order[q].id \in Nat
                                /\ order[q].id # 0 => order[q].id \in Ids
                                /\ order[q].key \in Keys /\ order[q].key \in Nat
         /\ SigningKeys \subseteq Keys \ {0} /\ SignupKeys \subseteq Keys \ {0}
         /\ \A k \in SigningKeys : k \in Nat /\ k # 0 /\ k <= MaxKeys
         /\ \A k \in SignupKeys : k \in Nat /\ k > MaxKeys
<1> USE DEF ProjectsTypeOK
<1>1. /\ MaxIds \in Nat /\ MaxKeys \in Nat /\ 0 \notin Ids
      /\ installed \in Nat /\ ids \in Nat /\ ids <= MaxIds /\ installed <= MaxIds
      /\ installed # 0 => installed \in Ids
  BY ProjectAssumption DEF Ids
<1>2. ASSUME NEW i \in Ids
      PROVE  /\ i \in Nat /\ signingKey[i] \in Nat /\ signingKey[i] <= MaxKeys
             /\ signupKey[i] \in Nat /\ signupKey[i] \in Keys
             /\ signupKey[i] = 0 \/ signupKey[i] > MaxKeys
  <2>1. signingKey[i] \in 0..MaxKeys /\ signupKey[i] \in {0} \cup (MaxKeys + 1)..(2 * MaxKeys)
    OBVIOUS
  <2> QED  BY <1>1, <2>1 DEF Ids, Keys
<1>3. ASSUME NEW q \in Requests
      PROVE  /\ order[q] \in Orders /\ order[q].id \in Nat
             /\ order[q].id # 0 => order[q].id \in Ids
             /\ order[q].key \in Keys /\ order[q].key \in Nat
  <2>1. order[q] \in Orders  OBVIOUS
  <2>2. order[q].id \in 0..MaxIds /\ order[q].key \in Keys  BY <2>1 DEF Orders
  <2> QED  BY <1>1, <2>1, <2>2 DEF Ids, Keys
<1>4. /\ SigningKeys \subseteq Keys \ {0} /\ SignupKeys \subseteq Keys \ {0}
      /\ \A k \in SigningKeys : k \in Nat /\ k # 0 /\ k <= MaxKeys
      /\ \A k \in SignupKeys : k \in Nat /\ k > MaxKeys
  BY <1>1 DEF SigningKeys, SignupKeys, Keys
<1> QED  BY <1>1, <1>2, <1>3, <1>4

\* A request is answered, dies, or has done the first of two statements.
LEMMA OrderMoves ==
  ASSUME ProjectsTypeOK, NEW q \in Requests,
         \/ order' = [order EXCEPT ![q] = NoOrder]
         \/ order' = [order EXCEPT ![q].step = "second"]
  PROVE  /\ order' \in [Requests -> Orders]
         /\ \A r \in Requests \ {q} : order'[r] = order[r]
         /\ \/ order'[q] = NoOrder
            \/ /\ order'[q].does = order[q].does /\ order'[q].step = "second"
               /\ order'[q].id = order[q].id /\ order'[q].key = order[q].key
               /\ order'[q].alone = order[q].alone
               /\ order' = [order EXCEPT ![q].step = "second"]
<1>1. NoOrder \in Orders  BY ProjectAssumption DEF NoOrder, Orders, Keys
<1>2. order \in [Requests -> Orders] /\ order[q] \in Orders  BY DEF ProjectsTypeOK
<1>3. CASE order' = [order EXCEPT ![q] = NoOrder]  BY <1>1, <1>2, <1>3
<1>4. CASE order' = [order EXCEPT ![q].step = "second"]
  <2> DEFINE o == [order[q] EXCEPT !.step = "second"]
             alone == order[q].alone
  <2>1. alone \in BOOLEAN  BY <1>2 DEF Orders
  <2>2. o = [does |-> order[q].does, step |-> "second", id |-> order[q].id,
             key |-> order[q].key, alone |-> alone]
    BY <1>2 DEF Orders
  <2>3. o.alone = alone  BY <2>2
  <2>4. o.does = order[q].does /\ o.step = "second" /\ o.id = order[q].id /\ o.key = order[q].key
    BY <2>2
  <2>5. o \in Orders
    <3> HIDE DEF alone
    <3> QED  BY <1>2, <2>1, <2>2 DEF Orders
  <2>6. order' = [order EXCEPT ![q] = o]  BY <1>4
  <2>7. order'[q] = o /\ order' \in [Requests -> Orders]
        /\ \A r \in Requests \ {q} : order'[r] = order[r]
    <3> HIDE DEF o
    <3> QED  BY <1>2, <2>5, <2>6
  <2>8. order'[q].alone = order[q].alone  BY <2>3, <2>7
  <2>9. order'[q].does = order[q].does /\ order'[q].step = "second"
        /\ order'[q].id = order[q].id /\ order'[q].key = order[q].key
    <3> HIDE DEF o
    <3> QED  BY <2>4, <2>7
  <2> QED  BY <1>4, <2>7, <2>8, <2>9
<1> QED  BY <1>3, <1>4

\* What a step of one request leaves of another one.
LEMMA OthersFit ==
  ASSUME ProjectsTypeOK, GateInv, NEW q \in UnderWay, NEW r \in Requests \ {q},
         \A p \in Requests \ {q} : order'[p] = order[p],
         \/ order'[q] = NoOrder
         \/ order'[q].does = order[q].does /\ order'[q].id = order[q].id,
         crossed' = crossed, ids' \in Nat, ids <= ids',
         (Grants(r) /\ order[r].step = "second" /\ order[r].id = installed') =>
             (signingKey'[installed'] # 0 \/ installed' \in crossed),
         (Revokes(r) /\ order[r].step = "second" /\ order[r].id \in gatekeepers') =>
             order[r].id \in crossed
  PROVE  OrderFits(r)'
<1>1. OrderFits(r) /\ OrderFits(q) /\ order'[r] = order[r] /\ q \in Requests
  BY DEF GateInv, UnderWay
<1>2. r \in UnderWay' => r \in UnderWay  BY <1>1 DEF UnderWay
<1>3. ~(r \in UnderWay /\ order[r].alone)  BY <1>1 DEF OrderFits
<1>4. order[r].id <= ids'  BY <1>1, GateShape DEF OrderFits
<1>5. ASSUME NEW p \in Requests, Grants(p)', Revokes(r)', order'[p].id = order'[r].id
      PROVE  order'[r].id \in crossed'
  <2>1. Revokes(r)  BY <1>1, <1>5 DEF Revokes
  <2>2. Grants(p) /\ order[p].id = order[r].id
    BY <1>1, <1>5 DEF Grants, NoOrder, Revokes
  <2> QED  BY <1>1, <2>1, <2>2 DEF OrderFits
<1>6. /\ order[r].does = "none" => order[r] = NoOrder
      /\ Grants(r) => order[r].id # 0 /\ order[r].key \in 1..MaxKeys /\ r \in UnderWay
      /\ Revokes(r) => order[r].id # 0
      /\ order[r].does = "mint" => order[r].id # 0 /\ order[r].key > MaxKeys
  BY <1>1 DEF OrderFits, Grants, UnderWay
<1> QED  BY <1>1, <1>2, <1>3, <1>4, <1>5, <1>6 DEF OrderFits, Grants, Revokes

\* What a request that is done leaves of itself.
LEMMA DoneFits == ASSUME NEW q \in Requests, order'[q] = NoOrder, ids' \in Nat  PROVE OrderFits(q)'
  BY DEF OrderFits, NoOrder, Grants, Revokes, UnderWay

\* Keys are withdrawn by an answer to a request that was alone, once they are
\* no longer in force.
LEMMA Withdrawn ==
  ASSUME ProjectsTypeOK, GateInv, NEW q \in UnderWay, NEW W \in SUBSET (Keys \ {0}),
         \A p \in Requests \ {q} : order'[p] = order[p],
         order'[q].key = 0 \/ (order'[q].key = order[q].key /\ retired' = retired),
         retired' = retired \/ (order[q].alone /\ retired' = retired \cup W),
         order[q].alone => \A k \in W : \A i \in Ids : signingKey'[i] # k /\ signupKey'[i] # k,
         \A k \in retired : \A i \in Ids : signingKey'[i] # k /\ signupKey'[i] # k,
         applicant' = applicant
  PROVE  RetiredOut' /\ retired' \subseteq Keys \ {0}
<1>1. retired \subseteq Keys \ {0} /\ retired \subseteq retired' /\ q \in Requests
  BY DEF ProjectsTypeOK, UnderWay
<1>2. retired' \subseteq Keys \ {0}  BY <1>1
<1>3. \A k \in retired' : \A i \in Ids : signingKey'[i] # k /\ signupKey'[i] # k  OBVIOUS
<1>4. ASSUME NEW k \in retired', NEW p \in Requests  PROVE order'[p].key # k
  <2>1. CASE p = q
    <3>1. order[q].key \notin retired  BY <1>1 DEF GateInv, RetiredOut
    <3> QED  BY <1>2, <1>4, <2>1, <3>1
  <2>2. CASE p # q /\ k \in retired  BY <2>2 DEF GateInv, RetiredOut
  <2>3. CASE p # q /\ k \notin retired
    <3>1. order[q].alone  BY <1>4, <2>3
    <3>2. UnderWay = {q}  BY <1>1, <3>1 DEF GateInv, OrderFits
    <3>3. order[p] = NoOrder  BY <2>3, <3>2 DEF GateInv, OrderFits, UnderWay
    <3>4. order'[p].key = 0  BY <2>3, <3>3 DEF NoOrder
    <3> QED  BY <1>2, <1>4, <3>4
  <2> QED  BY <2>1, <2>2, <2>3
<1>5. applicant'.withdrawn =>
        /\ applicant'.key \in retired' /\ applicant'.pinned # applicant'.key
        /\ applicant'.step # "admitted"
  BY <1>1 DEF GateInv, RetiredOut
<1> QED  BY <1>2, <1>3, <1>4, <1>5 DEF RetiredOut

LEMMA GateBegins == ProjectsInit => ProjectsTypeOK /\ GateInv
<1> SUFFICES ASSUME ProjectsInit  PROVE ProjectsTypeOK /\ GateInv
  OBVIOUS
<1>1. NoOrder \in Orders /\ NoApplicant \in Applicants
  BY ProjectAssumption DEF NoOrder, Orders, NoApplicant, Applicants, Keys
<1>2. ProjectsTypeOK  BY <1>1, ProjectAssumption DEF ProjectsInit, ProjectsTypeOK, Ids
<1>3. \A q \in Requests : OrderFits(q)
  BY ProjectAssumption DEF ProjectsInit, OrderFits, NoOrder, Grants, Revokes, UnderWay
<1>4. OneRow /\ GatekeeperHasKey /\ RetiredOut
  BY ProjectAssumption DEF ProjectsInit, OneRow, GatekeeperHasKey, RetiredOut, NoApplicant, Ids
<1> QED  BY <1>2, <1>3, <1>4 DEF GateInv

\* A request begins, beside those under way.
LEMMA OrdersBegin ==
  ASSUME ProjectsTypeOK, GateInv, NEW q \in Requests,
         NEW does \in {"install", "uninstall", "grant", "revoke", "mint", "link", "unlink"},
         NEW key \in Keys, BeginOrder(q, does, key),
         does \in {"grant", "revoke", "mint"} => installed # 0,
         does = "grant" => key \in 1..MaxKeys,
         does = "mint" => key > MaxKeys /\ minted < MaxKeys
  PROVE  ProjectsTypeOK' /\ GateInv'
<1> DEFINE alone == UnderWay = {}
           o == [does |-> does, step |-> "first", id |-> installed, key |-> key, alone |-> alone]
<1>1. /\ order[q] = NoOrder /\ orders' = orders + 1
      /\ order' = [p \in Requests |-> IF p = q THEN o
                     ELSE IF p \in UnderWay THEN [order[p] EXCEPT !.alone = FALSE] ELSE order[p]]
      /\ retired' = retired \ {key}
      /\ applicant' = IF applicant.key = key THEN [applicant EXCEPT !.withdrawn = FALSE]
                      ELSE applicant
      /\ keys' = IF does = "grant" /\ key > keys THEN key ELSE keys
      /\ minted' = IF does = "mint" THEN minted + 1 ELSE minted
      /\ UNCHANGED tables
  BY DEF BeginOrder
<1>2. /\ crossed \subseteq crossed' /\ crossed' \subseteq crossed \cup {installed}
      /\ \A p \in UnderWay : ({does, order[p].does} = {"grant", "revoke"} /\ order[p].id = installed)
                                => installed \in crossed'
      /\ crossed' # crossed => installed # 0
  <2>1. ASSUME NEW p \in UnderWay, order[p].id = installed, {does, order[p].does} = {"grant", "revoke"}
        PROVE  installed # 0
    <3>1. Grants(p) \/ Revokes(p)  BY <2>1 DEF Grants, Revokes
    <3> QED  BY <2>1, <3>1 DEF GateInv, OrderFits, UnderWay
  <2> QED  BY <2>1 DEF BeginOrder
<1>3. q \notin UnderWay  BY <1>1 DEF UnderWay, NoOrder
<1>4. /\ alone \in BOOLEAN /\ (alone <=> UnderWay = {})  OBVIOUS
<1>5. /\ o.does = does /\ o.step = "first" /\ o.id = installed /\ o.key = key
      /\ (o.alone <=> alone)
  OBVIOUS
<1>6. o \in Orders
  <2> HIDE DEF alone
  <2> QED  BY <1>4 DEF ProjectsTypeOK, Orders
<1>7. \A p \in Requests : order[p] \in Orders  BY GateShape
<1> HIDE DEF o, alone
<1>8. /\ order'[q] = o
      /\ \A p \in Requests \ UnderWay : p # q => order'[p] = order[p]
      /\ \A p \in UnderWay :
            /\ order'[p].does = order[p].does /\ order'[p].step = order[p].step
            /\ order'[p].id = order[p].id /\ order'[p].key = order[p].key
            /\ ~order'[p].alone
      /\ order' \in [Requests -> Orders]
  <2>1. ASSUME NEW p \in UnderWay
        PROVE  /\ order'[p].does = order[p].does /\ order'[p].step = order[p].step
               /\ order'[p].id = order[p].id /\ order'[p].key = order[p].key
               /\ ~order'[p].alone /\ order'[p] \in Orders
    <3>1. order[p] \in Orders /\ order'[p] = [order[p] EXCEPT !.alone = FALSE]
      BY <1>1, <1>3, <1>7 DEF UnderWay
    <3> QED  BY <3>1 DEF Orders
  <2>2. \A p \in Requests : order'[p] \in Orders  BY <1>1, <1>6, <1>7, <2>1
  <2> QED  BY <1>1, <1>3, <2>1, <2>2
<1>9. UnderWay' = UnderWay \cup {q}
  BY <1>1, <1>5, <1>8 DEF UnderWay
<1>10. applicant' \in Applicants /\ applicant'.key = applicant.key /\ applicant'.pinned = applicant.pinned
       /\ applicant'.step = applicant.step
       /\ (applicant'.withdrawn => (applicant.withdrawn /\ applicant.key # key))
  <2>1. applicant \in Applicants  BY DEF ProjectsTypeOK
  <2>2. CASE applicant.key = key
    <3>1. applicant' = [applicant EXCEPT !.withdrawn = FALSE]  BY <1>1, <2>2
    <3> QED  BY <2>1, <3>1 DEF Applicants
  <2>3. CASE applicant.key # key
    <3>1. applicant' = applicant  BY <1>1, <2>3
    <3> QED  BY <2>1, <2>3, <3>1
  <2> QED  BY <2>2, <2>3
<1>11. ProjectsTypeOK'
  <2>1. keys' \in 0..MaxKeys /\ minted' \in 0..MaxKeys /\ orders' \in Nat
    BY <1>1, GateShape DEF ProjectsTypeOK
  <2>2. crossed' \subseteq Ids  BY <1>2, GateShape DEF ProjectsTypeOK
  <2> QED  BY <1>1, <1>8, <1>10, <2>1, <2>2 DEF ProjectsTypeOK, tables
<1>12. OneRow' /\ GatekeeperHasKey'
  BY <1>1, <1>2 DEF GateInv, OneRow, GatekeeperHasKey, tables
<1>13. RetiredOut'
  <2>1. ASSUME NEW k \in retired', NEW p \in Requests  PROVE order'[p].key # k
    <3>1. k # key /\ k \in retired  BY <1>1, <2>1
    <3>2. order[p].key # k  BY <3>1 DEF GateInv, RetiredOut
    <3> QED  BY <1>5, <1>8, <3>1, <3>2
  <2>2. \A k \in retired' : \A i \in Ids : signingKey'[i] # k /\ signupKey'[i] # k
    BY <1>1 DEF GateInv, RetiredOut, tables
  <2>3. applicant'.withdrawn =>
          /\ applicant'.key \in retired' /\ applicant'.pinned # applicant'.key
          /\ applicant'.step # "admitted"
    BY <1>1, <1>10 DEF GateInv, RetiredOut
  <2> QED  BY <2>1, <2>2, <2>3 DEF RetiredOut
<1>14. \A p \in Requests : /\ Grants(p)' <=> (IF p = q THEN does = "grant" ELSE Grants(p))
                           /\ Revokes(p)' <=> (IF p = q THEN does = "revoke" ELSE Revokes(p))
                           /\ order'[p].id = IF p = q THEN installed ELSE order[p].id
  BY <1>5, <1>8 DEF Grants, Revokes
<1>15. ASSUME NEW r \in Requests, NEW p \in Requests, Grants(p)', Revokes(r)',
              order'[p].id = order'[r].id
       PROVE  order'[r].id \in crossed'
  <2>1. CASE p # q /\ r # q
    <3>1. OrderFits(r)  BY DEF GateInv
    <3> QED  BY <1>2, <1>14, <1>15, <2>1, <3>1 DEF OrderFits
  <2>2. CASE p = q
    <3>1. r # q /\ Revokes(r) /\ does = "grant" /\ order[r].id = installed
      BY <1>14, <1>15, <2>2
    <3>2. r \in UnderWay /\ {does, order[r].does} = {"grant", "revoke"}
      BY <3>1 DEF Revokes, UnderWay
    <3> QED  BY <1>2, <1>14, <3>1, <3>2
  <2>3. CASE r = q
    <3>1. p # q /\ Grants(p) /\ does = "revoke" /\ order[p].id = installed
      BY <1>14, <1>15, <2>3
    <3>2. p \in UnderWay /\ {does, order[p].does} = {"grant", "revoke"}
      BY <3>1 DEF Grants, UnderWay
    <3> QED  BY <1>2, <1>14, <2>3, <3>1, <3>2
  <2> QED  BY <2>1, <2>2, <2>3
<1>16. OrderFits(q)'
  <2>1. installed <= ids /\ UNCHANGED <<installed, ids>>  BY <1>1 DEF GateInv, OneRow, tables
  <2>2. (q \in UnderWay' /\ order'[q].alone) => UnderWay' = {q}  BY <1>4, <1>5, <1>8, <1>9
  <2>3. does # "none" /\ order'[q].step = "first"  BY <1>5, <1>8
  <2>4. order'[q].does = does /\ order'[q].key = key /\ order'[q].id = installed  BY <1>5, <1>8
  <2> QED  BY <1>15, <2>1, <2>2, <2>3, <2>4 DEF OrderFits, Grants, Revokes
<1>17. ASSUME NEW r \in UnderWay  PROVE OrderFits(r)'
  <2>1. r \in Requests /\ r # q /\ OrderFits(r)  BY <1>3 DEF GateInv, UnderWay
  <2>2. UNCHANGED <<installed, ids, signingKey, gatekeepers>>  BY <1>1 DEF tables
  <2>3. order[r].does # "none"  BY DEF UnderWay
  <2> QED  BY <1>2, <1>8, <1>15, <2>1, <2>2, <2>3 DEF OrderFits, Grants, Revokes
<1>18. ASSUME NEW r \in Requests \ (UnderWay \cup {q})  PROVE OrderFits(r)'
  <2>1. order[r] = NoOrder  BY DEF GateInv, OrderFits, UnderWay
  <2>2. order'[r] = NoOrder /\ ids' \in Nat  BY <1>1, <1>8, <2>1, GateShape DEF tables
  <2> QED  BY <2>2, DoneFits
<1> QED  BY <1>11, <1>12, <1>13, <1>16, <1>17, <1>18 DEF GateInv

LEMMA OrdersArrive ==
  ASSUME ProjectsTypeOK, GateInv, NEW q \in Requests,
         \/ InstallProject(q) \/ UninstallProject(q) \/ GrantCapability(q)
         \/ RevokeCapability(q) \/ MintBotSignupKey(q) \/ LinkBot(q) \/ UnlinkBot(q)
  PROVE  ProjectsTypeOK' /\ GateInv'
<1>0. /\ MaxKeys \in Nat /\ 0 \in Keys /\ keys \in 0..MaxKeys /\ minted \in 0..MaxKeys
  BY GateShape DEF Keys, ProjectsTypeOK
<1>1. CASE InstallProject(q)  BY <1>0, <1>1, OrdersBegin DEF InstallProject
<1>2. CASE UninstallProject(q)  BY <1>0, <1>2, OrdersBegin DEF UninstallProject
<1>3. CASE GrantCapability(q)
  <2>1. PICK k \in AnyKey : BeginOrder(q, "grant", k)  BY <1>3 DEF GrantCapability
  <2>2. k \in 1..MaxKeys /\ k \in Keys  BY <1>0 DEF AnyKey, Keys
  <2>3. installed # 0  BY <1>3 DEF GrantCapability
  <2> QED  BY <2>1, <2>2, <2>3, OrdersBegin
<1>4. CASE RevokeCapability(q)  BY <1>0, <1>4, OrdersBegin DEF RevokeCapability
<1>5. CASE MintBotSignupKey(q)
  <2> DEFINE k == MaxKeys + minted + 1
  <2>1. k \in Keys /\ k > MaxKeys /\ minted < MaxKeys /\ installed # 0 /\ BeginOrder(q, "mint", k)
    BY <1>0, <1>5 DEF MintBotSignupKey, Keys
  <2> HIDE DEF k
  <2> QED  BY <2>1, OrdersBegin
<1>6. CASE LinkBot(q)  BY <1>0, <1>6, OrdersBegin DEF LinkBot
<1>7. CASE UnlinkBot(q)  BY <1>0, <1>7, OrdersBegin DEF UnlinkBot
<1> QED  BY <1>1, <1>2, <1>3, <1>4, <1>5, <1>6, <1>7

\* A request's only statement, or its last.
LEMMA OrderEnds ==
  ASSUME ProjectsTypeOK, GateInv, NEW q \in UnderWay, NEW W \in SUBSET (Keys \ {0}),
         order' = [order EXCEPT ![q] = NoOrder],
         retired' = IF order[q].alone THEN retired \cup W ELSE retired,
         UNCHANGED <<applicant, keys, minted, orders, crossed>>,
         installed' \in 0..MaxIds, ids' \in 0..MaxIds, ids <= ids',
         signingKey' \in [Ids -> 0..MaxKeys],
         signupKey' \in [Ids -> {0} \cup (MaxKeys + 1)..(2 * MaxKeys)],
         gatekeepers' \subseteq Ids, bots' \subseteq Ids,
         OneRow', GatekeeperHasKey',
         order[q].alone => \A k \in W : \A i \in Ids : signingKey'[i] # k /\ signupKey'[i] # k,
         \A k \in retired : \A i \in Ids : signingKey'[i] # k /\ signupKey'[i] # k,
         \A r \in Requests \ {q} :
            /\ (Grants(r) /\ order[r].step = "second" /\ order[r].id = installed') =>
                  (signingKey'[installed'] # 0 \/ installed' \in crossed)
            /\ (Revokes(r) /\ order[r].step = "second" /\ order[r].id \in gatekeepers') =>
                  order[r].id \in crossed
  PROVE  ProjectsTypeOK' /\ GateInv'
<1>1. q \in Requests /\ ids' \in Nat  BY GateShape DEF UnderWay
<1>2. order' \in [Requests -> Orders] /\ \A r \in Requests \ {q} : order'[r] = order[r]
  BY <1>1, OrderMoves
<1>3. order'[q] = NoOrder /\ order'[q].key = 0  BY <1>1 DEF ProjectsTypeOK, NoOrder
<1>4. RetiredOut' /\ retired' \subseteq Keys \ {0}
  <2>1. retired' = retired \/ (order[q].alone /\ retired' = retired \cup W)  OBVIOUS
  <2>2. applicant' = applicant  OBVIOUS
  <2> QED  BY <1>2, <1>3, <2>1, <2>2, Withdrawn
<1>5. ProjectsTypeOK'  BY <1>2, <1>4 DEF ProjectsTypeOK
<1>6. ASSUME NEW r \in Requests \ {q}  PROVE OrderFits(r)'
  <2>1. crossed' = crossed  OBVIOUS
  <2> QED  BY <1>1, <1>2, <1>3, <1>6, <2>1, OthersFit
<1>7. OrderFits(q)'  BY <1>1, <1>3, DoneFits
<1> QED  BY <1>4, <1>5, <1>6, <1>7 DEF GateInv

\* The first of two statements.
LEMMA OrderGoesOn ==
  ASSUME ProjectsTypeOK, GateInv, NEW q \in UnderWay,
         order' = [order EXCEPT ![q].step = "second"],
         UNCHANGED <<applicant, keys, minted, orders, crossed, retired, installed, ids,
                     signupKey, bots>>,
         signingKey' \in [Ids -> 0..MaxKeys], gatekeepers' \subseteq gatekeepers,
         OneRow', GatekeeperHasKey',
         \A k \in retired : \A i \in Ids : signingKey'[i] # k,
         (signingKey'[installed] = 0 /\ installed # 0) => signingKey[installed] = 0,
         (Grants(q) /\ order[q].id = installed) => signingKey'[installed] = order[q].key,
         Revokes(q) => order[q].id \notin gatekeepers'
  PROVE  ProjectsTypeOK' /\ GateInv'
<1>1. q \in Requests /\ ids' \in Nat /\ ids <= ids' /\ order[q] \in Orders
      /\ order[q].does # "none" /\ order[q].key \in Nat
  BY GateShape DEF UnderWay
<1>2. /\ order' \in [Requests -> Orders]
      /\ \A r \in Requests \ {q} : order'[r] = order[r]
      /\ order'[q].does = order[q].does /\ order'[q].step = "second"
      /\ order'[q].id = order[q].id /\ order'[q].key = order[q].key
      /\ order'[q].alone = order[q].alone
  <2>1. order'[q] = [order[q] EXCEPT !.step = "second"]  BY <1>1 DEF ProjectsTypeOK
  <2>2. order'[q].does = order[q].does  BY <1>1, <2>1 DEF Orders
  <2>3. order'[q] # NoOrder  BY <1>1, <2>2 DEF NoOrder
  <2> QED  BY <1>1, <2>3, OrderMoves
<1>3. \A k \in retired : \A i \in Ids : signingKey'[i] # k /\ signupKey'[i] # k
  BY DEF GateInv, RetiredOut
<1>4. RetiredOut'
  <2>1. ASSUME NEW k \in retired, NEW p \in Requests  PROVE order'[p].key # k
    BY <1>1, <1>2 DEF GateInv, RetiredOut
  <2> QED  BY <1>3, <2>1 DEF GateInv, RetiredOut
<1>5. ProjectsTypeOK'  BY <1>2 DEF ProjectsTypeOK
<1>6. ASSUME NEW r \in Requests \ {q}  PROVE OrderFits(r)'
  <2>1. (Grants(r) /\ order[r].step = "second" /\ order[r].id = installed) =>
           (signingKey'[installed] # 0 \/ installed \in crossed)
    <3>1. OrderFits(r)  BY DEF GateInv
    <3>2. Grants(r) => order[r].id # 0  BY <3>1 DEF OrderFits
    <3> QED  BY <3>1, <3>2 DEF OrderFits
  <2>2. (Revokes(r) /\ order[r].step = "second" /\ order[r].id \in gatekeepers') => order[r].id \in crossed
    BY DEF GateInv, OrderFits
  <2>3. crossed' = crossed /\ installed' = installed  OBVIOUS
  <2> QED  BY <1>1, <1>2, <2>1, <2>2, <2>3, OthersFit
<1>7. OrderFits(q)'
  <2>1. OrderFits(q)  BY <1>1 DEF GateInv
  <2>2. UnderWay' = UnderWay  BY <1>1, <1>2 DEF UnderWay
  <2>3. ASSUME NEW p \in Requests, Grants(p)', Revokes(q)', order'[p].id = order'[q].id
        PROVE  order'[q].id \in crossed'
    <3>1. Revokes(q)  BY <1>2, <2>3 DEF Revokes
    <3>2. Grants(p) /\ order[p].id = order[q].id  BY <1>1, <1>2, <2>3, <3>1 DEF Grants, Revokes
    <3> QED  BY <1>2, <2>1, <3>1, <3>2 DEF OrderFits
  <2>4. Grants(q) => order[q].key # 0  BY <2>1 DEF OrderFits
  <2> QED  BY <1>1, <1>2, <2>1, <2>2, <2>3, <2>4 DEF OrderFits, Grants, Revokes
<1> QED  BY <1>4, <1>5, <1>6, <1>7 DEF GateInv

\* What an order under way says of the tables, in the terms of OrderEnds.
LEMMA RowStands ==
  ASSUME ProjectsTypeOK, GateInv
  PROVE  /\ \A r \in Requests :
              /\ (Grants(r) /\ order[r].step = "second" /\ order[r].id = installed) =>
                    (signingKey[installed] # 0 \/ installed \in crossed)
              /\ (Revokes(r) /\ order[r].step = "second" /\ order[r].id \in gatekeepers) =>
                    order[r].id \in crossed
         /\ \A k \in retired : \A i \in Ids : signingKey[i] # k /\ signupKey[i] # k
         /\ \A k \in retired : \A r \in Requests : order[r].key # k
         /\ \A i \in Ids : i # installed => signingKey[i] = 0 /\ signupKey[i] = 0 /\ i \notin gatekeepers
         /\ {} \in SUBSET (Keys \ {0})
  BY DEF GateInv, OrderFits, RetiredOut, OneRow

\* Statements that leave both keys alone.
LEMMA PlainStatements ==
  ASSUME ProjectsTypeOK, GateInv, NEW q \in Requests,
         WriteProject(q) \/ AlreadyGone(q) \/ LinkStep(q) \/ RequestDies(q)
  PROVE  ProjectsTypeOK' /\ GateInv'
<1>1. q \in UnderWay
  BY DEF WriteProject, AlreadyGone, LinkStep, RequestDies, OrderAt, UnderWay, GateInv, OrderFits
<1>2. /\ order' = [order EXCEPT ![q] = NoOrder] /\ retired' = retired
      /\ UNCHANGED <<applicant, keys, minted, orders, crossed, signingKey, gatekeepers, signupKey>>
  BY DEF WriteProject, AlreadyGone, LinkStep, RequestDies, Answer, tables
<1>3. /\ ids' \in 0..MaxIds /\ ids <= ids'
      /\ installed' = installed \/ (installed = 0 /\ installed' = ids + 1 /\ ids' = ids + 1)
      /\ installed' = installed => ids' = ids
  BY GateShape DEF ProjectsTypeOK, WriteProject, AlreadyGone, LinkStep, RequestDies, tables
<1>4. installed' \in 0..MaxIds /\ bots' \subseteq Ids
  <2>1. \A id : Exists(id) => id \in Ids  BY GateShape DEF Exists
  <2>2. bots' \subseteq Ids
    BY <2>1 DEF ProjectsTypeOK, WriteProject, AlreadyGone, LinkStep, RequestDies, tables
  <2> QED  BY <1>3, <2>2, GateShape DEF ProjectsTypeOK
<1>5. OneRow'
  <2>1. CASE installed' = installed  BY <1>2, <1>3, <2>1 DEF GateInv, OneRow
  <2>2. CASE installed = 0 /\ installed' = ids + 1 /\ ids' = ids + 1
    BY <1>2, <2>2, GateShape DEF GateInv, OneRow
  <2> QED  BY <1>3, <2>1, <2>2
<1>6. GatekeeperHasKey'  BY <1>2 DEF GateInv, GatekeeperHasKey
<1>7. \A r \in Requests \ {q} :
            /\ (Grants(r) /\ order[r].step = "second" /\ order[r].id = installed') =>
                  (signingKey'[installed'] # 0 \/ installed' \in crossed)
            /\ (Revokes(r) /\ order[r].step = "second" /\ order[r].id \in gatekeepers') =>
                  order[r].id \in crossed
  <2>1. \A r \in Requests : order[r].id \in Nat /\ order[r].id <= ids
    BY GateShape DEF GateInv, OrderFits
  <2>2. \A r \in Requests : order[r].id # ids + 1  BY <2>1, GateShape
  <2> QED  BY <1>2, <1>3, <2>2, RowStands
<1>8. /\ signingKey' \in [Ids -> 0..MaxKeys] /\ gatekeepers' \subseteq Ids
      /\ signupKey' \in [Ids -> {0} \cup (MaxKeys + 1)..(2 * MaxKeys)]
      /\ \A k \in retired : \A i \in Ids : signingKey'[i] # k /\ signupKey'[i] # k
      /\ retired' = IF order[q].alone THEN retired \cup {} ELSE retired
  BY <1>2, RowStands DEF ProjectsTypeOK
<1>9. UNCHANGED <<applicant, keys, minted, orders, crossed>>  BY <1>2
<1>10. order[q].alone => \A k \in {} : \A i \in Ids : signingKey'[i] # k /\ signupKey'[i] # k
  OBVIOUS
<1>11. {} \in SUBSET (Keys \ {0})  OBVIOUS
<1> QED  BY <1>1, <1>2, <1>3, <1>4, <1>5, <1>6, <1>7, <1>8, <1>9, <1>10, <1>11, OrderEnds

\* An uninstall withdraws every key there was.
LEMMA UninstallStatement ==
  ASSUME ProjectsTypeOK, GateInv, NEW q \in Requests, DeleteBySlug(q)
  PROVE  ProjectsTypeOK' /\ GateInv'
<1> DEFINE W == SigningKeys \cup SignupKeys
<1>1. /\ q \in UnderWay /\ installed \in Ids /\ order' = [order EXCEPT ![q] = NoOrder]
      /\ retired' = IF order[q].alone THEN retired \cup W ELSE retired
      /\ UNCHANGED <<applicant, keys, minted, orders, crossed>> /\ ids' = ids
      /\ gatekeepers' = gatekeepers \ {installed} /\ bots' = bots \ {installed} /\ installed' = 0
      /\ signingKey' = [signingKey EXCEPT ![installed] = 0]
      /\ signupKey' = [signupKey EXCEPT ![installed] = 0]
  BY GateShape DEF DeleteBySlug, OrderAt, UnderWay, Answer
<1>2. W \in SUBSET (Keys \ {0})  BY GateShape
<1> HIDE DEF W
<1>3. /\ signingKey' \in [Ids -> 0..MaxKeys]
      /\ signupKey' \in [Ids -> {0} \cup (MaxKeys + 1)..(2 * MaxKeys)]
      /\ gatekeepers' \subseteq Ids /\ bots' \subseteq Ids
      /\ installed' \in 0..MaxIds /\ ids' \in 0..MaxIds /\ ids <= ids'
  BY <1>1, GateShape DEF ProjectsTypeOK
<1>4. \A i \in Ids : signingKey'[i] = 0 /\ signupKey'[i] = 0 /\ i \notin gatekeepers'
  BY <1>1, RowStands DEF ProjectsTypeOK
<1>5. OneRow' /\ GatekeeperHasKey' /\ gatekeepers' = {}
  BY <1>1, <1>3, <1>4, GateShape DEF OneRow, GatekeeperHasKey
<1>6. /\ order[q].alone => \A k \in W : \A i \in Ids : signingKey'[i] # k /\ signupKey'[i] # k
      /\ \A k \in retired : \A i \in Ids : signingKey'[i] # k /\ signupKey'[i] # k
  BY <1>2, <1>4 DEF ProjectsTypeOK
<1>7. \A r \in Requests \ {q} :
            /\ (Grants(r) /\ order[r].step = "second" /\ order[r].id = installed') =>
                  (signingKey'[installed'] # 0 \/ installed' \in crossed)
            /\ (Revokes(r) /\ order[r].step = "second" /\ order[r].id \in gatekeepers') =>
                  order[r].id \in crossed
  BY <1>1, <1>5 DEF GateInv, OrderFits
<1> QED  BY <1>1, <1>2, <1>3, <1>5, <1>6, <1>7, OrderEnds

\* Granting: the key is pinned, then the capability given.
LEMMA GrantStatements ==
  ASSUME ProjectsTypeOK, GateInv, NEW q \in Requests, GrantSteps(q)
  PROVE  ProjectsTypeOK' /\ GateInv'
<1> DEFINE key == order[q].key
           id == order[q].id
<1>1. q \in UnderWay /\ Grants(q) /\ OrderFits(q)  BY DEF GrantSteps, UnderWay, Grants, GateInv
<1>2. /\ key \in 1..MaxKeys /\ id # 0 /\ id \in Ids /\ key # 0 /\ key \in Nat /\ key <= MaxKeys
      /\ (Exists(id) <=> id = installed)
  BY <1>1, GateShape DEF OrderFits, Exists
<1>3. CASE SetSigningKey(q, "first", key) /\ FirstDone(q)
  <2>1. /\ order' = [order EXCEPT ![q].step = "second"]
        /\ UNCHANGED <<applicant, keys, minted, orders, crossed, retired, installed, ids,
                       signupKey, bots, gatekeepers>>
        /\ signingKey' = IF id = installed THEN [signingKey EXCEPT ![id] = key] ELSE signingKey
    BY <1>2, <1>3 DEF SetSigningKey, FirstDone
  <2>2. /\ signingKey' \in [Ids -> 0..MaxKeys]
        /\ \A i \in Ids : signingKey'[i] = IF i = id /\ id = installed THEN key ELSE signingKey[i]
    BY <1>2, <2>1 DEF ProjectsTypeOK
  <2>3. OneRow' /\ GatekeeperHasKey'
    <3>1. gatekeepers \subseteq Ids  BY DEF ProjectsTypeOK
    <3>2. GatekeeperHasKey'  BY <1>2, <2>1, <2>2, <3>1 DEF GateInv, GatekeeperHasKey
    <3>3. OneRow'  BY <1>2, <2>1, <2>2 DEF GateInv, OneRow
    <3> QED  BY <3>2, <3>3
  <2>4. \A k \in retired : \A i \in Ids : signingKey'[i] # k  BY <2>2, RowStands
  <2>5. (signingKey'[installed] = 0 /\ installed # 0) => signingKey[installed] = 0
    BY <1>2, <2>2, GateShape
  <2>6. (Grants(q) /\ id = installed) => signingKey'[installed] = key  BY <1>2, <2>2
  <2>7. Revokes(q) => id \notin gatekeepers'  BY <1>1 DEF Grants, Revokes
  <2> QED  BY <1>1, <2>1, <2>2, <2>3, <2>4, <2>5, <2>6, <2>7, OrderGoesOn
<1>4. CASE Grant(q, "second") /\ Answer(q, SigningKeys \ {key})
  <2> DEFINE W == SigningKeys \ {key}
  <2>1. /\ order' = [order EXCEPT ![q] = NoOrder] /\ order[q].step = "second"
        /\ retired' = IF order[q].alone THEN retired \cup W ELSE retired
        /\ UNCHANGED <<applicant, keys, minted, orders, crossed, installed, ids,
                       signingKey, signupKey, bots>>
        /\ gatekeepers' = IF id = installed THEN gatekeepers \cup {id} ELSE gatekeepers
    BY <1>2, <1>4 DEF Grant, Answer
  <2>2. W \in SUBSET (Keys \ {0}) /\ \A k \in W : k \in Nat /\ k # 0 /\ k <= MaxKeys /\ k # key
    BY GateShape
  <2> HIDE DEF W
  <2>3. id = installed => signingKey[id] # 0 \/ id \in crossed
    BY <1>1, <2>1 DEF OrderFits
  <2>4. OneRow' /\ GatekeeperHasKey'
    BY <1>2, <2>1, <2>3 DEF GateInv, OneRow, GatekeeperHasKey
  <2>5. order[q].alone => \A k \in W : \A i \in Ids : signingKey'[i] # k /\ signupKey'[i] # k
    <3> SUFFICES ASSUME order[q].alone, NEW k \in W, NEW i \in Ids
                 PROVE  signingKey[i] # k /\ signupKey[i] # k
      BY <2>1
    <3>1. id = installed /\ signingKey[installed] = key
      BY <1>1, <2>1 DEF OrderFits, Grants
    <3>2. signingKey[i] \in {0, key}  BY <3>1, RowStands
    <3>3. signupKey[i] = 0 \/ signupKey[i] > MaxKeys  BY GateShape
    <3> QED  BY <2>2, <3>2, <3>3, GateShape
  <2>6. \A r \in Requests \ {q} :
            /\ (Grants(r) /\ order[r].step = "second" /\ order[r].id = installed') =>
                  (signingKey'[installed'] # 0 \/ installed' \in crossed)
            /\ (Revokes(r) /\ order[r].step = "second" /\ order[r].id \in gatekeepers') =>
                  order[r].id \in crossed
    <3>1. \A r \in Requests : (Revokes(r) /\ order[r].id = id) => id \in crossed
      BY <1>1 DEF GateInv, OrderFits
    <3> QED  BY <2>1, <3>1, RowStands
  <2>7. /\ signingKey' \in [Ids -> 0..MaxKeys] /\ gatekeepers' \subseteq Ids /\ bots' \subseteq Ids
        /\ signupKey' \in [Ids -> {0} \cup (MaxKeys + 1)..(2 * MaxKeys)]
        /\ installed' \in 0..MaxIds /\ ids' \in 0..MaxIds /\ ids <= ids'
        /\ \A k \in retired : \A i \in Ids : signingKey'[i] # k /\ signupKey'[i] # k
        /\ UNCHANGED <<applicant, keys, minted, orders, crossed>>
    BY <1>2, <2>1, RowStands, GateShape DEF ProjectsTypeOK
  <2> QED  BY <1>1, <2>1, <2>2, <2>4, <2>5, <2>6, <2>7, OrderEnds
<1> QED  BY <1>3, <1>4 DEF GrantSteps

\* Revoking: the capability is taken, then the key cleared.
LEMMA RevokeStatements ==
  ASSUME ProjectsTypeOK, GateInv, NEW q \in Requests, Revoke(q) \/ RetireKey(q)
  PROVE  ProjectsTypeOK' /\ GateInv'
<1> DEFINE id == order[q].id
<1>1. q \in UnderWay /\ Revokes(q) /\ OrderFits(q)
  BY DEF Revoke, RetireKey, OrderAt, UnderWay, Revokes, GateInv
<1>2. id # 0 /\ id \in Ids /\ (Exists(id) <=> id = installed)
  BY <1>1, GateShape DEF OrderFits, Exists
<1>3. CASE Revoke(q)
  <2>1. /\ order' = [order EXCEPT ![q].step = "second"]
        /\ UNCHANGED <<applicant, keys, minted, orders, crossed, retired, installed, ids,
                       signingKey, signupKey, bots>>
        /\ gatekeepers' = gatekeepers \ {id}
    BY <1>3 DEF Revoke, FirstDone
  <2>2. signingKey' \in [Ids -> 0..MaxKeys]  BY <2>1 DEF ProjectsTypeOK
  <2>3. OneRow' /\ GatekeeperHasKey'  BY <2>1 DEF GateInv, OneRow, GatekeeperHasKey
  <2>4. \A k \in retired : \A i \in Ids : signingKey'[i] # k  BY <2>1, RowStands
  <2>5. (signingKey'[installed] = 0 /\ installed # 0) => signingKey[installed] = 0  BY <2>1
  <2>6. ~Grants(q) /\ id \notin gatekeepers' /\ gatekeepers' \subseteq gatekeepers
    BY <1>1, <2>1 DEF Grants, Revokes
  <2> QED  BY <1>1, <2>1, <2>2, <2>3, <2>4, <2>5, <2>6, OrderGoesOn
<1>4. CASE RetireKey(q)
  <2> DEFINE W == SigningKeys
  <2>1. /\ order' = [order EXCEPT ![q] = NoOrder] /\ order[q].step = "second"
        /\ retired' = IF order[q].alone THEN retired \cup W ELSE retired
        /\ UNCHANGED <<applicant, keys, minted, orders, crossed, installed, ids,
                       gatekeepers, signupKey, bots>>
        /\ signingKey' = IF id = installed THEN [signingKey EXCEPT ![id] = 0] ELSE signingKey
    BY <1>2, <1>4 DEF RetireKey, SetSigningKey, Answer
  <2>2. W \in SUBSET (Keys \ {0}) /\ \A k \in W : k \in Nat /\ k # 0 /\ k <= MaxKeys
    BY GateShape
  <2> HIDE DEF W
  <2>3. /\ signingKey' \in [Ids -> 0..MaxKeys]
        /\ \A i \in Ids : signingKey'[i] = IF i = id /\ id = installed THEN 0 ELSE signingKey[i]
    BY <1>2, <2>1, GateShape DEF ProjectsTypeOK
  <2>4. id \in gatekeepers => id \in crossed  BY <1>1, <2>1 DEF OrderFits
  <2>5. gatekeepers \subseteq Ids  BY DEF ProjectsTypeOK
  <2>6. OneRow' /\ GatekeeperHasKey'
    BY <2>1, <2>3, <2>4, <2>5 DEF GateInv, OneRow, GatekeeperHasKey
  <2>7. order[q].alone => \A k \in W : \A i \in Ids : signingKey'[i] # k /\ signupKey'[i] # k
    <3> SUFFICES ASSUME order[q].alone, NEW k \in W, NEW i \in Ids
                 PROVE  signingKey'[i] # k /\ signupKey[i] # k
      BY <2>1
    <3>1. id = installed  BY <1>1 DEF OrderFits, Revokes
    <3>2. signingKey'[i] = 0  BY <2>3, <3>1, RowStands
    <3>3. signupKey[i] = 0 \/ signupKey[i] > MaxKeys  BY GateShape
    <3> QED  BY <2>2, <3>2, <3>3, GateShape
  <2>8. \A r \in Requests \ {q} :
            /\ (Grants(r) /\ order[r].step = "second" /\ order[r].id = installed') =>
                  (signingKey'[installed'] # 0 \/ installed' \in crossed)
            /\ (Revokes(r) /\ order[r].step = "second" /\ order[r].id \in gatekeepers') =>
                  order[r].id \in crossed
    <3>1. \A r \in Requests : (Grants(r) /\ order[r].id = id) => id \in crossed
      BY <1>1 DEF OrderFits
    <3>2. \A r \in Requests : Grants(r) => order[r].id \in Ids
      BY GateShape DEF GateInv, OrderFits
    <3> QED  BY <2>1, <2>3, <3>1, <3>2, RowStands
  <2>9. /\ gatekeepers' \subseteq Ids /\ bots' \subseteq Ids
        /\ signupKey' \in [Ids -> {0} \cup (MaxKeys + 1)..(2 * MaxKeys)]
        /\ installed' \in 0..MaxIds /\ ids' \in 0..MaxIds /\ ids <= ids'
        /\ UNCHANGED <<applicant, keys, minted, orders, crossed>>
    BY <2>1, GateShape DEF ProjectsTypeOK
  <2>10. \A k \in retired : \A i \in Ids : signingKey'[i] # k /\ signupKey'[i] # k
    BY <2>1, <2>3, RowStands DEF ProjectsTypeOK
  <2> QED  BY <1>1, <2>1, <2>2, <2>3, <2>6, <2>7, <2>8, <2>9, <2>10, OrderEnds
<1> QED  BY <1>3, <1>4

\* A key for bots takes the place of the one before.
LEMMA MintStatement ==
  ASSUME ProjectsTypeOK, GateInv, NEW q \in Requests, SetSignupKey(q)
  PROVE  ProjectsTypeOK' /\ GateInv'
<1> DEFINE key == order[q].key
           id == order[q].id
           W == SignupKeys \ {key}
<1>1. /\ q \in UnderWay /\ OrderFits(q) /\ order[q].does = "mint"
      /\ key \in Keys /\ key > MaxKeys /\ id # 0 /\ id \in Ids /\ (Exists(id) <=> id = installed)
  BY GateShape DEF SetSignupKey, OrderAt, UnderWay, GateInv, OrderFits, Exists
<1>2. /\ order' = [order EXCEPT ![q] = NoOrder]
      /\ retired' = IF order[q].alone THEN retired \cup W ELSE retired
      /\ UNCHANGED <<applicant, keys, minted, orders, crossed, installed, ids,
                     gatekeepers, signingKey, bots>>
      /\ signupKey' = IF id = installed THEN [signupKey EXCEPT ![id] = key] ELSE signupKey
  BY <1>1 DEF SetSignupKey, Answer, Replaced
<1>3. W \in SUBSET (Keys \ {0}) /\ \A k \in W : k \in Nat /\ k > MaxKeys /\ k # key
  BY GateShape
<1> HIDE DEF W
<1>4. /\ signupKey' \in [Ids -> {0} \cup (MaxKeys + 1)..(2 * MaxKeys)]
      /\ \A i \in Ids : signupKey'[i] = IF i = id /\ id = installed THEN key ELSE signupKey[i]
  <2>1. key \in (MaxKeys + 1)..(2 * MaxKeys)  BY <1>1, GateShape DEF Keys
  <2> QED  BY <1>1, <1>2, <2>1 DEF ProjectsTypeOK
<1>5. OneRow' /\ GatekeeperHasKey'
  BY <1>2, <1>4 DEF GateInv, OneRow, GatekeeperHasKey
<1>6. order[q].alone => \A k \in W : \A i \in Ids : signingKey'[i] # k /\ signupKey'[i] # k
  <2> SUFFICES ASSUME order[q].alone, NEW k \in W, NEW i \in Ids
               PROVE  signingKey[i] # k /\ signupKey'[i] # k
    BY <1>2
  <2>1. id = installed  BY <1>1 DEF OrderFits
  <2>2. signupKey'[i] \in {0, key}  BY <1>4, <2>1, RowStands
  <2> QED  BY <1>3, <2>2, GateShape
<1>7. \A r \in Requests \ {q} :
            /\ (Grants(r) /\ order[r].step = "second" /\ order[r].id = installed') =>
                  (signingKey'[installed'] # 0 \/ installed' \in crossed)
            /\ (Revokes(r) /\ order[r].step = "second" /\ order[r].id \in gatekeepers') =>
                  order[r].id \in crossed
  BY <1>2, RowStands
<1>8. /\ gatekeepers' \subseteq Ids /\ bots' \subseteq Ids /\ signingKey' \in [Ids -> 0..MaxKeys]
      /\ installed' \in 0..MaxIds /\ ids' \in 0..MaxIds /\ ids <= ids'
      /\ UNCHANGED <<applicant, keys, minted, orders, crossed>>
  BY <1>2, GateShape DEF ProjectsTypeOK
<1>9. \A k \in retired : \A i \in Ids : signingKey'[i] # k /\ signupKey'[i] # k
  BY <1>2, <1>4, RowStands
<1> QED  BY <1>1, <1>2, <1>3, <1>4, <1>5, <1>6, <1>7, <1>8, <1>9, OrderEnds

\* A registration: the gate reads the id and the key, then the capability.
LEMMA RegistrationSteps ==
  ASSUME ProjectsTypeOK, GateInv,
         \/ \E k \in SigningKeys : Apply("invite", k)
         \/ \E k \in SignupKeys : Apply("bot", k)
         \/ FindIssuer \/ GateByInvite \/ ProjectForKey \/ AdmitApplicant
  PROVE  ProjectsTypeOK' /\ GateInv'
<1>1. UNCHANGED <<installed, ids, signingKey, gatekeepers, signupKey>>
      /\ UNCHANGED <<order, keys, minted, orders, retired, crossed>>
  BY DEF Apply, FindIssuer, GateByInvite, ProjectForKey, AdmitApplicant, KeepOrders, tables
<1>2. applicant \in Applicants /\ retired \subseteq Keys \ {0}  BY DEF ProjectsTypeOK
<1>3. NoApplicant \in Applicants /\ ~NoApplicant.withdrawn
  BY GateShape DEF NoApplicant, Applicants, Keys
<1>4. applicant.withdrawn =>
        /\ applicant.key \in retired /\ applicant.pinned # applicant.key
        /\ applicant.step # "admitted"
  BY DEF GateInv, RetiredOut
<1>5. /\ applicant' \in Applicants
      /\ applicant'.withdrawn =>
            /\ applicant'.key \in retired /\ applicant'.pinned # applicant'.key
            /\ applicant'.step # "admitted"
      /\ bots' \subseteq Ids
  <2>1. ASSUME NEW k \in SigningKeys \cup SignupKeys, NEW by \in {"invite", "bot"}, Apply(by, k)
        PROVE  /\ applicant' \in Applicants /\ bots' = bots
               /\ applicant'.withdrawn =>
                     /\ applicant'.key \in retired /\ applicant'.pinned # applicant'.key
                     /\ applicant'.step # "admitted"
    <3> DEFINE w == k \in retired
    <3>1. k \in Keys /\ k # 0 /\ w \in BOOLEAN /\ (w <=> k \in retired)  BY GateShape
    <3>2. applicant' = [by |-> by, step |-> "find", key |-> k, id |-> 0, pinned |-> 0, withdrawn |-> w]
          /\ bots' = bots
      BY <2>1 DEF Apply, NoApplicant, tables
    <3> HIDE DEF w
    <3>3. 0 \in Keys /\ 0 \in 0..MaxIds  BY GateShape DEF Keys
    <3> QED  BY <3>1, <3>2, <3>3 DEF Applicants
  <2>2. CASE FindIssuer
    <3>1. bots' = bots /\ bots \subseteq Ids  BY <2>2 DEF FindIssuer, tables, ProjectsTypeOK
    <3>2. CASE installed = 0  BY <1>3, <2>2, <3>1, <3>2 DEF FindIssuer
    <3>3. CASE installed # 0
      <4>1. applicant' = [applicant EXCEPT !.step = "check", !.id = installed,
                                           !.pinned = signingKey[installed]]
        BY <2>2, <3>3 DEF FindIssuer
      <4>2. installed \in Ids /\ installed \in 0..MaxIds /\ signingKey[installed] \in Keys
        BY <3>3, GateShape DEF Keys
      <4>3. applicant.withdrawn => signingKey[installed] # applicant.key
        BY <1>4, <4>2, RowStands
      <4>4. applicant' \in Applicants /\ applicant'.key = applicant.key
            /\ applicant'.pinned = signingKey[installed] /\ applicant'.step = "check"
        BY <1>2, <4>1, <4>2 DEF Applicants
      <4>5. applicant'.withdrawn = applicant.withdrawn  BY <1>2, <4>1 DEF Applicants
      <4> QED  BY <1>4, <3>1, <4>3, <4>4, <4>5
    <3> QED  BY <3>2, <3>3
  <2>3. CASE GateByInvite
    <3>1. bots' = bots /\ bots \subseteq Ids  BY <2>3 DEF GateByInvite, tables, ProjectsTypeOK
    <3>2. CASE applicant' = NoApplicant  BY <1>3, <3>1, <3>2
    <3>3. CASE applicant' # NoApplicant
      <4>1. applicant' = [applicant EXCEPT !.step = "admitted"] /\ applicant.pinned = applicant.key
        BY <2>3, <3>3 DEF GateByInvite, Verified
      <4>2. ~applicant.withdrawn  BY <1>4, <4>1
      <4> QED  BY <1>2, <3>1, <4>1, <4>2 DEF Applicants
    <3> QED  BY <3>2, <3>3
  <2>4. CASE ProjectForKey
    <3>1. bots' = bots /\ bots \subseteq Ids  BY <2>4 DEF ProjectForKey, tables, ProjectsTypeOK
    <3>2. CASE applicant' = NoApplicant  BY <1>3, <3>1, <3>2
    <3>3. CASE applicant' # NoApplicant
      <4> DEFINE j == CHOOSE i \in Ids : signupKey[i] = applicant.key
      <4>1. (\E i \in Ids : signupKey[i] = applicant.key)
            /\ applicant' = [applicant EXCEPT !.step = "admitted", !.id = j]
        BY <2>4, <3>3 DEF ProjectForKey
      <4>2. j \in Ids  BY <4>1
      <4> HIDE DEF j
      <4>3. j \in 0..MaxIds  BY <4>2 DEF Ids
      <4>4. ~applicant.withdrawn  BY <1>4, <4>1, RowStands
      <4> QED  BY <1>2, <3>1, <4>1, <4>3, <4>4 DEF Applicants
    <3> QED  BY <3>2, <3>3
  <2>5. CASE AdmitApplicant
    <3>1. \A id : Exists(id) => id \in Ids  BY GateShape DEF Exists
    <3> QED  BY <1>3, <2>5, <3>1 DEF AdmitApplicant, ProjectsTypeOK
  <2> QED  BY <2>1, <2>2, <2>3, <2>4, <2>5 DEF ProjectsTypeOK
<1>6. ProjectsTypeOK'  BY <1>1, <1>5 DEF ProjectsTypeOK
<1>7. OneRow' /\ GatekeeperHasKey' /\ RetiredOut'
  BY <1>1, <1>5 DEF GateInv, OneRow, GatekeeperHasKey, RetiredOut
<1>8. \A q \in Requests : OrderFits(q)'
  BY <1>1 DEF GateInv, OrderFits, Grants, Revokes, UnderWay
<1> QED  BY <1>6, <1>7, <1>8 DEF GateInv

\* A Project that may admit has a key to admit by, and a withdrawn key admits
\* nobody (grant_capability, revoke_capability, uninstall, mint_bot_signup_key,
\* gate_registration).
THEOREM GateIsSafe == ProjectsSpec => [](ProjectsTypeOK /\ GateHolds)
<1>1. ProjectsTypeOK /\ GateInv /\ [ProjectsNext]_projectVars => ProjectsTypeOK' /\ GateInv'
  <2> SUFFICES ASSUME ProjectsTypeOK, GateInv, [ProjectsNext]_projectVars
               PROVE  ProjectsTypeOK' /\ GateInv'
    OBVIOUS
  <2>1. ASSUME NEW q \in Requests,
               \/ InstallProject(q) \/ UninstallProject(q) \/ GrantCapability(q)
               \/ RevokeCapability(q) \/ MintBotSignupKey(q) \/ LinkBot(q) \/ UnlinkBot(q)
        PROVE  ProjectsTypeOK' /\ GateInv'
    BY <2>1, OrdersArrive
  <2>2. ASSUME NEW q \in Requests, OrderStep(q) \/ RequestDies(q)
        PROVE  ProjectsTypeOK' /\ GateInv'
    BY <2>2, PlainStatements, UninstallStatement, GrantStatements, RevokeStatements, MintStatement
       DEF OrderStep
  <2>3. CASE UNCHANGED projectVars
    BY <2>3 DEF projectVars, ProjectsTypeOK, GateInv, OneRow, GatekeeperHasKey, OrderFits,
                RetiredOut, Grants, Revokes, UnderWay
  <2> QED  BY <2>1, <2>2, <2>3, RegistrationSteps DEF ProjectsNext
<1>2. GateInv => GateHolds
  BY DEF GateInv, RetiredOut, GateHolds, RetiredKeysAdmitNobody
<1> QED  BY <1>1, <1>2, GateBegins, PTL DEF ProjectsSpec
=============================================================================
