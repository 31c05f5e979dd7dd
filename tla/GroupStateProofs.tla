-------------------------- MODULE GroupStateProofs --------------------------
(***************************************************************************)
(* Proofs about GroupState, for any devices, accounts, policies and bounds: *)
(*                                                                         *)
(*   GroupTypeCorrect    the types of the state;                            *)
(*   SubmissionsAreHeld  every revision is the one before it with exactly   *)
(*                       the logged change made to it, a change that was    *)
(*                       allowed, and the roster the members read is the    *)
(*                       one the server enforces;                           *)
(*   CachesAreRevisions  what a device caches is the server's state of the  *)
(*                       revision it is filed under;                        *)
(*   TimelinesAreTrue    a line tells of the change that made its revision. *)
(*                                                                         *)
(* All follow from one inductive invariant, GroupInv: past revisions never  *)
(* change, and whatever an operation, a fetch or a device carries is one of *)
(* them, or the change to it that the server will compare.                  *)
(***************************************************************************)
EXTENDS GroupState, SequenceTheorems, TLAPS

----------------------------------------------------------------------------
(* The inductive invariant *)

\* The states of all revisions so far.
History == [r \in 0..srv.rev |-> StateAt(r)]
IsCopy(c) == c.rev \in 0..srv.rev /\ c.blob = History[c.rev]

\* What an operation carries at each of its stages: a change to a revision, the
\* policy of that revision, a revision, or rows of the log.
Fits(o) ==
    /\ o.at \in {"asked", "checked"} =>
          o.rev \in 1..(srv.rev + 1) /\ o.blob = Effect(History[o.rev - 1], o.change)
    /\ (o.at = "checked" /\ o.rev = srv.rev + 1) => o.policy = srv.policy
    /\ o.at = "ok" =>
          o.rev \in 1..srv.rev /\ o.blob = History[o.rev] /\ log[o.rev].change = o.change
    /\ o.at \in {"got", "derive"} => IsCopy(o.got)
    /\ \A i \in 1..Len(o.rows) : o.rev + i \in 1..srv.rev /\ o.rows[i] = log[o.rev + i]

RowFits(row) == (row.row /\ row.blob # NoBlob) => IsCopy(row)
ReadFits(c) == c # NoCopy => IsCopy(c)
LineFits(e) == e.rev \in 1..srv.rev /\ e.kind = log[e.rev].change.kind
DeviceFits(d) ==
    Fits(op[d]) /\ RowFits(cache[d]) /\ ReadFits(bg[d]) /\ \A e \in shown[d] : LineFits(e)

\* Before the group is created nobody knows anything of it.
Untouched(d) == ~Has(d) /\ Idle(d) /\ bg[d] = NoCopy /\ ~held[d] /\ shown[d] = {}
NotYetMade ==
    srv.blob = NoBlob =>
        /\ srv.rev = 0 /\ mail = {} /\ DOMAIN srv.member = {} /\ DOMAIN srv.invited = {}
        /\ \A d \in Devices : Untouched(d)

GroupInv ==
    NotYetMade /\ ChangesChain /\ RosterMatches /\ \A d \in Devices : DeviceFits(d)

----------------------------------------------------------------------------
(* Rosters, changes and the tables *)

LEMMA RosterMade ==
  ASSUME NEW S \in SUBSET Accounts, NEW f \in [S -> Roles]
  PROVE  f \in Rosters
BY DEF Rosters

LEMMA RosterShape ==
  ASSUME NEW f \in Rosters
  PROVE  DOMAIN f \in SUBSET Accounts /\ f \in [DOMAIN f -> Roles]
BY DEF Rosters

LEMMA RosterOps ==
  ASSUME NEW f \in Rosters, NEW x \in Accounts, NEW v \in Roles
  PROVE  /\ With(f, x, v) \in Rosters /\ DOMAIN With(f, x, v) = DOMAIN f \cup {x}
         /\ With(f, x, v)[x] = v
         /\ \A y \in DOMAIN f \ {x} : With(f, x, v)[y] = f[y]
         /\ Without(f, x) \in Rosters /\ DOMAIN Without(f, x) = DOMAIN f \ {x}
         /\ \A y \in DOMAIN f \ {x} : Without(f, x)[y] = f[y]
<1>1. DOMAIN f \in SUBSET Accounts /\ f \in [DOMAIN f -> Roles]  BY RosterShape
<1>2. With(f, x, v) \in [DOMAIN f \cup {x} -> Roles] /\ Without(f, x) \in [DOMAIN f \ {x} -> Roles]
  BY <1>1 DEF With, Without
<1>3. With(f, x, v) \in Rosters /\ Without(f, x) \in Rosters  BY <1>1, <1>2, RosterMade
<1> QED  BY <1>3 DEF With, Without

LEMMA RosterOfOne ==
  ASSUME NEW f \in Rosters, DOMAIN f = {}, NEW x \in Accounts
  PROVE  With(f, x, 1) \in Rosters /\ DOMAIN With(f, x, 1) = {x} /\ With(f, x, 1)[x] = 1
<1>1. 1 \in Roles  BY DEF Roles
<1>2. With(f, x, 1) \in Rosters  BY <1>1, RosterOps
<1>3. DOMAIN With(f, x, 1) = {x} /\ With(f, x, 1)[x] = 1  BY DEF With
<1> QED  BY <1>2, <1>3

LEMMA RosterUpdated ==
  ASSUME NEW f \in Rosters, NEW x \in DOMAIN f, NEW v \in Roles
  PROVE  [f EXCEPT ![x] = v] \in Rosters
<1>1. DOMAIN f \in SUBSET Accounts /\ f \in [DOMAIN f -> Roles]  BY RosterShape
<1>2. [f EXCEPT ![x] = v] \in [DOMAIN f -> Roles]  BY <1>1
<1> QED  BY <1>1, <1>2, RosterMade

LEMMA AskerOps ==
  ASSUME NEW f \in Askers, NEW x \in Accounts, NEW d \in Devices
  PROVE  /\ With(f, x, d) \in Askers /\ Without(f, x) \in Askers
         /\ \A y \in DOMAIN f : y \in Accounts /\ f[y] \in Devices
<1>1. PICK S \in SUBSET Accounts : f \in [S -> Devices]  BY DEF Askers
<1>2. /\ With(f, x, d) \in [S \cup {x} -> Devices] /\ Without(f, x) \in [S \ {x} -> Devices]
      /\ S \cup {x} \in SUBSET Accounts /\ S \ {x} \in SUBSET Accounts
  BY <1>1 DEF With, Without
<1> QED  BY <1>1, <1>2 DEF Askers

LEMMA EmptyValues ==
  /\ Empty \in Rosters /\ Empty \in Askers /\ DOMAIN Empty = {}
  /\ AdminOnly \in Policies /\ NoBlob \in Blobs /\ NoBlob.by = Nobody
  /\ NoCopy \in Copies /\ NoCopy.blob = NoBlob
<1>1. Empty \in [{} -> Roles] /\ Empty \in [{} -> Devices] /\ DOMAIN Empty = {}  BY DEF Empty
<1>2. Empty \in Rosters /\ Empty \in Askers  BY <1>1, RosterMade DEF Askers
<1>3. NoBlob \in Blobs /\ NoBlob.by = Nobody  BY <1>2 DEF NoBlob, Blob, Blobs
<1> QED  BY <1>1, <1>2, <1>3 DEF AdminOnly, Policies, Roles, NoCopy, Copies

LEMMA WhoIs == ASSUME NEW c \in Changes  PROVE Who(c) \in Accounts /\ Who(c) # Nobody
BY DeviceAssumption, NobodyAssumption DEF Changes, Who, Accounts

\* A change makes a state of a state, stamped with who made it.
LEMMA EffectTyped ==
  ASSUME NEW b \in Blobs, NEW c \in Changes
  PROVE  Effect(b, c) \in Blobs /\ Effect(b, c).by = Who(c) /\ Effect(b, c) # NoBlob
<1>1. Who(c) \in Accounts /\ Who(c) # Nobody /\ c.target \in Accounts /\ c.role \in Roles /\ 0 \in Roles
  BY WhoIs DEF Changes, Roles
<1>2. b.mem \in Rosters /\ b.inv \in Rosters /\ b.look \in Nat  BY DEF Blobs
<1>3. Edited(b, c) \in Blobs
  <2>1. InviteMember(b, c) \in Blobs
    <3>1. With(b.inv, c.target, c.role) \in Rosters  BY <1>1, <1>2, RosterOps
    <3> QED  BY <3>1 DEF InviteMember, Blobs
  <2>2. AcceptInvite(b, c) \in Blobs
    <3> DEFINE r == IF Who(c) \in DOMAIN b.inv THEN b.inv[Who(c)] ELSE 0
    <3>1. r \in Roles  BY <1>1, <1>2, RosterShape
    <3> HIDE DEF r
    <3>2. Without(b.inv, Who(c)) \in Rosters /\ With(b.mem, Who(c), r) \in Rosters
      BY <1>1, <1>2, <3>1, RosterOps
    <3> QED  BY <3>2 DEF AcceptInvite, Blobs, r
  <2>3. DeclineInvite(b, c) \in Blobs
    <3>1. Without(b.inv, Who(c)) \in Rosters  BY <1>1, <1>2, RosterOps
    <3> QED  BY <3>1 DEF DeclineInvite, Blobs
  <2>4. RemoveMember(b, c) \in Blobs
    <3>1. Without(b.inv, c.target) \in Rosters /\ Without(b.mem, c.target) \in Rosters
      BY <1>1, <1>2, RosterOps
    <3> QED  BY <3>1 DEF RemoveMember, Blobs
  <2>5. LeaveGroup(b, c) \in Blobs
    <3>1. Without(b.inv, Who(c)) \in Rosters /\ Without(b.mem, Who(c)) \in Rosters
      BY <1>1, <1>2, RosterOps
    <3> QED  BY <3>1 DEF LeaveGroup, Blobs
  <2>6. ChangeRole(b, c) \in Blobs
    <3>1. CASE c.target \in DOMAIN b.mem
      <4>1. [b.mem EXCEPT ![c.target] = c.role] \in Rosters  BY <1>1, <1>2, <3>1, RosterUpdated
      <4>2. ChangeRole(b, c) = [b EXCEPT !.mem = [b.mem EXCEPT ![c.target] = c.role]]
        BY <3>1 DEF ChangeRole, Blobs
      <4> QED  BY <4>1, <4>2 DEF Blobs
    <3>2. CASE c.target \notin DOMAIN b.mem  BY <3>2 DEF ChangeRole
    <3> QED  BY <3>1, <3>2
  <2>7. ApproveJoinRequest(b, c) \in Blobs
    <3>1. With(b.mem, c.target, 0) \in Rosters  BY <1>1, <1>2, RosterOps
    <3> QED  BY <3>1 DEF ApproveJoinRequest, Blobs
  <2>8. SetLook(b, c) \in Blobs  BY <1>2 DEF SetLook, Blobs
  <2> QED  BY <2>1, <2>2, <2>3, <2>4, <2>5, <2>6, <2>7, <2>8 DEF Edited
<1>4. Effect(b, c) \in Blobs /\ Effect(b, c).by = Who(c)  BY <1>1, <1>3 DEF Effect, Blobs
<1> QED  BY <1>1, <1>4, EmptyValues

\* A table row of s has become t: only the three tables and the names moved.
Amended(s, t, m, i, a) ==
    /\ t \in Servers /\ t.rev = s.rev /\ t.blob = s.blob /\ t.policy = s.policy
    /\ t.member = m /\ t.invited = i /\ t.asking = a

LEMMA TableOps ==
  ASSUME NEW s \in Servers, NEW x \in Accounts, NEW r \in Roles, NEW d \in Devices
  PROVE  /\ Amended(s, InsertMember(s, x, r), With(s.member, x, r), s.invited, s.asking)
         /\ Amended(s, InsertName(s, d), s.member, s.invited, s.asking)
         /\ Amended(s, DeleteMember(s, x), Without(s.member, x), s.invited, s.asking)
         /\ Amended(s, InsertInvite(s, x, r), s.member, With(s.invited, x, r), s.asking)
         /\ Amended(s, DeleteInvite(s, x), s.member, Without(s.invited, x), s.asking)
         /\ Amended(s, InsertAsking(s, x, d), s.member, s.invited, With(s.asking, x, d))
         /\ Amended(s, DeleteAsking(s, x), s.member, s.invited, Without(s.asking, x))
<1>1. s.member \in Rosters /\ s.invited \in Rosters /\ s.asking \in Askers /\ s.names \subseteq Devices
  BY DEF Servers
<1>2. /\ With(s.member, x, r) \in Rosters /\ Without(s.member, x) \in Rosters
      /\ With(s.invited, x, r) \in Rosters /\ Without(s.invited, x) \in Rosters
      /\ With(s.asking, x, d) \in Askers /\ Without(s.asking, x) \in Askers
  BY <1>1, RosterOps, AskerOps
<1>3. s.names \cup {d} \in SUBSET Devices /\ \A y : {e \in s.names : Owner[e] # y} \in SUBSET Devices
  BY <1>1
<1>4. Amended(s, InsertMember(s, x, r), With(s.member, x, r), s.invited, s.asking)
  BY <1>2 DEF Amended, InsertMember, Servers
<1>5. Amended(s, InsertName(s, d), s.member, s.invited, s.asking)
  BY <1>3 DEF Amended, InsertName, Servers
<1>6. Amended(s, DeleteMember(s, x), Without(s.member, x), s.invited, s.asking)
  BY <1>2, <1>3 DEF Amended, DeleteMember, DeleteNames, Servers
<1>7. Amended(s, InsertInvite(s, x, r), s.member, With(s.invited, x, r), s.asking)
  BY <1>2 DEF Amended, InsertInvite, Servers
<1>8. Amended(s, DeleteInvite(s, x), s.member, Without(s.invited, x), s.asking)
  BY <1>2 DEF Amended, DeleteInvite, Servers
<1>9. Amended(s, InsertAsking(s, x, d), s.member, s.invited, With(s.asking, x, d))
  BY <1>2 DEF Amended, InsertAsking, Servers
<1>10. Amended(s, DeleteAsking(s, x), s.member, s.invited, Without(s.asking, x))
  BY <1>2 DEF Amended, DeleteAsking, Servers
<1> QED  BY <1>4, <1>5, <1>6, <1>7, <1>8, <1>9, <1>10

\* What each kind of change does to the tables.
LEMMA ApplyShape ==
  ASSUME NEW s \in Servers, NEW c \in Changes, Eligible(s, c), ~Refused(s, c)
  PROVE  LET t == ApplyActions(s, c) IN
         /\ c.kind # "none"
         /\ c.kind = "invite" =>
               Amended(s, t, s.member, With(s.invited, c.target, c.role), s.asking)
         /\ c.kind = "promote" =>
               /\ Who(c) \in DOMAIN s.invited
               /\ Amended(s, t, With(s.member, Who(c), s.invited[Who(c)]),
                          Without(s.invited, Who(c)), s.asking)
         /\ c.kind = "decline" => Amended(s, t, s.member, Without(s.invited, Who(c)), s.asking)
         /\ c.kind = "remove" =>
               Amended(s, t, Without(s.member, c.target), Without(s.invited, c.target),
                       Without(s.asking, c.target))
         /\ c.kind = "leave" =>
               Amended(s, t, Without(s.member, Who(c)), Without(s.invited, Who(c)),
                       Without(s.asking, Who(c)))
         /\ c.kind = "role" =>
               Amended(s, t, IF c.target \in DOMAIN s.member
                             THEN [s.member EXCEPT ![c.target] = c.role] ELSE s.member,
                       s.invited, s.asking)
         /\ c.kind = "join" =>
               \/ Amended(s, t, With(s.member, Who(c), 0), s.invited, s.asking)
               \/ Amended(s, t, s.member, s.invited, With(s.asking, Who(c), c.by))
         /\ c.kind = "approve" =>
               Amended(s, t, With(s.member, c.target, 0), s.invited, Without(s.asking, c.target))
         /\ c.kind = "cancel" => Amended(s, t, s.member, s.invited, Without(s.asking, Who(c)))
         /\ c.kind = "deny" => Amended(s, t, s.member, s.invited, Without(s.asking, c.target))
         /\ c.kind = "look" => Amended(s, t, s.member, s.invited, s.asking)
         /\ c.kind = "policy" => t = [s EXCEPT !.policy = c.policy]
<1> DEFINE t == ApplyActions(s, c)
           w == Who(c)
<1>1. /\ w \in Accounts /\ c.target \in Accounts /\ c.role \in Roles /\ 0 \in Roles /\ c.by \in Devices
      /\ s.member \in Rosters /\ s.invited \in Rosters /\ s.asking \in Askers
  BY WhoIs DEF Changes, Roles, Servers
<1>2. c.kind # "none"  BY DEF Eligible
<1>3. CASE c.kind = "invite"  BY <1>1, <1>3, TableOps DEF ApplyActions
<1>4. CASE c.kind = "promote"
  <2>1. w \in DOMAIN s.invited /\ s.invited[w] \in Roles  BY <1>1, <1>4, RosterShape DEF Eligible, SelfKinds
  <2> DEFINE s1 == DeleteInvite(s, w)
             s2 == InsertMember(s1, w, s.invited[w])
  <2>2. Amended(s, s1, s.member, Without(s.invited, w), s.asking)  BY <1>1, TableOps
  <2>5. t = InsertName(s2, c.by)  BY <1>4 DEF ApplyActions, Promoted
  <2> HIDE DEF s1, t
  <2>3. Amended(s1, s2, With(s1.member, w, s.invited[w]), s1.invited, s1.asking)
    <3>1. s1 \in Servers  BY <2>2 DEF Amended
    <3> QED  BY <1>1, <2>1, <3>1, TableOps
  <2> HIDE DEF s2
  <2>4. Amended(s2, InsertName(s2, c.by), s2.member, s2.invited, s2.asking)
    <3>1. s2 \in Servers  BY <2>3 DEF Amended
    <3> QED  BY <1>1, <3>1, TableOps
  <2>6. Amended(s, t, With(s.member, w, s.invited[w]), Without(s.invited, w), s.asking)
    BY <2>2, <2>3, <2>4, <2>5 DEF Amended
  <2> QED  BY <1>4, <2>1, <2>6 DEF t
<1>5. CASE c.kind = "decline"  BY <1>1, <1>5, TableOps DEF ApplyActions
<1>6. ASSUME NEW x \in Accounts, t = Dropped(s, x)
      PROVE  Amended(s, t, Without(s.member, x), Without(s.invited, x), Without(s.asking, x))
  <2> DEFINE s1 == DeleteMember(s, x)
             s2 == DeleteInvite(s1, x)
  <2>1. Amended(s, s1, Without(s.member, x), s.invited, s.asking)  BY <1>1, TableOps
  <2>2. Amended(s1, s2, s1.member, Without(s1.invited, x), s1.asking)
    BY <1>1, <2>1, TableOps DEF Amended
  <2>3. Amended(s2, DeleteAsking(s2, x), s2.member, s2.invited, Without(s2.asking, x))
    BY <1>1, <2>2, TableOps DEF Amended
  <2>4. t = DeleteAsking(s2, x)  BY <1>6 DEF Dropped
  <2> HIDE DEF s1, s2, t
  <2> QED  BY <2>1, <2>2, <2>3, <2>4 DEF Amended
<1>7. CASE c.kind = "remove"
  <2>1. t = Dropped(s, c.target)  BY <1>7 DEF ApplyActions
  <2> HIDE DEF t
  <2>2. Amended(s, t, Without(s.member, c.target), Without(s.invited, c.target),
                Without(s.asking, c.target))  BY <1>1, <1>6, <2>1
  <2> QED  BY <1>7, <2>2 DEF t
<1>8. CASE c.kind = "leave"
  <2>1. t = Dropped(s, w)  BY <1>8 DEF ApplyActions
  <2> HIDE DEF t
  <2>2. Amended(s, t, Without(s.member, w), Without(s.invited, w), Without(s.asking, w))
    BY <1>1, <1>6, <2>1
  <2> QED  BY <1>8, <2>2 DEF t
<1>9. CASE c.kind = "role"
  <2>1. t = SetRole(s, c.target, c.role)  BY <1>9 DEF ApplyActions
  <2>2. CASE c.target \in DOMAIN s.member
    <3> DEFINE m == [s.member EXCEPT ![c.target] = c.role]
    <3>1. m \in Rosters  BY <1>1, <2>2, RosterUpdated
    <3>2. t = [s EXCEPT !.member = m]  BY <2>1, <2>2 DEF SetRole, Servers
    <3> HIDE DEF m, t
    <3>3. Amended(s, t, m, s.invited, s.asking)  BY <3>1, <3>2 DEF Amended, Servers
    <3> QED  BY <1>9, <2>2, <3>3 DEF t, m
  <2>3. CASE c.target \notin DOMAIN s.member
    <3>1. t = s  BY <2>1, <2>3 DEF SetRole
    <3> HIDE DEF t
    <3>2. Amended(s, t, s.member, s.invited, s.asking)  BY <3>1 DEF Amended
    <3> QED  BY <1>9, <2>3, <3>2 DEF t
  <2> QED  BY <2>2, <2>3
<1>10. CASE c.kind = "join"
  <2>1. CASE s.policy.join = "open"
    <3> DEFINE s1 == InsertMember(s, w, 0)
    <3>1. Amended(s, s1, With(s.member, w, 0), s.invited, s.asking)  BY <1>1, TableOps
    <3>3. t = InsertName(s1, c.by)  BY <1>10, <2>1 DEF ApplyActions, Joined
    <3> HIDE DEF s1, t
    <3>2. Amended(s1, InsertName(s1, c.by), s1.member, s1.invited, s1.asking)
      <4>1. s1 \in Servers  BY <3>1 DEF Amended
      <4> QED  BY <1>1, <4>1, TableOps
    <3>4. Amended(s, t, With(s.member, w, 0), s.invited, s.asking)
      BY <3>1, <3>2, <3>3 DEF Amended
    <3> QED  BY <1>10, <3>4 DEF t
  <2>2. CASE s.policy.join # "open"
    <3>1. t = InsertAsking(s, w, c.by)  BY <1>10, <2>2 DEF ApplyActions, Joined
    <3> QED  BY <1>1, <1>10, <3>1, TableOps
  <2> QED  BY <2>1, <2>2
<1>11. CASE c.kind = "approve"
  <2> DEFINE x == c.target
             s1 == DeleteAsking(s, x)
             s2 == InsertMember(s1, x, 0)
  <2>1. s.asking[x] \in Devices  BY <1>1, <1>11, AskerOps DEF Refused
  <2>2. Amended(s, s1, s.member, s.invited, Without(s.asking, x))  BY <1>1, TableOps
  <2>5. t = InsertName(s2, s.asking[x])  BY <1>11 DEF ApplyActions, Approved
  <2> HIDE DEF s1, t
  <2>3. Amended(s1, s2, With(s1.member, x, 0), s1.invited, s1.asking)
    <3>1. s1 \in Servers  BY <2>2 DEF Amended
    <3> QED  BY <1>1, <3>1, TableOps
  <2> HIDE DEF s2
  <2>4. Amended(s2, InsertName(s2, s.asking[x]), s2.member, s2.invited, s2.asking)
    <3>1. s2 \in Servers  BY <2>3 DEF Amended
    <3> QED  BY <1>1, <2>1, <3>1, TableOps
  <2>6. Amended(s, t, With(s.member, x, 0), s.invited, Without(s.asking, x))
    BY <2>2, <2>3, <2>4, <2>5 DEF Amended
  <2> QED  BY <1>11, <2>6 DEF t
<1>12. CASE c.kind \in {"cancel", "deny"}  BY <1>1, <1>12, TableOps DEF ApplyActions
<1>13. CASE c.kind = "look"  BY <1>13 DEF ApplyActions, Amended
<1>14. CASE c.kind = "policy"  BY <1>14 DEF ApplyActions, UpdatePolicy
<1>15. c.kind \in AllKinds  BY <1>2 DEF Changes
<1> QED
  BY <1>3, <1>4, <1>5, <1>7, <1>8, <1>9, <1>10, <1>11, <1>12, <1>13, <1>14, <1>15 DEF AllKinds

\* A change that is applied leaves the revision and the state alone, and the
\* policy too unless it sets one.
LEMMA ApplyTyped ==
  ASSUME NEW s \in Servers, NEW c \in Changes, Eligible(s, c), ~Refused(s, c)
  PROVE  LET t == ApplyActions(s, c) IN t \in Servers /\ t.rev = s.rev /\ t.blob = s.blob
<1> DEFINE t == ApplyActions(s, c)
<1>1. c.kind \in AllKinds  BY ApplyShape DEF Changes
<1>2. CASE c.kind = "policy"
  <2>1. t = [s EXCEPT !.policy = c.policy] /\ c.policy \in Policies  BY <1>2, ApplyShape DEF Changes
  <2> HIDE DEF t
  <2>2. t \in Servers /\ t.rev = s.rev /\ t.blob = s.blob  BY <2>1 DEF Servers
  <2> QED  BY <2>2 DEF t
<1>3. CASE c.kind # "policy"
  <2>1. \E m, i, a : Amended(s, t, m, i, a)  BY <1>1, <1>3, ApplyShape DEF AllKinds
  <2> QED  BY <2>1 DEF Amended
<1> QED  BY <1>2, <1>3

\* Two rosters say the same about an account.
SameAt(f, g, x) == (x \in DOMAIN f <=> x \in DOMAIN g) /\ (x \in DOMAIN f => f[x] = g[x])

LEMMA SameAtOps ==
  ASSUME NEW f \in Rosters, NEW g \in Rosters, NEW x \in Accounts, SameAt(f, g, x),
         NEW y \in Accounts, NEW u \in Roles, NEW v \in Roles, u = v \/ x # y
  PROVE  /\ SameAt(With(f, y, u), With(g, y, v), x) /\ SameAt(Without(f, y), Without(g, y), x)
         /\ x # y => SameAt(With(f, y, u), g, x)
<1>1. \A h \in Rosters : \A r \in Roles :
         /\ x \in DOMAIN With(h, y, r) <=> x = y \/ x \in DOMAIN h
         /\ x \in DOMAIN With(h, y, r) => With(h, y, r)[x] = IF x = y THEN r ELSE h[x]
         /\ x \in DOMAIN Without(h, y) <=> x # y /\ x \in DOMAIN h
         /\ x \in DOMAIN Without(h, y) => Without(h, y)[x] = h[x]
  BY DEF With, Without
<1> QED  BY <1>1 DEF SameAt

\* The server's tables and the encrypted state agree about an account.
Agree(s, b, x) == SameAt(s.member, b.mem, x) /\ SameAt(s.invited, b.inv, x)

\* They still do once both have made the change, except about who comes in
\* through a link.
LEMMA RostersAgree ==
  ASSUME NEW s \in Servers, NEW b \in Blobs, NEW c \in Changes, Eligible(s, c), ~Refused(s, c),
         NEW x \in Accounts, Agree(s, b, x), c.kind = "join" => x # Who(c)
  PROVE  Agree(ApplyActions(s, c), Effect(b, c), x)
<1> DEFINE t == ApplyActions(s, c)
           e == Effect(b, c)
           w == Who(c)
<1>1. /\ w \in Accounts /\ c.target \in Accounts /\ c.role \in Roles /\ 0 \in Roles
      /\ s.member \in Rosters /\ s.invited \in Rosters /\ b.mem \in Rosters /\ b.inv \in Rosters
  BY WhoIs DEF Changes, Roles, Servers, Blobs
<1>0. SameAt(s.member, b.mem, x) /\ SameAt(s.invited, b.inv, x)  BY DEF Agree
<1>2. c.kind \in AllKinds  BY ApplyShape DEF Changes
<1>3. CASE c.kind = "invite"
  <2>1. t.member = s.member /\ t.invited = With(s.invited, c.target, c.role)
    BY <1>3, ApplyShape DEF Amended
  <2>2. e.mem = b.mem /\ e.inv = With(b.inv, c.target, c.role)
    BY <1>3 DEF Effect, Edited, InviteMember, Blobs
  <2> HIDE DEF t, e
  <2>3. Agree(t, e, x)  BY <1>1, <1>0, <2>1, <2>2, SameAtOps DEF Agree
  <2> QED  BY <2>3 DEF t, e
<1>4. CASE c.kind = "promote"
  <2>1. /\ w \in DOMAIN s.invited /\ t.invited = Without(s.invited, w)
        /\ t.member = With(s.member, w, s.invited[w])
    BY <1>4, ApplyShape DEF Amended
  <2>2. s.invited[w] \in Roles  BY <1>1, <2>1, RosterShape
  <2> DEFINE v == IF w \in DOMAIN b.inv THEN b.inv[w] ELSE 0
  <2>3. v \in Roles /\ (x = w => v = s.invited[w])
    BY <1>0, <1>1, <2>1, RosterShape DEF SameAt
  <2>4. e.mem = With(b.mem, w, v) /\ e.inv = Without(b.inv, w)
    BY <1>4 DEF Effect, Edited, AcceptInvite, Blobs
  <2> HIDE DEF t, e, v
  <2>5. SameAt(t.member, e.mem, x) /\ SameAt(t.invited, e.inv, x)
    BY <1>0, <1>1, <2>1, <2>2, <2>3, <2>4, SameAtOps
  <2> QED  BY <2>5 DEF t, e, Agree
<1>5. CASE c.kind = "decline"
  <2>1. t.member = s.member /\ t.invited = Without(s.invited, w)  BY <1>5, ApplyShape DEF Amended
  <2>2. e.mem = b.mem /\ e.inv = Without(b.inv, w)
    BY <1>5 DEF Effect, Edited, DeclineInvite, Blobs
  <2> HIDE DEF t, e
  <2>3. Agree(t, e, x)  BY <1>1, <1>0, <2>1, <2>2, SameAtOps DEF Agree
  <2> QED  BY <2>3 DEF t, e
<1>6. CASE c.kind = "remove"
  <2>1. t.member = Without(s.member, c.target) /\ t.invited = Without(s.invited, c.target)
    BY <1>6, ApplyShape DEF Amended
  <2>2. e.mem = Without(b.mem, c.target) /\ e.inv = Without(b.inv, c.target)
    BY <1>6 DEF Effect, Edited, RemoveMember, Blobs
  <2> HIDE DEF t, e
  <2>3. Agree(t, e, x)  BY <1>1, <1>0, <2>1, <2>2, SameAtOps DEF Agree
  <2> QED  BY <2>3 DEF t, e
<1>7. CASE c.kind = "leave"
  <2>1. t.member = Without(s.member, w) /\ t.invited = Without(s.invited, w)
    BY <1>7, ApplyShape DEF Amended
  <2>2. e.mem = Without(b.mem, w) /\ e.inv = Without(b.inv, w)
    BY <1>7 DEF Effect, Edited, LeaveGroup, Blobs
  <2> HIDE DEF t, e
  <2>3. Agree(t, e, x)  BY <1>1, <1>0, <2>1, <2>2, SameAtOps DEF Agree
  <2> QED  BY <2>3 DEF t, e
<1>8. CASE c.kind = "role"
  <2>1. /\ t.invited = s.invited
        /\ t.member = IF c.target \in DOMAIN s.member
                      THEN [s.member EXCEPT ![c.target] = c.role] ELSE s.member
    BY <1>8, ApplyShape DEF Amended
  <2>2. /\ e.inv = b.inv
        /\ e.mem = IF c.target \in DOMAIN b.mem
                   THEN [b.mem EXCEPT ![c.target] = c.role] ELSE b.mem
    BY <1>8 DEF Effect, Edited, ChangeRole, Blobs
  <2> HIDE DEF t, e
  <2>3. /\ DOMAIN t.member = DOMAIN s.member /\ DOMAIN e.mem = DOMAIN b.mem
        /\ x \in DOMAIN t.member => t.member[x] = IF x = c.target THEN c.role ELSE s.member[x]
        /\ x \in DOMAIN e.mem => e.mem[x] = IF x = c.target THEN c.role ELSE b.mem[x]
    BY <1>1, <2>1, <2>2, RosterShape
  <2>4. Agree(t, e, x)  BY <1>0, <2>1, <2>2, <2>3 DEF Agree, SameAt
  <2> QED  BY <2>4 DEF t, e
<1>9. CASE c.kind = "join"
  <2>1. /\ t.invited = s.invited
        /\ t.member = With(s.member, w, 0) \/ t.member = s.member
    BY <1>9, ApplyShape DEF Amended
  <2>2. e.mem = b.mem /\ e.inv = b.inv  BY <1>9 DEF Effect, Edited, Blobs
  <2> HIDE DEF t, e
  <2>3. Agree(t, e, x)  BY <1>1, <1>0, <1>9, <2>1, <2>2, SameAtOps DEF Agree
  <2> QED  BY <2>3 DEF t, e
<1>10. CASE c.kind = "approve"
  <2>1. t.member = With(s.member, c.target, 0) /\ t.invited = s.invited
    BY <1>10, ApplyShape DEF Amended
  <2>2. e.mem = With(b.mem, c.target, 0) /\ e.inv = b.inv
    BY <1>10 DEF Effect, Edited, ApproveJoinRequest, Blobs
  <2> HIDE DEF t, e
  <2>3. Agree(t, e, x)  BY <1>1, <1>0, <2>1, <2>2, SameAtOps DEF Agree
  <2> QED  BY <2>3 DEF t, e
<1>11. CASE c.kind \in {"cancel", "deny", "look", "policy"}
  <2>1. t.member = s.member /\ t.invited = s.invited
    <3>1. CASE c.kind # "policy"  BY <1>11, <3>1, ApplyShape DEF Amended
    <3>2. CASE c.kind = "policy"
      <4>1. t = [s EXCEPT !.policy = c.policy]  BY <3>2, ApplyShape
      <4> HIDE DEF t
      <4> QED  BY <4>1 DEF Servers
    <3> QED  BY <3>1, <3>2
  <2>2. e.mem = b.mem /\ e.inv = b.inv  BY <1>11 DEF Effect, Edited, SetLook, Blobs
  <2> HIDE DEF t, e
  <2>3. Agree(t, e, x)  BY <1>0, <2>1, <2>2 DEF Agree
  <2> QED  BY <2>3 DEF t, e
<1> QED
  BY <1>2, <1>3, <1>4, <1>5, <1>6, <1>7, <1>8, <1>9, <1>10, <1>11 DEF AllKinds

----------------------------------------------------------------------------
(* Past revisions never change *)

LEMMA StatesTyped ==
  ASSUME TypeOK, NEW r \in 0..srv.rev
  PROVE  History[r] = StateAt(r) /\ History[r] \in Blobs
<1>1. History[r] = StateAt(r)  BY DEF History
<1>2. CASE r = srv.rev  BY <1>1, <1>2 DEF StateAt, TypeOK, Servers
<1>3. CASE r # srv.rev
  <2>1. r + 1 \in 1..Len(log)  BY <1>3 DEF TypeOK, Servers
  <2>2. log[r + 1] \in LogRows  BY <2>1, ElementOfSeq DEF TypeOK
  <2> QED  BY <1>1, <1>3, <2>2 DEF StateAt, LogRows
<1> QED  BY <1>2, <1>3

\* The history goes on from where it was.
PastKept ==
    /\ srv'.rev >= srv.rev /\ \A r \in 0..srv.rev : History'[r] = History[r]
    /\ \A i \in 1..srv.rev : log'[i] = log[i]
    /\ srv'.rev = srv.rev => srv'.policy = srv.policy

LEMMA StillFits ==
  ASSUME TypeOK, TypeOK', PastKept
  PROVE  /\ \A o \in Ops : Fits(o) => Fits(o)'
         /\ \A row \in CachedRows : RowFits(row) => RowFits(row)'
         /\ \A c \in Copies : ReadFits(c) => ReadFits(c)'
         /\ \A e \in EventLines : LineFits(e) => LineFits(e)'
<1>1. srv.rev \in Nat /\ srv'.rev \in Nat  BY DEF TypeOK, Servers
<1>2. ASSUME NEW c, c.rev \in Nat, IsCopy(c)  PROVE IsCopy(c)'
  BY <1>1, <1>2 DEF IsCopy, PastKept
<1>3. ASSUME NEW o \in Ops, Fits(o)  PROVE Fits(o)'
  <2>1. o.rev \in Nat /\ o.got.rev \in Nat /\ Len(o.rows) \in Nat  BY DEF Ops, Copies
  <2>2. o.at \in {"asked", "checked"} =>
          /\ o.rev \in 1..(srv'.rev + 1) /\ o.blob = Effect(History'[o.rev - 1], o.change)
    BY <1>1, <1>3, <2>1 DEF Fits, PastKept
  <2>3. (o.at = "checked" /\ o.rev = srv'.rev + 1) => o.policy = srv'.policy
    BY <1>1, <1>3, <2>1 DEF Fits, PastKept
  <2>4. o.at = "ok" =>
          /\ o.rev \in 1..srv'.rev /\ o.blob = History'[o.rev] /\ log'[o.rev].change = o.change
    BY <1>1, <1>3, <2>1 DEF Fits, PastKept
  <2>5. o.at \in {"got", "derive"} => IsCopy(o.got)'  BY <1>2, <1>3, <2>1 DEF Fits
  <2>6. ASSUME NEW i \in 1..Len(o.rows)
        PROVE  o.rev + i \in 1..srv'.rev /\ o.rows[i] = log'[o.rev + i]
    BY <1>1, <1>3, <2>1, <2>6 DEF Fits, PastKept
  <2> QED  BY <2>2, <2>3, <2>4, <2>5, <2>6 DEF Fits
<1>4. ASSUME NEW row \in CachedRows, RowFits(row)  PROVE RowFits(row)'
  BY <1>2, <1>4 DEF RowFits, CachedRows
<1>5. ASSUME NEW c \in Copies, ReadFits(c)  PROVE ReadFits(c)'
  BY <1>2, <1>5 DEF ReadFits, Copies
<1>6. ASSUME NEW e \in EventLines, LineFits(e)  PROVE LineFits(e)'
  BY <1>1, <1>6 DEF LineFits, PastKept, EventLines
<1> QED  BY <1>3, <1>4, <1>5, <1>6

\* What one device does moves its own state; the others stay as they were.
LEMMA DevicesFit ==
  ASSUME TypeOK, TypeOK', PastKept, \A e \in Devices : DeviceFits(e), NEW d \in Devices,
         NEW o \in Ops, op' = [op EXCEPT ![d] = o], Fits(o)',
         NEW row \in CachedRows, cache' = [cache EXCEPT ![d] = row], RowFits(row)',
         NEW c \in Copies, bg' = [bg EXCEPT ![d] = c], ReadFits(c)',
         NEW L \in SUBSET EventLines, shown' = [shown EXCEPT ![d] = L], \A e \in L : LineFits(e)'
  PROVE  \A e \in Devices : DeviceFits(e)'
<1> TAKE e \in Devices
<1>1. /\ op[e] \in Ops /\ cache[e] \in CachedRows /\ bg[e] \in Copies /\ shown[e] \subseteq EventLines
      /\ DeviceFits(e)
  BY DEF TypeOK
<1>2. CASE e = d
  <2>1. op'[e] = o /\ cache'[e] = row /\ bg'[e] = c /\ shown'[e] = L  BY <1>2 DEF TypeOK
  <2>2. Fits(op[e])'  BY <2>1 DEF Fits, IsCopy
  <2>3. RowFits(cache[e])'  BY <2>1 DEF RowFits, IsCopy
  <2>4. ReadFits(bg[e])'  BY <2>1 DEF ReadFits, IsCopy
  <2>5. (\A f \in shown[e] : LineFits(f))'  BY <2>1
  <2> QED  BY <2>2, <2>3, <2>4, <2>5 DEF DeviceFits
<1>3. CASE e # d
  <2>1. op'[e] = op[e] /\ cache'[e] = cache[e] /\ bg'[e] = bg[e] /\ shown'[e] = shown[e]
    BY <1>3 DEF TypeOK
  <2>2. PICK o1 \in Ops : o1 = op[e]  BY <1>1
  <2>3. PICK row1 \in CachedRows : row1 = cache[e]  BY <1>1
  <2>4. PICK c1 \in Copies : c1 = bg[e]  BY <1>1
  <2>5. PICK L1 \in SUBSET EventLines : L1 = shown[e]  BY <1>1
  <2>6. Fits(o1) /\ RowFits(row1) /\ ReadFits(c1) /\ \A f \in L1 : LineFits(f)
    BY <1>1, <2>2, <2>3, <2>4, <2>5 DEF DeviceFits
  <2>7. Fits(o1)' /\ RowFits(row1)' /\ ReadFits(c1)' /\ \A f \in L1 : LineFits(f)'
    BY <2>6, StillFits
  <2>8. Fits(op[e])'  BY <2>1, <2>2, <2>7 DEF Fits, IsCopy
  <2>9. RowFits(cache[e])'  BY <2>1, <2>3, <2>7 DEF RowFits, IsCopy
  <2>10. ReadFits(bg[e])'  BY <2>1, <2>4, <2>7 DEF ReadFits, IsCopy
  <2>11. (\A f \in shown[e] : LineFits(f))'  BY <2>1, <2>5, <2>7
  <2> QED  BY <2>8, <2>9, <2>10, <2>11 DEF DeviceFits
<1> QED  BY <1>2, <1>3

----------------------------------------------------------------------------
(* Steps that leave the revision alone *)

\* At most the pseudonyms move on the server.
Quiet ==
    /\ srv' \in Servers /\ srv'.rev = srv.rev /\ srv'.blob = srv.blob
    /\ srv'.policy = srv.policy /\ srv'.member = srv.member /\ srv'.invited = srv.invited
    /\ log' = log

LEMMA UnchangedIsQuiet == ASSUME TypeOK, UNCHANGED server  PROVE Quiet
BY DEF TypeOK, server, Quiet

LEMMA QuietKeeps ==
  ASSUME TypeOK, GroupInv, Quiet
  PROVE  PastKept /\ ChangesChain' /\ RosterMatches'
<1>1. srv.rev \in Nat  BY DEF TypeOK, Servers
<1>2. \A r : StateAt(r)' = StateAt(r)  BY DEF StateAt, Quiet
<1>3. History' = History  BY <1>2 DEF History, Quiet
<1>4. PastKept  BY <1>1, <1>3 DEF PastKept, Quiet
<1>5. ChangesChain'
  BY <1>2 DEF Quiet, GroupInv, ChangesChain
<1>6. LinkJoiners' = LinkJoiners  BY DEF Quiet, LinkJoiners
<1>7. RosterMatches'  BY <1>6 DEF Quiet, GroupInv, RosterMatches
<1> QED  BY <1>4, <1>5, <1>7

\* So it is enough to look at what the device that acts is left with.
LEMMA DeviceActs ==
  ASSUME TypeOK, GroupInv, Quiet, srv.blob # NoBlob, NEW d \in Devices,
         NEW o \in Ops, op' = [op EXCEPT ![d] = o], Fits(o),
         NEW row \in CachedRows, cache' = [cache EXCEPT ![d] = row], RowFits(row),
         NEW c \in Copies, bg' = [bg EXCEPT ![d] = c], ReadFits(c),
         NEW L \in SUBSET EventLines, shown' = [shown EXCEPT ![d] = L], \A e \in L : LineFits(e),
         held' \in [Devices -> BOOLEAN], mail' \subseteq Devices, upsets' \in Nat
  PROVE  TypeOK' /\ GroupInv'
<1>1. TypeOK'
  <2>1. /\ op' \in [Devices -> Ops] /\ cache' \in [Devices -> CachedRows]
        /\ bg' \in [Devices -> Copies] /\ shown' \in [Devices -> SUBSET EventLines]
    BY DEF TypeOK
  <2>2. srv' \in Servers /\ log' \in Seq(LogRows) /\ Len(log') = srv'.rev
    BY DEF TypeOK, Quiet
  <2> QED  BY <2>1, <2>2 DEF TypeOK
<1>2. PastKept /\ ChangesChain' /\ RosterMatches'  BY QuietKeeps
<1>3. Fits(o)' /\ RowFits(row)' /\ ReadFits(c)' /\ \A e \in L : LineFits(e)'
  BY <1>1, <1>2, StillFits
<1>4. (\A e \in Devices : DeviceFits(e)')  BY <1>1, <1>2, <1>3, DevicesFit DEF GroupInv
<1>5. NotYetMade'  BY DEF NotYetMade, Quiet
<1> QED  BY <1>1, <1>2, <1>4, <1>5 DEF GroupInv

\* Whoever has, hears or does anything of the group: it has been made.
LEMMA Made ==
  ASSUME GroupInv, NEW d \in Devices,
         op[d].at # "idle" \/ Has(d) \/ held[d] \/ bg[d] # NoCopy \/ d \in mail
  PROVE  srv.blob # NoBlob
BY DEF GroupInv, NotYetMade, Untouched, Idle

\* A step that only moves the device's operation, and may lose a reply.
LEMMA OpMoves ==
  ASSUME TypeOK, GroupInv, srv.blob # NoBlob, NEW d \in Devices,
         NEW o \in Ops, Goes(d, o), Fits(o), UNCHANGED <<server, device, bg, mail>>, upsets' \in Nat
  PROVE  TypeOK' /\ GroupInv'
<1>1. /\ cache[d] \in CachedRows /\ bg[d] \in Copies /\ shown[d] \in SUBSET EventLines
      /\ RowFits(cache[d]) /\ ReadFits(bg[d]) /\ \A e \in shown[d] : LineFits(e)
  BY DEF TypeOK, GroupInv, DeviceFits
<1>2. /\ op' = [op EXCEPT ![d] = o] /\ cache' = [cache EXCEPT ![d] = cache[d]]
      /\ bg' = [bg EXCEPT ![d] = bg[d]] /\ shown' = [shown EXCEPT ![d] = shown[d]]
      /\ held' \in [Devices -> BOOLEAN] /\ mail' \subseteq Devices
  BY DEF TypeOK, Goes, device
<1>3. Quiet  BY UnchangedIsQuiet
<1> QED  BY <1>1, <1>2, <1>3, DeviceActs

\* A step that moves the operation and the cached row.
LEMMA RowMoves ==
  ASSUME TypeOK, GroupInv, Quiet, srv.blob # NoBlob, NEW d \in Devices,
         NEW o \in Ops, Goes(d, o), Fits(o),
         NEW row \in CachedRows, cache' = [cache EXCEPT ![d] = row], RowFits(row),
         UNCHANGED <<shown, bg, upsets>>, held' \in [Devices -> BOOLEAN], mail' \subseteq Devices
  PROVE  TypeOK' /\ GroupInv'
<1>1. /\ bg[d] \in Copies /\ shown[d] \in SUBSET EventLines
      /\ ReadFits(bg[d]) /\ \A e \in shown[d] : LineFits(e)
  BY DEF TypeOK, GroupInv, DeviceFits
<1>2. /\ op' = [op EXCEPT ![d] = o]
      /\ bg' = [bg EXCEPT ![d] = bg[d]] /\ shown' = [shown EXCEPT ![d] = shown[d]]
      /\ upsets' \in Nat
  BY DEF TypeOK, Goes
<1> QED  BY <1>1, <1>2, DeviceActs

----------------------------------------------------------------------------
(* What operations and rows are made of *)

LEMMA NoOpFits ==
  ASSUME TypeOK, NEW d \in Devices
  PROVE  /\ NoOp(d) \in Ops /\ Fits(NoOp(d)) /\ NoOp(d).rows = << >> /\ NoOp(d).at = "idle"
         /\ NoOp(d).change = NoChange(d) /\ NoChange(d) \in Changes /\ NoOp(d).after = "keep"
<1>1. NoChange(d) \in Changes
  BY EmptyValues DEF NoChange, Plain, Change, Changes, Roles, Accounts
<1>2. << >> \in Seq(LogRows) /\ Len(<< >>) = 0  BY EmptySeq
<1>3. NoOp(d) \in Ops  BY <1>1, <1>2, EmptyValues DEF NoOp, Ops, Stages
<1>4. Fits(NoOp(d))  BY <1>2 DEF Fits, NoOp
<1> QED  BY <1>1, <1>3, <1>4 DEF NoOp

\* An operation that has no rows of the log and is at a stage that carries
\* nothing fits.
CarriesNothing == {"idle", "conflict", "denied", "failed", "get", "bind", "may bind", "bound"}
LEMMA LightFits ==
  ASSUME TypeOK, NEW o \in Ops, o.at \in CarriesNothing,
         \/ o.rows = << >>
         \/ \A i \in 1..Len(o.rows) : o.rev + i \in 1..srv.rev /\ o.rows[i] = log[o.rev + i]
  PROVE  Fits(o)
<1>1. CASE o.rows = << >>
  <2>1. \A i \in 1..Len(o.rows) : FALSE  BY <1>1, EmptySeq
  <2> QED  BY <2>1 DEF Fits, CarriesNothing
<1>2. CASE o.rows # << >>  BY <1>2 DEF Fits, CarriesNothing
<1> QED  BY <1>1, <1>2

LEMMA EndedFits ==
  ASSUME TypeOK, NEW o \in Ops, NEW how \in CarriesNothing
  PROVE  /\ Ended(o, how) \in Ops /\ Fits(Ended(o, how))
         /\ how = "conflict" => Conflict(o) \in Ops /\ Fits(Conflict(o))
<1> DEFINE n == NoOp(o.change.by)
           e == Ended(o, how)
<1>1. o.change.by \in Devices  BY DEF Ops, Changes
<1>2. n \in Ops /\ n.rows = << >>  BY <1>1, NoOpFits
<1>3. e = [n EXCEPT !.at = how, !.after = o.after]  BY DEF Ended
<1> HIDE DEF n, e
<1>4. e \in Ops /\ e.rows = << >> /\ e.at = how
  BY <1>2, <1>3 DEF Ops, CarriesNothing, Stages
<1>5. Fits(e)  BY <1>4, LightFits
<1>6. ASSUME how = "conflict"  PROVE Conflict(o) \in Ops /\ Fits(Conflict(o))
  <2> DEFINE f == Conflict(o)
  <2>1. f = [e EXCEPT !.change = o.change, !.try = o.try]  BY <1>6 DEF Conflict, e
  <2> HIDE DEF f
  <2>2. f \in Ops /\ f.rows = << >> /\ f.at = "conflict"  BY <1>4, <1>6, <2>1 DEF Ops
  <2>3. Fits(f)  BY <2>2, LightFits DEF CarriesNothing
  <2> QED  BY <2>2, <2>3 DEF f
<1> QED  BY <1>4, <1>5, <1>6 DEF e

LEMMA RowOps ==
  ASSUME TypeOK, NEW row \in CachedRows, NEW c \in Copies
  PROVE  /\ NoRow \in CachedRows /\ RowFits(NoRow) /\ NewRow \in CachedRows /\ RowFits(NewRow)
         /\ UpdateRow(row, c.rev, c.blob) \in CachedRows
         /\ IsCopy(c) => RowFits(UpdateRow(row, c.rev, c.blob))
         /\ UpdateRow(row, c.rev, c.blob).row = row.row
         /\ row.row => (UpdateRow(row, c.rev, c.blob).blob = c.blob
                        /\ UpdateRow(row, c.rev, c.blob).rev = c.rev)
<1>1. NoRow \in CachedRows /\ NoRow.blob = NoBlob  BY EmptyValues DEF NoRow, CachedRows
<1>2. NewRow = [NoRow EXCEPT !.row = TRUE]  BY DEF NewRow
<1>3. NewRow \in CachedRows /\ NewRow.blob = NoBlob  BY <1>1, <1>2 DEF CachedRows
<1> DEFINE u == UpdateRow(row, c.rev, c.blob)
<1>4. CASE row.row
  <2>1. u = [row EXCEPT !.rev = c.rev, !.blob = c.blob]  BY <1>4 DEF UpdateRow
  <2> HIDE DEF u
  <2>2. u \in CachedRows /\ u.rev = c.rev /\ u.blob = c.blob /\ u.row = row.row
    BY <2>1 DEF CachedRows, Copies
  <2>3. IsCopy(c) => RowFits(u)  BY <2>2 DEF RowFits, IsCopy
  <2> QED  BY <1>1, <1>3, <2>2, <2>3 DEF RowFits, u
<1>5. CASE ~row.row
  <2>1. u = row  BY <1>5 DEF UpdateRow
  <2> HIDE DEF u
  <2>2. RowFits(u)  BY <1>5, <2>1 DEF RowFits
  <2> QED  BY <1>1, <1>3, <1>5, <2>1, <2>2 DEF RowFits, u
<1> QED  BY <1>4, <1>5

\* A request is for the next revision of the row, and made of its state.
LEMMA RequestFits ==
  ASSUME TypeOK, NEW d \in Devices, NEW row \in CachedRows, RowFits(row), NEW o \in Ops,
         o.rows = << >>, NEW c \in Changes
  PROVE  Request(d, row, o, c) \in Ops /\ Fits(Request(d, row, o, c))
<1>1. CASE row.row /\ row.blob # NoBlob
  <2> DEFINE r == Request(d, row, o, c)
  <2>1. r = [o EXCEPT !.at = "asked", !.change = c, !.rev = row.rev + 1,
                      !.blob = Effect(row.blob, c), !.got = NoCopy]
    BY <1>1 DEF Request
  <2>2. row.rev \in 0..srv.rev /\ row.blob = History[row.rev] /\ srv.rev \in Nat
    BY <1>1 DEF RowFits, IsCopy, TypeOK, Servers
  <2>3. Effect(row.blob, c) \in Blobs /\ NoCopy \in Copies /\ row.rev + 1 \in Nat
    BY <2>2, EffectTyped, EmptyValues DEF CachedRows
  <2> HIDE DEF r
  <2>4. /\ r \in Ops /\ r.at = "asked" /\ r.change = c /\ r.rev = row.rev + 1 /\ r.rows = << >>
        /\ r.blob = Effect(row.blob, c)
    BY <2>1, <2>3 DEF Ops, Stages
  <2>5. \A i \in 1..Len(r.rows) : FALSE  BY <2>4, EmptySeq
  <2>6. r.rev \in 1..(srv.rev + 1) /\ r.rev - 1 = row.rev  BY <2>2, <2>4
  <2>7. Fits(r)  BY <2>2, <2>4, <2>5, <2>6 DEF Fits
  <2> QED  BY <2>4, <2>7 DEF r
<1>2. CASE ~(row.row /\ row.blob # NoBlob)
  <2>1. Request(d, row, o, c) = Ended(o, "failed")  BY <1>2 DEF Request
  <2>2. "failed" \in CarriesNothing  BY DEF CarriesNothing
  <2> QED  BY <2>1, <2>2, EndedFits
<1> QED  BY <1>1, <1>2

LEMMA ServerHasCopy == ASSUME TypeOK  PROVE Copy \in Copies /\ IsCopy(Copy)
<1>1. srv.rev \in Nat /\ srv.blob \in Blobs  BY DEF TypeOK, Servers
<1>2. History[srv.rev] = srv.blob  BY <1>1 DEF History, StateAt
<1> QED  BY <1>1, <1>2 DEF Copy, Copies, IsCopy

\* The lines of a page tell of the changes of its rows.
LEMMA LinesFit ==
  ASSUME TypeOK, NEW o \in Ops, NEW cur \in Copies,
         \A i \in 1..Len(o.rows) : o.rev + i \in 1..srv.rev /\ o.rows[i] = log[o.rev + i],
         NEW e \in Lines(o.rows, o.rev, cur)
  PROVE  e \in EventLines /\ LineFits(e)
<1>1. PICK i \in 1..Len(o.rows) :
        e = Line(o.rev + i, o.rows[i].change, PostState(o.rows, o.rev, i, cur))
  BY DEF Lines
<1>2. o.rows \in Seq(LogRows) /\ o.rev \in Nat /\ Len(o.rows) \in Nat  BY DEF Ops
<1>3. o.rows[i] \in LogRows  BY <1>2, ElementOfSeq
<1>4. i < Len(o.rows) => o.rows[i + 1] \in LogRows
  <2>1. i < Len(o.rows) => i + 1 \in 1..Len(o.rows)  BY <1>2
  <2> QED  BY <1>2, <2>1, ElementOfSeq
<1>5. PostState(o.rows, o.rev, i, cur) \in Blobs
  BY <1>4, EmptyValues DEF PostState, LogRows, Copies
<1>6. e \in EventLines  BY <1>1, <1>2, <1>3, <1>5 DEF Line, EventLines, LogRows, Changes, Blobs
<1>7. LineFits(e)  BY <1>1 DEF Line, LineFits
<1> QED  BY <1>6, <1>7

----------------------------------------------------------------------------
(* Steps of an operation *)

LEMMA DeviceNow ==
  ASSUME TypeOK, GroupInv, NEW d \in Devices
  PROVE  /\ op[d] \in Ops /\ Fits(op[d]) /\ cache[d] \in CachedRows /\ RowFits(cache[d])
         /\ bg[d] \in Copies /\ ReadFits(bg[d])
         /\ shown[d] \in SUBSET EventLines /\ \A e \in shown[d] : LineFits(e)
         /\ \A i \in 1..Len(op[d].rows) :
               op[d].rev + i \in 1..srv.rev /\ op[d].rows[i] = log[op[d].rev + i]
BY DEF TypeOK, GroupInv, DeviceFits, Fits

LEMMA ReadSnapshotKeeps ==
  ASSUME TypeOK, GroupInv, NEW d \in Devices, ReadSnapshot(d)
  PROVE  TypeOK' /\ GroupInv'
<1>1. srv.blob # NoBlob /\ upsets' \in Nat  BY Made DEF ReadSnapshot, TypeOK
<1>2. op[d] \in Ops /\ Fits(op[d]) /\ op[d].at = "asked"  BY DeviceNow DEF ReadSnapshot
<1>3. CASE op[d].rev = srv.rev + 1
  <2> DEFINE o == [op[d] EXCEPT !.at = "checked", !.policy = srv.policy]
  <2>1. Goes(d, o)  BY <1>3 DEF ReadSnapshot
  <2>2. /\ o \in Ops /\ o.at = "checked" /\ o.rev = op[d].rev /\ o.policy = srv.policy
        /\ o.change = op[d].change /\ o.blob = op[d].blob /\ o.rows = op[d].rows
    BY <1>2 DEF Ops, Stages, TypeOK, Servers
  <2> HIDE DEF o
  <2>3. Fits(o)  BY <1>2, <2>2 DEF Fits
  <2> QED  BY <1>1, <2>1, <2>2, <2>3, OpMoves DEF ReadSnapshot
<1>4. CASE op[d].rev # srv.rev + 1
  <2>1. Conflict(op[d]) \in Ops /\ Fits(Conflict(op[d]))  BY <1>2, EndedFits DEF CarriesNothing
  <2>2. Goes(d, Conflict(op[d]))  BY <1>4 DEF ReadSnapshot
  <2> QED  BY <1>1, <2>1, <2>2, OpMoves DEF ReadSnapshot
<1> QED  BY <1>3, <1>4

LEMMA RefusalKeeps ==
  ASSUME TypeOK, GroupInv, NEW d \in Devices,
         SubmitDenied(d) \/ SubmitConflicts(d) \/ ReplyLost(d)
  PROVE  TypeOK' /\ GroupInv'
<1>1. op[d].at # "idle"  BY DEF SubmitDenied, SubmitConflicts, ReplyLost
<1>2. srv.blob # NoBlob /\ upsets' \in Nat
  BY <1>1, Made DEF SubmitDenied, SubmitConflicts, ReplyLost, TypeOK
<1>3. /\ Ended(op[d], "denied") \in Ops /\ Fits(Ended(op[d], "denied"))
      /\ Ended(op[d], "failed") \in Ops /\ Fits(Ended(op[d], "failed"))
      /\ Conflict(op[d]) \in Ops /\ Fits(Conflict(op[d]))
  <2>1. op[d] \in Ops  BY DeviceNow
  <2>2. \A how \in CarriesNothing : Ended(op[d], how) \in Ops /\ Fits(Ended(op[d], how))
    BY <2>1, EndedFits
  <2>3. Conflict(op[d]) \in Ops /\ Fits(Conflict(op[d]))  BY <2>1, EndedFits DEF CarriesNothing
  <2> QED  BY <2>2, <2>3 DEF CarriesNothing
<1>4. UNCHANGED <<server, device, bg, mail>>  BY DEF SubmitDenied, SubmitConflicts, ReplyLost
<1>5. \E o \in Ops : Goes(d, o) /\ Fits(o)
  BY <1>3 DEF SubmitDenied, SubmitConflicts, ReplyLost
<1> QED  BY <1>2, <1>4, <1>5, OpMoves

LEMMA RetryKeeps ==
  ASSUME TypeOK, GroupInv, NEW d \in Devices, RetryAfterConflict(d)
  PROVE  TypeOK' /\ GroupInv'
<1> DEFINE o == [op[d] EXCEPT !.at = "get", !.try = 2]
<1>1. srv.blob # NoBlob /\ upsets' \in Nat  BY Made DEF RetryAfterConflict, TypeOK
<1>2. o \in Ops /\ o.at = "get" /\ o.rev = op[d].rev /\ o.rows = op[d].rows
  BY DeviceNow DEF Ops, Stages
<1>3. Goes(d, o)  BY DEF RetryAfterConflict
<1> HIDE DEF o
<1>4. Fits(o)  BY <1>2, DeviceNow, LightFits DEF CarriesNothing
<1> QED  BY <1>1, <1>2, <1>3, <1>4, OpMoves DEF RetryAfterConflict

LEMMA GetGroupKeeps ==
  ASSUME TypeOK, GroupInv, NEW d \in Devices, GetGroup(d)
  PROVE  TypeOK' /\ GroupInv'
<1>1. srv.blob # NoBlob /\ upsets' \in Nat  BY Made DEF GetGroup, TypeOK
<1>2. op[d] \in Ops /\ Fits(op[d])  BY DeviceNow
<1>3. CASE MayRead(Owner[d])
  <2> DEFINE o == [op[d] EXCEPT !.at = "got", !.got = Copy]
  <2>1. Goes(d, o)  BY <1>3 DEF GetGroup
  <2>2. /\ o \in Ops /\ o.at = "got" /\ o.got = Copy /\ o.rev = op[d].rev /\ o.rows = op[d].rows
    BY <1>2, ServerHasCopy DEF Ops, Stages
  <2> HIDE DEF o
  <2>3. Fits(o)  BY <1>2, <2>2, ServerHasCopy DEF Fits
  <2> QED  BY <1>1, <2>1, <2>2, <2>3, OpMoves DEF GetGroup
<1>4. CASE ~MayRead(Owner[d])
  <2>1. "failed" \in CarriesNothing  BY DEF CarriesNothing
  <2>2. Ended(op[d], "failed") \in Ops /\ Fits(Ended(op[d], "failed"))  BY <1>2, <2>1, EndedFits
  <2>3. Goes(d, Ended(op[d], "failed"))  BY <1>4 DEF GetGroup
  <2> QED  BY <1>1, <2>2, <2>3, OpMoves DEF GetGroup
<1> QED  BY <1>3, <1>4

\* Fetching without a baseline, and reconciling, begin with nothing.
LEMMA BeginningKeeps ==
  ASSUME TypeOK, GroupInv, NEW d \in Devices, FetchSilently(d) \/ Reconcile(d)
  PROVE  TypeOK' /\ GroupInv'
<1>1. srv.blob # NoBlob /\ upsets' \in Nat
  BY Made DEF FetchSilently, Reconcile, Unbound, TypeOK
<1>2. NoOp(d) \in Ops /\ NoOp(d).rows = << >>  BY NoOpFits
<1>3. PICK n \in Ops : n = NoOp(d)  BY <1>2
<1>4. \A a \in {"keep", "bind"} : [n EXCEPT !.at = "get", !.after = a] \in Ops
                             /\ Fits([n EXCEPT !.at = "get", !.after = a])
  <2> TAKE a \in {"keep", "bind"}
  <2> DEFINE o == [n EXCEPT !.at = "get", !.after = a]
  <2>1. o \in Ops /\ o.at = "get" /\ o.rows = << >>  BY <1>2, <1>3 DEF Ops, Stages
  <2> HIDE DEF o
  <2>2. Fits(o)  BY <2>1, LightFits DEF CarriesNothing
  <2> QED  BY <2>1, <2>2 DEF o
<1>5. n.after = "keep"  BY <1>3, NoOpFits
<1>6. [n EXCEPT !.at = "get"] = [n EXCEPT !.at = "get", !.after = "keep"]  BY <1>5 DEF Ops
<1>7. \E o \in Ops : Goes(d, o) /\ Fits(o)
  BY <1>3, <1>4, <1>6 DEF FetchSilently, Reconcile
<1>8. UNCHANGED <<server, device, bg, mail>>  BY DEF FetchSilently, Reconcile
<1> QED  BY <1>1, <1>7, <1>8, OpMoves

\* The rows served are rows of the log, from the cached revision on.
LEMMA PullKeeps ==
  ASSUME TypeOK, GroupInv, NEW d \in Devices, PullChanges(d)
  PROVE  TypeOK' /\ GroupInv'
<1> DEFINE r == cache[d].rev
           n == IF Len(log) > r + PageSize THEN r + PageSize ELSE Len(log)
           rows == ChangesSince(r)
           o == [NoOp(d) EXCEPT !.at = "get", !.rev = r, !.rows = rows]
<1>1. srv.blob # NoBlob /\ upsets' \in Nat  BY Made DEF PullChanges, TypeOK
<1>2. /\ r \in Nat /\ srv.rev \in Nat /\ Len(log) = srv.rev /\ log \in Seq(LogRows)
      /\ PageSize \in Nat
  BY DeviceNow, BoundAssumption DEF CachedRows, TypeOK, Servers
<1>3. n \in Nat /\ n <= srv.rev  BY <1>2
<1>4. rows = SubSeq(log, r + 1, n)  BY DEF ChangesSince
<1> HIDE DEF n, r, rows
<1>5. \A i \in (r + 1)..n : log[i] \in LogRows
  <2> TAKE i \in (r + 1)..n
  <2>1. i \in 1..Len(log)  BY <1>2, <1>3
  <2> QED  BY <1>2, <2>1, ElementOfSeq
<1>6. /\ rows \in Seq(LogRows) /\ Len(rows) = IF r + 1 <= n THEN n - (r + 1) + 1 ELSE 0
      /\ \A i \in 1..(n - (r + 1) + 1) : rows[i] = log[(r + 1) + i - 1]
  <2>1. r + 1 \in Int /\ n \in Int  BY <1>2, <1>3
  <2> QED  BY <1>4, <1>5, <2>1, SubSeqProperties
<1>7. \A i \in 1..Len(rows) : r + i \in 1..srv.rev /\ rows[i] = log[r + i]
  <2> TAKE i \in 1..Len(rows)
  <2>1. i \in 1..(n - (r + 1) + 1) /\ r + i \in 1..srv.rev /\ (r + 1) + i - 1 = r + i
    BY <1>2, <1>3, <1>6
  <2> QED  BY <1>6, <2>1
<1>8. o \in Ops /\ o.at = "get" /\ o.rev = r /\ o.rows = rows
  BY <1>2, <1>6, NoOpFits DEF Ops, Stages
<1>9. Goes(d, o)  BY DEF PullChanges, r, rows
<1> HIDE DEF o
<1>10. Fits(o)  BY <1>7, <1>8, LightFits DEF CarriesNothing
<1> QED  BY <1>1, <1>8, <1>9, <1>10, OpMoves DEF PullChanges

LEMMA AuthorizeKeeps ==
  ASSUME TypeOK, GroupInv, NEW d \in Devices, AuthorizeBinding(d)
  PROVE  TypeOK' /\ GroupInv'
<1> DEFINE a == IF IsMember(Owner[d]) THEN "may bind" ELSE "failed"
           o == [op[d] EXCEPT !.at = a]
<1>1. srv.blob # NoBlob /\ upsets' \in Nat  BY Made DEF AuthorizeBinding, TypeOK
<1>2. Goes(d, o) /\ a \in CarriesNothing /\ a \in Stages
  BY DEF AuthorizeBinding, CarriesNothing, Stages
<1> HIDE DEF a
<1>3. o \in Ops /\ o.at = a /\ o.rev = op[d].rev /\ o.rows = op[d].rows
  BY <1>2, DeviceNow DEF Ops
<1> HIDE DEF o
<1>4. Fits(o)  BY <1>2, <1>3, DeviceNow, LightFits
<1> QED  BY <1>1, <1>2, <1>3, <1>4, OpMoves DEF AuthorizeBinding

LEMMA SubmitKeeps ==
  ASSUME TypeOK, GroupInv, NEW d \in Devices, NEW c \in Changes, Submit(d, c)
  PROVE  TypeOK' /\ GroupInv'
<1>1. srv.blob # NoBlob /\ upsets' \in Nat  BY Made DEF Submit, TypeOK
<1>2. /\ Request(d, cache[d], NoOp(d), c) \in Ops
      /\ Fits(Request(d, cache[d], NoOp(d), c))
  BY DeviceNow, NoOpFits, RequestFits
<1> QED  BY <1>1, <1>2, OpMoves DEF Submit

LEMMA ChangeTyped ==
  ASSUME NEW d \in Devices, NEW k \in AllKinds, NEW x \in Accounts, NEW r \in Roles, NEW p \in Policies
  PROVE  Change(k, d, x, r, p) \in Changes /\ Plain(k, d) \in Changes
BY EmptyValues DEF Change, Plain, Changes, Roles, Accounts

LEMMA UserSubmitsKeeps ==
  ASSUME TypeOK, GroupInv, NEW d \in Devices,
         \/ UserInvites(d) \/ UserRemoves(d) \/ UserChangesRole(d) \/ UserApproves(d)
         \/ UserDenies(d) \/ UserCancels(d) \/ UserLeaves(d) \/ UserSetsTitle(d)
         \/ UserJoinsByLink(d) \/ AdminSetsPolicy(d) \/ (~held[d] /\ Submit(d, Plain("decline", d)))
  PROVE  TypeOK' /\ GroupInv'
<1>1. /\ Owner[d] \in Accounts /\ 0 \in Roles /\ AdminOnly \in Policies
      /\ TriedRoles \subseteq Roles /\ TriedPolicies \subseteq Policies /\ Others(d) \subseteq Accounts
  BY EmptyValues, KindAssumption DEF Accounts, Roles, Others
<1>2. \A k \in AllKinds : \A x \in Accounts : \A r \in Roles : \A p \in Policies :
        Change(k, d, x, r, p) \in Changes /\ Plain(k, d) \in Changes
  BY ChangeTyped
<1>3. CASE UserInvites(d)
  <2>1. \E c \in Changes : Submit(d, c)  BY <1>1, <1>2, <1>3 DEF UserInvites, AllKinds
  <2> QED  BY <2>1, SubmitKeeps
<1>4. CASE UserRemoves(d)
  <2>1. \E c \in Changes : Submit(d, c)  BY <1>1, <1>2, <1>4 DEF UserRemoves, AllKinds
  <2> QED  BY <2>1, SubmitKeeps
<1>5. CASE UserChangesRole(d)
  <2>1. \E c \in Changes : Submit(d, c)  BY <1>1, <1>2, <1>5 DEF UserChangesRole, AllKinds
  <2> QED  BY <2>1, SubmitKeeps
<1>6. CASE UserApproves(d)
  <2>1. \E c \in Changes : Submit(d, c)  BY <1>1, <1>2, <1>6 DEF UserApproves, AllKinds
  <2> QED  BY <2>1, SubmitKeeps
<1>7. CASE UserDenies(d)
  <2>1. \E c \in Changes : Submit(d, c)  BY <1>1, <1>2, <1>7 DEF UserDenies, AllKinds
  <2> QED  BY <2>1, SubmitKeeps
<1>8. CASE AdminSetsPolicy(d)
  <2>1. \E c \in Changes : Submit(d, c)  BY <1>1, <1>2, <1>8 DEF AdminSetsPolicy, AllKinds
  <2> QED  BY <2>1, SubmitKeeps
<1>9. CASE \/ UserCancels(d) \/ UserLeaves(d) \/ UserSetsTitle(d) \/ UserJoinsByLink(d)
           \/ (~held[d] /\ Submit(d, Plain("decline", d)))
  <2>1. \E c \in Changes : Submit(d, c)
    BY <1>1, <1>2, <1>9 DEF UserCancels, UserLeaves, UserSetsTitle, UserJoinsByLink, AllKinds
  <2> QED  BY <2>1, SubmitKeeps
<1> QED  BY <1>3, <1>4, <1>5, <1>6, <1>7, <1>8, <1>9

----------------------------------------------------------------------------
(* Steps that write the device's store *)

\* Whatever flag an invite is held under, it stays a flag.
LEMMA FlagKept ==
  ASSUME TypeOK, NEW d \in Devices, NEW p \in BOOLEAN
  PROVE  /\ [held EXCEPT ![d] = held[d] /\ p] \in [Devices -> BOOLEAN]
         /\ [held EXCEPT ![d] = held[d] \/ p] \in [Devices -> BOOLEAN]
<1>1. held \in [Devices -> BOOLEAN]  BY DEF TypeOK
<1> DEFINE a == held[d] /\ p
           b == held[d] \/ p
<1>2. a \in BOOLEAN /\ b \in BOOLEAN  OBVIOUS
<1> HIDE DEF a, b
<1>3. [held EXCEPT ![d] = a] \in [Devices -> BOOLEAN] /\ [held EXCEPT ![d] = b] \in [Devices -> BOOLEAN]
  BY <1>1, <1>2
<1> QED  BY <1>3 DEF a, b

LEMMA StoreStateKeeps ==
  ASSUME TypeOK, GroupInv, NEW d \in Devices, StoreState(d)
  PROVE  TypeOK' /\ GroupInv'
<1> DEFINE row == UpdateRow(cache[d], op[d].got.rev, op[d].got.blob)
<1>1. srv.blob # NoBlob /\ op[d].at = "got"  BY Made DEF StoreState
<1>2. PICK o \in Ops : o = op[d]  BY DeviceNow
<1>3. /\ Fits(o) /\ o.got \in Copies /\ IsCopy(o.got) /\ o.change \in Changes
      /\ \A i \in 1..Len(o.rows) : o.rev + i \in 1..srv.rev /\ o.rows[i] = log[o.rev + i]
  BY <1>1, <1>2, DeviceNow DEF Fits, Ops
<1>4. row \in CachedRows /\ RowFits(row)  BY <1>2, <1>3, DeviceNow, RowOps
<1>5. cache' = [cache EXCEPT ![d] = row]  BY DEF StoreState
<1>6. held' \in [Devices -> BOOLEAN]
  <2>1. PICK p \in BOOLEAN : p = (op[d].after \notin {"undo", "forget"})  OBVIOUS
  <2>2. held' = [held EXCEPT ![d] = held[d] /\ p]  BY <2>1 DEF StoreState
  <2> QED  BY <2>2, FlagKept
<1>7. Quiet /\ mail' \subseteq Devices  BY UnchangedIsQuiet DEF StoreState, TypeOK
<1>8. PICK n : Goes(d, n) /\ n = IF o.after = "undo" THEN [o EXCEPT !.at = "get", !.after = "keep"]
                       ELSE IF o.rows # <<>> THEN [o EXCEPT !.at = "derive"]
                       ELSE IF o.after = "bind" THEN [o EXCEPT !.at = "bind"]
                       ELSE IF o.change.kind # "none" THEN Request(d, row, o, o.change)
                       ELSE NoOp(d)
  BY <1>2 DEF StoreState
<1> HIDE DEF row
<1>9. n \in Ops /\ Fits(n)
  <2>1. CASE n = [o EXCEPT !.at = "get", !.after = "keep"]
    <3>1. n \in Ops /\ n.at = "get" /\ n.rev = o.rev /\ n.rows = o.rows  BY <2>1 DEF Ops, Stages
    <3> QED  BY <1>3, <3>1, LightFits DEF CarriesNothing
  <2>2. CASE n = [o EXCEPT !.at = "derive"]
    <3>1. n \in Ops /\ n.at = "derive" /\ n.rev = o.rev /\ n.rows = o.rows /\ n.got = o.got
      BY <2>2 DEF Ops, Stages
    <3> QED  BY <1>3, <3>1 DEF Fits
  <2>3. CASE n = [o EXCEPT !.at = "bind"]
    <3>1. n \in Ops /\ n.at = "bind" /\ n.rev = o.rev /\ n.rows = o.rows  BY <2>3 DEF Ops, Stages
    <3> QED  BY <1>3, <3>1, LightFits DEF CarriesNothing
  <2>4. CASE n = Request(d, row, o, o.change) /\ o.rows = << >>
    BY <1>3, <1>4, <2>4, RequestFits
  <2>5. CASE n = NoOp(d)  BY <2>5, NoOpFits
  <2> QED  BY <1>8, <2>1, <2>2, <2>3, <2>4, <2>5
<1>10. UNCHANGED <<shown, bg, upsets>>  BY DEF StoreState
<1> QED  BY <1>1, <1>4, <1>5, <1>6, <1>7, <1>8, <1>9, <1>10, RowMoves

LEMMA DeriveKeeps ==
  ASSUME TypeOK, GroupInv, NEW d \in Devices, DeriveLines(d)
  PROVE  TypeOK' /\ GroupInv'
<1> DEFINE cur == [op[d].got EXCEPT !.blob = cache[d].blob]
           new == Lines(op[d].rows, op[d].rev, cur)
           L == Persisted(shown[d], new)
<1>1. srv.blob # NoBlob  BY Made DEF DeriveLines
<1>2. cur \in Copies
  <2>1. op[d].got \in Copies /\ cache[d].blob \in Blobs  BY DeviceNow DEF Ops, CachedRows
  <2> QED  BY <2>1 DEF Copies
<1> HIDE DEF cur
<1>3. \A e \in new : e \in EventLines /\ LineFits(e)  BY <1>2, DeviceNow, LinesFit
<1>4. shown' = [shown EXCEPT ![d] = L]  BY DEF DeriveLines, cur
<1> HIDE DEF new
<1>5. L \in SUBSET EventLines /\ \A e \in L : LineFits(e)  BY <1>3, DeviceNow DEF Persisted
<1> HIDE DEF L
<1>6. /\ op' = [op EXCEPT ![d] = NoOp(d)] /\ cache' = [cache EXCEPT ![d] = cache[d]]
      /\ bg' = [bg EXCEPT ![d] = bg[d]]
      /\ held' \in [Devices -> BOOLEAN] /\ mail' \subseteq Devices /\ upsets' \in Nat
  BY DEF DeriveLines, Goes, TypeOK
<1>7. Quiet  BY UnchangedIsQuiet DEF DeriveLines
<1> QED  BY <1>1, <1>4, <1>5, <1>6, <1>7, DeviceNow, NoOpFits, DeviceActs

\* The reply to a commit: the row moves to the revision that was made.
LEMMA AcceptedKeeps ==
  ASSUME TypeOK, GroupInv, NEW d \in Devices, SubmitAccepted(d)
  PROVE  TypeOK' /\ GroupInv'
<1>1. srv.blob # NoBlob /\ op[d].at = "ok"  BY Made DEF SubmitAccepted
<1>2. PICK o \in Ops : o = op[d]  BY DeviceNow
<1>3. /\ o.rev \in 1..srv.rev /\ o.blob = History[o.rev] /\ log[o.rev].change = o.change
      /\ o.blob \in Blobs /\ o.change \in Changes /\ srv.rev \in Nat
  BY <1>1, <1>2, DeviceNow DEF Fits, Ops, TypeOK, Servers
<1> DEFINE c == [rev |-> o.rev, blob |-> o.blob]
           u == UpdateRow(cache[d], o.rev, o.blob)
           row == IF o.after = "forget" THEN NoRow ELSE Registered(u, o.change)
           L == IF o.after = "forget" THEN {}
                ELSE Persisted(shown[d], {Line(o.rev, o.change, o.blob)})
<1>4. c \in Copies /\ IsCopy(c) /\ c.rev = o.rev /\ c.blob = o.blob
  BY <1>3 DEF Copies, IsCopy
<1> HIDE DEF c
<1>5. u \in CachedRows /\ RowFits(u)  BY <1>4, DeviceNow, RowOps
<1>7. cache' = [cache EXCEPT ![d] = row]  BY <1>2 DEF SubmitAccepted
<1> HIDE DEF u
<1>8. row \in CachedRows /\ RowFits(row)
  <2> DEFINE name == u.name \/ o.change.kind \in {"promote", "join"}
             r == Registered(u, o.change)
  <2>1. r = [u EXCEPT !.name = name] /\ name \in BOOLEAN  BY DEF Registered
  <2> HIDE DEF name, r
  <2>2. r \in CachedRows /\ RowFits(r)  BY <1>5, <2>1 DEF CachedRows, RowFits, IsCopy
  <2> QED  BY <2>2, <1>4, DeviceNow, RowOps DEF r
<1> HIDE DEF row
<1>9. L \in SUBSET EventLines /\ \A e \in L : LineFits(e)
  <2>1. Line(o.rev, o.change, o.blob) \in EventLines  BY <1>3 DEF Line, EventLines, Changes, Blobs
  <2>2. LineFits(Line(o.rev, o.change, o.blob))  BY <1>3 DEF Line, LineFits
  <2> QED  BY <2>1, <2>2, DeviceNow DEF Persisted
<1>10. shown' = [shown EXCEPT ![d] = L]  BY <1>2 DEF SubmitAccepted
<1> HIDE DEF L
<1>11. held' \in [Devices -> BOOLEAN]
  <2>1. PICK p \in BOOLEAN : p = (op[d].after # "forget")  OBVIOUS
  <2>2. held' = [held EXCEPT ![d] = held[d] /\ p]  BY <2>1 DEF SubmitAccepted
  <2> QED  BY <2>2, FlagKept
<1>12. /\ op' = [op EXCEPT ![d] = NoOp(d)] /\ bg' = [bg EXCEPT ![d] = bg[d]]
       /\ mail' \subseteq Devices /\ upsets' \in Nat
  BY DEF SubmitAccepted, Goes, TypeOK
<1>13. Quiet  BY UnchangedIsQuiet DEF SubmitAccepted
<1> QED
  BY <1>1, <1>7, <1>8, <1>9, <1>10, <1>11, <1>12, <1>13, DeviceNow, NoOpFits, DeviceActs

LEMMA FailKeeps ==
  ASSUME TypeOK, GroupInv, NEW d \in Devices, FailOp(d)
  PROVE  TypeOK' /\ GroupInv'
<1> DEFINE row == IF op[d].after \in {"forget", "undo"} THEN NoRow ELSE cache[d]
           L == IF op[d].after = "forget" THEN {} ELSE shown[d]
<1>1. srv.blob # NoBlob  BY Made DEF FailOp
<1>2. row \in CachedRows /\ RowFits(row)
  <2>1. NoRow \in CachedRows /\ RowFits(NoRow)
    <3>1. NoCopy \in Copies  BY EmptyValues
    <3> QED  BY <3>1, DeviceNow, RowOps
  <2> QED  BY <2>1, DeviceNow
<1>3. L \in SUBSET EventLines /\ \A e \in L : LineFits(e)  BY DeviceNow
<1>4. cache' = [cache EXCEPT ![d] = row] /\ shown' = [shown EXCEPT ![d] = L]  BY DEF FailOp
<1> HIDE DEF row, L
<1>5. held' \in [Devices -> BOOLEAN]
  <2>1. PICK p \in BOOLEAN : p = (op[d].after # "forget")  OBVIOUS
  <2>2. held' = [held EXCEPT ![d] = held[d] /\ p]  BY <2>1 DEF FailOp
  <2> QED  BY <2>2, FlagKept
<1>6. /\ op' = [op EXCEPT ![d] = NoOp(d)] /\ bg' = [bg EXCEPT ![d] = bg[d]]
      /\ mail' \subseteq Devices /\ upsets' \in Nat
  BY DEF FailOp, Goes, TypeOK
<1>7. Quiet  BY UnchangedIsQuiet DEF FailOp
<1> QED  BY <1>1, <1>2, <1>3, <1>4, <1>5, <1>6, <1>7, DeviceNow, NoOpFits, DeviceActs

\* A fetch without the lock: what it reads is a revision, and so is what it
\* stores later, whatever has been stored meanwhile.
LEMMA BackgroundKeeps ==
  ASSUME TypeOK, GroupInv, NEW d \in Devices, BackgroundRead(d) \/ BackgroundStore(d)
  PROVE  TypeOK' /\ GroupInv'
<1>1. srv.blob # NoBlob  BY Made DEF BackgroundRead, BackgroundStore
<1>2. /\ op' = [op EXCEPT ![d] = op[d]] /\ shown' = [shown EXCEPT ![d] = shown[d]]
      /\ held' \in [Devices -> BOOLEAN] /\ mail' \subseteq Devices /\ upsets' \in Nat
  BY DEF BackgroundRead, BackgroundStore, TypeOK, device
<1>3. Quiet  BY UnchangedIsQuiet DEF BackgroundRead, BackgroundStore
<1>4. CASE BackgroundRead(d)
  <2>1. bg' = [bg EXCEPT ![d] = Copy] /\ cache' = [cache EXCEPT ![d] = cache[d]]
    BY <1>4 DEF BackgroundRead, device, TypeOK
  <2>2. Copy \in Copies /\ ReadFits(Copy)  BY ServerHasCopy DEF ReadFits
  <2> QED  BY <1>1, <1>2, <1>3, <2>1, <2>2, DeviceNow, DeviceActs
<1>5. CASE BackgroundStore(d)
  <2> DEFINE row == UpdateRow(cache[d], bg[d].rev, bg[d].blob)
  <2>1. bg' = [bg EXCEPT ![d] = NoCopy] /\ cache' = [cache EXCEPT ![d] = row] /\ bg[d] # NoCopy
    BY <1>5 DEF BackgroundStore
  <2>2. row \in CachedRows /\ RowFits(row)  BY <2>1, DeviceNow, RowOps DEF ReadFits
  <2>3. NoCopy \in Copies /\ ReadFits(NoCopy)  BY EmptyValues DEF ReadFits
  <2> HIDE DEF row
  <2> QED  BY <1>1, <1>2, <1>3, <2>1, <2>2, <2>3, DeviceNow, DeviceActs
<1> QED  BY <1>4, <1>5

\* A context is stored beside nothing that was there before.
LEMMA ContextFits ==
  ASSUME TypeOK, GroupInv, NEW d \in Devices
  PROVE  \E row \in CachedRows : RowFits(row) /\ StoreContext(d) = [cache EXCEPT ![d] = row]
<1> DEFINE row == IF cache[d].row THEN cache[d] ELSE NewRow
<1>1. NewRow \in CachedRows /\ RowFits(NewRow)
  <2>1. NoCopy \in Copies  BY EmptyValues
  <2> QED  BY <2>1, DeviceNow, RowOps
<1>2. row \in CachedRows /\ RowFits(row)  BY <1>1, DeviceNow
<1>3. StoreContext(d) = [cache EXCEPT ![d] = row]  BY DEF StoreContext
<1> QED  BY <1>2, <1>3

LEMMA JoinFits ==
  ASSUME TypeOK, NEW d \in Devices, NEW a \in {"keep", "undo", "forget"}
  PROVE  /\ JoinOp(d, a) \in Ops /\ Fits(JoinOp(d, a))
         /\ [JoinOp(d, a) EXCEPT !.change.kind = "decline"] \in Ops
         /\ Fits([JoinOp(d, a) EXCEPT !.change.kind = "decline"])
<1>1. PICK n \in Ops : n = NoOp(d) /\ n.rows = << >>  BY NoOpFits
<1>2. PICK c \in Changes : c = Plain("promote", d)
  <2>1. Owner[d] \in Accounts /\ 0 \in Roles /\ AdminOnly \in Policies /\ "promote" \in AllKinds
    BY EmptyValues DEF Accounts, Roles, AllKinds
  <2> QED  BY <2>1, ChangeTyped
<1> DEFINE o == JoinOp(d, a)
           e == [o EXCEPT !.change.kind = "decline"]
<1>3. o = [n EXCEPT !.at = "get", !.change = c, !.after = a]  BY <1>1, <1>2 DEF JoinOp
<1> HIDE DEF o
<1>4. o \in Ops /\ o.at = "get" /\ o.rows = << >> /\ o.change = c
  BY <1>1, <1>3 DEF Ops, Stages
<1>5. PICK b \in Changes : b = [c EXCEPT !.kind = "decline"]  BY DEF Changes, AllKinds
<1>6. e = [o EXCEPT !.change = b]  BY <1>4, <1>5 DEF Ops
<1> HIDE DEF e
<1>7. e \in Ops /\ e.at = "get" /\ e.rows = << >>  BY <1>4, <1>6 DEF Ops
<1>8. Fits(o) /\ Fits(e)  BY <1>4, <1>7, LightFits DEF CarriesNothing
<1> QED  BY <1>4, <1>7, <1>8 DEF o, e

LEMMA JoiningKeeps ==
  ASSUME TypeOK, GroupInv, NEW d \in Devices,
         \/ AutoAccept(d) \/ UserAccepts(d) \/ SyncKey(d) \/ HoldInvite(d)
         \/ (UserDeclines(d) /\ held[d])
  PROVE  TypeOK' /\ GroupInv'
<1>1. srv.blob # NoBlob  BY Made DEF AutoAccept, UserAccepts, SyncKey, HoldInvite, UserDeclines
<1>2. Quiet /\ UNCHANGED <<shown, bg, upsets>> /\ mail' \subseteq Devices
  BY UnchangedIsQuiet DEF AutoAccept, UserAccepts, SyncKey, HoldInvite, UserDeclines, Submit, TypeOK
<1>3. held' \in [Devices -> BOOLEAN]
  <2>1. CASE HoldInvite(d)
    <3>1. PICK p \in BOOLEAN : p = ~Has(d)  OBVIOUS
    <3>2. held' = [held EXCEPT ![d] = held[d] \/ p]  BY <2>1, <3>1 DEF HoldInvite
    <3> QED  BY <3>2, FlagKept
  <2>2. CASE ~HoldInvite(d)
    BY <2>2 DEF AutoAccept, UserAccepts, SyncKey, UserDeclines, Submit, TypeOK
  <2> QED  BY <2>1, <2>2
<1>4. PICK here \in CachedRows : RowFits(here) /\ StoreContext(d) = [cache EXCEPT ![d] = here]
  BY ContextFits
<1>5. cache[d] \in CachedRows /\ RowFits(cache[d]) /\ cache = [cache EXCEPT ![d] = cache[d]]
  BY DeviceNow DEF TypeOK
<1>6. PICK row \in CachedRows : RowFits(row) /\ cache' = [cache EXCEPT ![d] = row]
  <2>1. CASE cache' = StoreContext(d)  BY <1>4, <2>1
  <2>2. CASE cache' = cache  BY <1>5, <2>2
  <2> QED  BY <2>1, <2>2 DEF AutoAccept, UserAccepts, SyncKey, HoldInvite, UserDeclines
<1>7. PICK o \in Ops : Fits(o) /\ Goes(d, o)
  <2>1. \A a \in {"keep", "undo", "forget"} :
          /\ JoinOp(d, a) \in Ops /\ Fits(JoinOp(d, a))
          /\ [JoinOp(d, a) EXCEPT !.change.kind = "decline"] \in Ops
          /\ Fits([JoinOp(d, a) EXCEPT !.change.kind = "decline"])
    BY JoinFits
  <2>2. CASE SyncKey(d) \/ HoldInvite(d)
    <3>1. op[d] \in Ops /\ Fits(op[d])  BY DeviceNow
    <3>2. Goes(d, op[d])  BY <2>2 DEF SyncKey, HoldInvite, Goes, TypeOK
    <3> QED  BY <3>1, <3>2
  <2>3. CASE AutoAccept(d)  BY <2>1, <2>3 DEF AutoAccept
  <2>4. CASE UserAccepts(d)  BY <2>1, <2>4 DEF UserAccepts
  <2>5. CASE UserDeclines(d) /\ held[d]  BY <2>1, <2>5 DEF UserDeclines
  <2> QED  BY <2>2, <2>3, <2>4, <2>5
<1> QED  BY <1>1, <1>2, <1>3, <1>6, <1>7, RowMoves

\* The pseudonym is written on the server, and noted on the device; or an
\* invite goes nowhere.
LEMMA BindingKeeps ==
  ASSUME TypeOK, GroupInv, NEW d \in Devices, PushBinding(d) \/ StorePseudonym(d) \/ DropInvite(d)
  PROVE  TypeOK' /\ GroupInv'
<1>1. srv.blob # NoBlob  BY Made DEF PushBinding, StorePseudonym, DropInvite
<1>2. UNCHANGED <<shown, bg, upsets>> /\ held' \in [Devices -> BOOLEAN] /\ mail' \subseteq Devices
  BY DEF PushBinding, StorePseudonym, DropInvite, TypeOK, device
<1>3. cache[d] \in CachedRows /\ RowFits(cache[d]) /\ cache = [cache EXCEPT ![d] = cache[d]]
  BY DeviceNow DEF TypeOK
<1>4. op[d] \in Ops /\ Fits(op[d]) /\ op = [op EXCEPT ![d] = op[d]]  BY DeviceNow DEF TypeOK
<1>5. CASE PushBinding(d)
  <2> DEFINE o == [op[d] EXCEPT !.at = "bound"]
  <2>1. Quiet
    <3>1. 0 \in Roles /\ Owner[d] \in Accounts  BY DEF Roles, Accounts
    <3>2. Amended(srv, InsertName(srv, d), srv.member, srv.invited, srv.asking)
      BY <3>1, TableOps DEF TypeOK
    <3> QED  BY <1>5, <3>2 DEF PushBinding, Quiet, Amended
  <2>2. o \in Ops /\ o.at = "bound" /\ o.rev = op[d].rev /\ o.rows = op[d].rows
    BY <1>4 DEF Ops, Stages
  <2>3. Goes(d, o) /\ cache' = [cache EXCEPT ![d] = cache[d]]
    BY <1>3, <1>5 DEF PushBinding, device
  <2> HIDE DEF o
  <2>4. Fits(o)  BY <2>2, DeviceNow, LightFits DEF CarriesNothing
  <2> QED  BY <1>1, <1>2, <1>3, <2>1, <2>2, <2>3, <2>4, RowMoves
<1>6. CASE StorePseudonym(d)
  <2> DEFINE row == [cache[d] EXCEPT !.name = TRUE]
  <2>1. row \in CachedRows /\ RowFits(row)  BY <1>3 DEF CachedRows, RowFits, IsCopy
  <2>2. cache' = [cache EXCEPT ![d] = row] /\ Goes(d, NoOp(d))
    BY <1>6 DEF StorePseudonym, TypeOK, CachedRows
  <2>3. Quiet  BY <1>6, UnchangedIsQuiet DEF StorePseudonym
  <2> HIDE DEF row
  <2> QED  BY <1>1, <1>2, <2>1, <2>2, <2>3, NoOpFits, RowMoves
<1>7. CASE DropInvite(d)
  <2>1. Quiet  BY <1>7, UnchangedIsQuiet DEF DropInvite
  <2>2. Goes(d, op[d]) /\ cache' = [cache EXCEPT ![d] = cache[d]]
    BY <1>3, <1>4, <1>7 DEF DropInvite, Goes, device
  <2> QED  BY <1>1, <1>2, <1>3, <1>4, <2>1, <2>2, RowMoves
<1> QED  BY <1>5, <1>6, <1>7

----------------------------------------------------------------------------
(* The group is created, and a change committed *)

LEMMA CreateKeeps ==
  ASSUME TypeOK, GroupInv, NEW d \in Devices, CreateGroup(d)
  PROVE  TypeOK' /\ GroupInv'
<1> DEFINE x == Owner[d]
           first == Blob(With(Empty, x, 1), Empty, 0, Nobody)
<1>1. /\ srv.rev = 0 /\ DOMAIN srv.member = {} /\ DOMAIN srv.invited = {} /\ mail = {}
      /\ \A e \in Devices : Untouched(e)
  BY DEF CreateGroup, GroupInv, NotYetMade
<1>2. x \in Accounts /\ 0 \in Roles /\ 1 \in Roles /\ Empty \in Rosters /\ DOMAIN Empty = {}
  BY EmptyValues DEF Accounts, Roles
<1> HIDE DEF x
<1>3. /\ first \in Blobs /\ first.mem = With(Empty, x, 1) /\ first.inv = Empty /\ first # NoBlob
      /\ DOMAIN first.mem = {x} /\ first.mem[x] = 1
  <2>1. With(Empty, x, 1) \in Rosters /\ DOMAIN With(Empty, x, 1) = {x} /\ With(Empty, x, 1)[x] = 1
    BY <1>2, RosterOfOne
  <2>2. first.mem = With(Empty, x, 1) /\ first.inv = Empty /\ first \in Blobs
    BY <1>2, <2>1 DEF Blob, Blobs
  <2>3. NoBlob.mem = Empty  BY DEF NoBlob, Blob
  <2> QED  BY <1>2, <2>1, <2>2, <2>3
<1> HIDE DEF first
<1>4. PICK p \in Policies :
        srv' = InsertName([srv EXCEPT !.blob = first, !.policy = p,
                                      !.member = With(srv.member, x, 1)], d)
  BY EmptyValues, KindAssumption DEF CreateGroup, first, x
<1>5. /\ srv' \in Servers /\ srv'.rev = 0 /\ srv'.blob = first
      /\ srv'.member = With(srv.member, x, 1) /\ srv'.invited = srv.invited
  <2> DEFINE s == [srv EXCEPT !.blob = first, !.policy = p, !.member = With(srv.member, x, 1)]
  <2>1. With(srv.member, x, 1) \in Rosters  BY <1>2, RosterOps DEF TypeOK, Servers
  <2>2. /\ s \in Servers /\ s.rev = 0 /\ s.blob = first
        /\ s.member = With(srv.member, x, 1) /\ s.invited = srv.invited
    BY <1>1, <1>3, <2>1 DEF TypeOK, Servers
  <2> HIDE DEF s
  <2>3. Amended(s, InsertName(s, d), s.member, s.invited, s.asking)  BY <1>2, <2>2, TableOps
  <2> QED  BY <1>4, <2>2, <2>3 DEF Amended, s
<1> DEFINE row == [NewRow EXCEPT !.blob = first, !.name = TRUE]
<1>6. row \in CachedRows /\ row.rev = 0 /\ row.blob = first
  BY <1>3, EmptyValues DEF NewRow, NoRow, CachedRows
<1>7. cache' = [cache EXCEPT ![d] = row]  BY DEF CreateGroup, first, x
<1> HIDE DEF row
<1>8. UNCHANGED <<log, held, op, bg, mail, shown, upsets>>  BY DEF CreateGroup
<1>9. TypeOK'
  <2>1. cache' \in [Devices -> CachedRows]  BY <1>6, <1>7 DEF TypeOK
  <2>2. Len(log) = 0  BY <1>1 DEF TypeOK
  <2> QED  BY <1>5, <1>8, <2>1, <2>2 DEF TypeOK
<1>10. ChangesChain'  BY <1>5 DEF ChangesChain
<1>11. RosterMatches'
  <2>1. DOMAIN srv'.member = {x} /\ srv'.member[x] = 1 /\ DOMAIN srv'.invited = {}
    <3>1. srv.member \in Rosters  BY DEF TypeOK, Servers
    <3> QED  BY <1>1, <1>2, <1>5, <3>1, RosterOfOne
  <2> QED  BY <1>2, <1>3, <1>5, <2>1 DEF RosterMatches
<1>12. ASSUME NEW e \in Devices  PROVE DeviceFits(e)'
  <2>1. op'[e].at = "idle" /\ bg'[e] = NoCopy /\ shown'[e] = {}  BY <1>1, <1>8 DEF Untouched, Idle
  <2>2. Fits(op[e])'
    <3>1. \A i \in 1..Len(op[e].rows) : op[e].rev + i \in 1..0 /\ op[e].rows[i] = log[op[e].rev + i]
      BY <1>1, DeviceNow
    <3> QED  BY <1>5, <1>8, <2>1, <3>1 DEF Fits
  <2>3. RowFits(cache[e])'
    <3>1. CASE e = d
      <4>1. cache'[e] = row  BY <1>7, <3>1 DEF TypeOK
      <4>2. History'[0] = first /\ 0 \in 0..srv'.rev  BY <1>5 DEF History, StateAt
      <4> QED  BY <1>6, <4>1, <4>2 DEF RowFits, IsCopy
    <3>2. CASE e # d
      <4>1. ~cache'[e].row  BY <1>1, <1>7, <3>2 DEF Untouched, Has, TypeOK
      <4> QED  BY <4>1 DEF RowFits
    <3> QED  BY <3>1, <3>2
  <2>4. ReadFits(bg[e])'  BY <2>1 DEF ReadFits
  <2>5. (\A l \in shown[e] : LineFits(l))'  BY <2>1
  <2> QED  BY <2>2, <2>3, <2>4, <2>5 DEF DeviceFits
<1>13. NotYetMade'  BY <1>3, <1>5 DEF NotYetMade
<1> QED  BY <1>9, <1>10, <1>11, <1>12, <1>13 DEF GroupInv

LEMMA CommitKeeps ==
  ASSUME TypeOK, GroupInv, NEW d \in Devices, SubmitChanges(d)
  PROVE  TypeOK' /\ GroupInv'
<1>1. PICK o \in Ops : o = op[d] /\ Fits(o)  BY DeviceNow
<1>2. PICK c \in Changes : c = o.change  BY DEF Ops
<1>3. /\ o.at = "checked" /\ o.rev - 1 = srv.rev /\ Accepts(srv, c, o.policy)
      /\ ApplyRevision(c, o.blob)
  BY <1>1, <1>2 DEF SubmitChanges, CurrentRevision
<1>4. srv.rev \in Nat /\ o.rev = srv.rev + 1 /\ o.blob = Effect(srv.blob, c) /\ o.policy = srv.policy
  <2>1. srv.rev \in Nat /\ o.rev \in Nat  BY DEF TypeOK, Servers, Ops
  <2>2. o.rev = srv.rev + 1  BY <1>3, <2>1
  <2>3. History[srv.rev] = srv.blob  BY <2>1 DEF History, StateAt
  <2> QED  BY <1>1, <1>2, <1>3, <2>1, <2>2, <2>3 DEF Fits
<1>5. Eligible(srv, c) /\ ~Refused(srv, c) /\ srv \in Servers /\ srv.blob \in Blobs
  BY <1>3 DEF Accepts, TypeOK, Servers
<1>6. o.blob \in Blobs /\ o.blob # NoBlob  BY <1>4, <1>5, EffectTyped
<1>7. PICK t \in Servers : t = ApplyActions(srv, c) /\ t.rev = srv.rev  BY <1>5, ApplyTyped
<1>8. /\ srv' \in Servers /\ srv'.rev = srv.rev + 1 /\ srv'.blob = o.blob
      /\ srv'.member = t.member /\ srv'.invited = t.invited
  <2>1. srv' = [t EXCEPT !.rev = t.rev + 1, !.blob = o.blob]  BY <1>3, <1>7 DEF ApplyRevision
  <2>2. t.rev + 1 \in Nat /\ t.rev + 1 = srv.rev + 1  BY <1>4, <1>7
  <2> QED  BY <1>6, <2>1, <2>2 DEF Servers
<1>9. PICK row \in LogRows : /\ log' = Append(log, row) /\ row.blob = srv.blob /\ row.change = c
                             /\ row.member = srv.member /\ row.policy = srv.policy
  BY <1>3, <1>5 DEF ApplyRevision, LogRow, LogRows, TypeOK, Servers
<1>10. /\ log' \in Seq(LogRows) /\ Len(log') = srv.rev + 1 /\ log'[srv.rev + 1] = row
       /\ \A i \in 1..srv.rev : log'[i] = log[i]
  <2>1. log \in Seq(LogRows) /\ Len(log) = srv.rev  BY DEF TypeOK
  <2> QED  BY <1>4, <1>9, <2>1, AppendProperties
<1> DEFINE n == [o EXCEPT !.at = "ok"]
<1>11. /\ n \in Ops /\ n.at = "ok" /\ n.rev = o.rev /\ n.blob = o.blob /\ n.change = c
       /\ n.rows = o.rows
  BY <1>2 DEF Ops, Stages
<1>12. op' = [op EXCEPT ![d] = n]  BY <1>1 DEF SubmitChanges, Goes
<1> HIDE DEF n
<1>13. UNCHANGED <<cache, held, shown, bg, mail, upsets>>  BY DEF SubmitChanges, device
<1>14. TypeOK'
  <2>1. op' \in [Devices -> Ops]  BY <1>11, <1>12 DEF TypeOK
  <2> QED  BY <1>8, <1>10, <1>13, <2>1 DEF TypeOK
<1>15. \A r \in 0..srv.rev : StateAt(r)' = StateAt(r)
  <2> TAKE r \in 0..srv.rev
  <2>1. StateAt(r)' = log'[r + 1].blob  BY <1>4, <1>8 DEF StateAt
  <2>2. CASE r = srv.rev  BY <1>9, <1>10, <2>1, <2>2 DEF StateAt
  <2>3. CASE r # srv.rev
    <3>1. r + 1 \in 1..srv.rev  BY <1>4, <2>3
    <3> QED  BY <1>10, <2>1, <2>3, <3>1 DEF StateAt
  <2> QED  BY <2>2, <2>3
<1>16. PastKept
  <2>1. \A r \in 0..srv.rev : History'[r] = History[r]  BY <1>4, <1>8, <1>15 DEF History
  <2> QED  BY <1>4, <1>8, <1>10, <2>1 DEF PastKept
<1>17. ChangesChain'
  <2> SUFFICES ASSUME NEW r \in 0..(srv'.rev - 1)
               PROVE  /\ StateAt(r + 1)' = Effect(StateAt(r)', log'[r + 1].change)
                      /\ log'[r + 1].change.kind \notin SelfKinds =>
                           /\ Who(log'[r + 1].change) \in DOMAIN log'[r + 1].member
                           /\ log'[r + 1].member[Who(log'[r + 1].change)] >=
                                LeastRole(log'[r + 1].change, log'[r + 1].policy)
    BY DEF ChangesChain
  <2>1. CASE r = srv.rev
    <3>1. StateAt(r + 1)' = o.blob  BY <1>4, <1>8, <2>1 DEF StateAt
    <3>2. StateAt(r)' = srv.blob  BY <1>4, <1>15, <2>1 DEF StateAt
    <3>3. log'[r + 1] = row  BY <1>10, <2>1
    <3>4. /\ row.change.kind \notin SelfKinds =>
               /\ Who(row.change) \in DOMAIN row.member
               /\ row.member[Who(row.change)] >= LeastRole(row.change, row.policy)
      BY <1>3, <1>4, <1>9, ApplyShape DEF Accepts, Eligible, RoleAllows, SelfKinds
    <3> QED  BY <1>4, <1>9, <3>1, <3>2, <3>3, <3>4
  <2>2. CASE r # srv.rev
    <3>1. r \in 0..(srv.rev - 1) /\ r \in 0..srv.rev /\ r + 1 \in 0..srv.rev /\ r + 1 \in 1..srv.rev
      BY <1>4, <1>8, <2>2
    <3>2. StateAt(r)' = StateAt(r) /\ log'[r + 1] = log[r + 1]  BY <1>10, <1>15, <3>1
    <3>3. StateAt(r + 1)' = StateAt(r + 1)  BY <1>15, <3>1
    <3> QED  BY <3>1, <3>2, <3>3 DEF GroupInv, ChangesChain
  <2> QED  BY <2>1, <2>2
<1>18. RosterMatches'
  <2> SUFFICES ASSUME NEW x \in Accounts, x \notin LinkJoiners'
               PROVE  Agree(srv', srv'.blob, x)
    BY DEF RosterMatches, Agree, SameAt
  <2>1. x \notin LinkJoiners
    <3>1. ASSUME NEW j \in 1..Len(log), log[j].change.kind = "join"  PROVE Who(log[j].change) # x
      <4>1. j \in 1..Len(log') /\ log'[j] = log[j]  BY <1>4, <1>10 DEF TypeOK
      <4> QED  BY <3>1, <4>1 DEF LinkJoiners
    <3> QED  BY <3>1 DEF LinkJoiners
  <2>2. c.kind = "join" => x # Who(c)
    <3>1. srv.rev + 1 \in 1..Len(log')  BY <1>4, <1>10
    <3> QED  BY <1>9, <1>10, <3>1 DEF LinkJoiners
  <2>3. Agree(srv, srv.blob, x)  BY <2>1 DEF GroupInv, RosterMatches, Agree, SameAt
  <2>4. Agree(t, o.blob, x)  BY <1>4, <1>5, <1>7, <2>2, <2>3, RostersAgree
  <2> QED  BY <1>8, <2>4 DEF Agree
<1>19. Fits(n)'
  <2>1. History'[srv.rev + 1] = o.blob
    <3>1. srv.rev + 1 \in 0..srv'.rev  BY <1>4, <1>8
    <3> QED  BY <1>8, <3>1 DEF History, StateAt
  <2>2. n.rev \in 1..srv'.rev /\ log'[n.rev].change = n.change  BY <1>4, <1>8, <1>9, <1>10, <1>11
  <2>3. \A i \in 1..Len(n.rows) : n.rev + i \in 1..srv'.rev /\ n.rows[i] = log'[n.rev + i]
    <3>1. Fits(o)'  BY <1>1, <1>14, <1>16, StillFits
    <3> QED  BY <1>11, <3>1 DEF Fits
  <2> QED  BY <1>4, <1>11, <2>1, <2>2, <2>3 DEF Fits
<1>20. \A e \in Devices : DeviceFits(e)'
  <2>1. /\ cache' = [cache EXCEPT ![d] = cache[d]] /\ bg' = [bg EXCEPT ![d] = bg[d]]
        /\ shown' = [shown EXCEPT ![d] = shown[d]]
    BY <1>13 DEF TypeOK
  <2>2. PICK u \in CachedRows : u = cache[d] /\ RowFits(u)  BY DeviceNow
  <2>3. PICK g \in Copies : g = bg[d] /\ ReadFits(g)  BY DeviceNow
  <2>4. PICK L \in SUBSET EventLines : L = shown[d] /\ \A e \in L : LineFits(e)  BY DeviceNow
  <2>5. RowFits(u)' /\ ReadFits(g)' /\ \A e \in L : LineFits(e)'
    BY <1>14, <1>16, <2>2, <2>3, <2>4, StillFits
  <2>6. \A e \in Devices : DeviceFits(e)  BY DEF GroupInv
  <2> QED  BY <1>11, <1>12, <1>14, <1>16, <1>19, <2>1, <2>2, <2>3, <2>4, <2>5, <2>6, DevicesFit
<1>21. NotYetMade'  BY <1>6, <1>8 DEF NotYetMade
<1> QED  BY <1>14, <1>17, <1>18, <1>20, <1>21 DEF GroupInv

----------------------------------------------------------------------------
(* The theorems *)

LEMMA InitHolds == ASSUME Init  PROVE TypeOK /\ GroupInv
<1>1. /\ srv.rev = 0 /\ srv.blob = NoBlob /\ srv.member = Empty /\ srv.invited = Empty
      /\ srv \in Servers
  BY EmptyValues DEF Init, Servers
<1>2. \A d \in Devices : NoOp(d) \in Ops /\ NoOp(d).at = "idle" /\ NoOp(d).rows = << >>
  <2>1. << >> \in Seq(LogRows)  BY EmptySeq
  <2> TAKE d \in Devices
  <2>2. NoChange(d) \in Changes  BY EmptyValues DEF NoChange, Plain, Change, Changes, Roles, Accounts
  <2> QED  BY <2>1, <2>2, EmptyValues DEF NoOp, Ops, Stages
<1>3. log \in Seq(LogRows) /\ Len(log) = 0  BY EmptySeq DEF Init
<1>4. NoRow \in CachedRows /\ ~NoRow.row  BY EmptyValues DEF NoRow, CachedRows
<1>5. TypeOK  BY <1>1, <1>2, <1>3, <1>4, EmptyValues DEF Init, TypeOK
<1>6. \A d \in Devices : Untouched(d)  BY <1>2, <1>4 DEF Init, Untouched, Has, Idle
<1>7. NotYetMade  BY <1>1, <1>6, EmptyValues DEF Init, NotYetMade
<1>8. ChangesChain  BY <1>1 DEF ChangesChain
<1>9. RosterMatches  BY <1>1, EmptyValues DEF RosterMatches, NoBlob, Blob
<1>10. ASSUME NEW d \in Devices  PROVE DeviceFits(d)
  <2>1. Fits(op[d])
    <3>1. op[d] \in Ops /\ op[d].at = "idle" /\ op[d].rows = << >>  BY <1>2 DEF Init
    <3> QED  BY <1>5, <3>1, LightFits DEF CarriesNothing
  <2> QED  BY <1>4, <1>6, <2>1 DEF Init, DeviceFits, RowFits, ReadFits, Untouched
<1> QED  BY <1>5, <1>7, <1>8, <1>9, <1>10 DEF GroupInv

LEMMA NextKeeps == ASSUME TypeOK, GroupInv, [Next]_vars  PROVE TypeOK' /\ GroupInv'
<1>1. CASE UNCHANGED vars
  BY <1>1 DEF vars, TypeOK, GroupInv, NotYetMade, Untouched, Has, Idle, ChangesChain, StateAt,
              RosterMatches, LinkJoiners, DeviceFits, Fits, RowFits, ReadFits, LineFits, IsCopy, History
<1>2. ASSUME NEW d \in Devices, UserActs(d)  PROVE TypeOK' /\ GroupInv'
  BY <1>2, UserSubmitsKeeps, JoiningKeeps, CreateKeeps DEF UserActs, UserDeclines
<1>3. ASSUME NEW d \in Devices,
             \/ ReadSnapshot(d) \/ SubmitDenied(d) \/ SubmitConflicts(d) \/ RetryAfterConflict(d)
             \/ ReplyLost(d) \/ GetGroup(d) \/ FetchSilently(d) \/ PullChanges(d) \/ Reconcile(d)
             \/ AuthorizeBinding(d)
      PROVE  TypeOK' /\ GroupInv'
  BY <1>3, ReadSnapshotKeeps, RefusalKeeps, RetryKeeps, GetGroupKeeps, BeginningKeeps, PullKeeps,
     AuthorizeKeeps
<1>4. ASSUME NEW d \in Devices,
             \/ SubmitChanges(d) \/ SubmitAccepted(d) \/ FailOp(d) \/ StoreState(d)
             \/ DeriveLines(d) \/ BackgroundRead(d) \/ BackgroundStore(d) \/ AutoAccept(d)
             \/ HoldInvite(d) \/ DropInvite(d) \/ SyncKey(d) \/ PushBinding(d) \/ StorePseudonym(d)
      PROVE  TypeOK' /\ GroupInv'
  BY <1>4, CommitKeeps, AcceptedKeeps, FailKeeps, StoreStateKeeps, DeriveKeeps, BackgroundKeeps,
     JoiningKeeps, BindingKeeps
<1> QED  BY <1>1, <1>2, <1>3, <1>4 DEF Next

LEMMA GroupInvariant == Spec => [](TypeOK /\ GroupInv)
<1>1. Init => TypeOK /\ GroupInv  BY InitHolds
<1>2. TypeOK /\ GroupInv /\ [Next]_vars => (TypeOK /\ GroupInv)'  BY NextKeeps
<1> QED  BY <1>1, <1>2, PTL DEF Spec

\* Everything has its type: the server's group, the log, and what the devices
\* keep.
THEOREM GroupTypeCorrect == Spec => []TypeOK
BY GroupInvariant, PTL

\* Each revision is the one before it with exactly the logged, allowed change
\* made to it, and the encrypted roster is the one the server enforces.
THEOREM SubmissionsAreHeld == Spec => []SubmissionsHold
<1>1. GroupInv => SubmissionsHold  BY DEF GroupInv, SubmissionsHold
<1> QED  BY <1>1, GroupInvariant, PTL

\* A cached state is the server's state of the revision it is filed under,
\* though a fetch without the lock may file an older one over a newer one.
THEOREM CachesAreRevisions == Spec => []CacheIsARevision
<1>1. TypeOK /\ GroupInv => CacheIsARevision
  <2> SUFFICES ASSUME TypeOK, GroupInv, NEW d \in Devices, Has(d), cache[d].blob # NoBlob
               PROVE  cache[d].rev <= srv.rev /\ cache[d].blob = StateAt(cache[d].rev)
    BY DEF CacheIsARevision
  <2>1. IsCopy(cache[d])  BY DeviceNow DEF RowFits, Has
  <2>2. cache[d].rev \in 0..srv.rev /\ srv.rev \in Nat  BY <2>1 DEF IsCopy, TypeOK, Servers
  <2> QED  BY <2>1, <2>2, StatesTyped DEF IsCopy
<1> QED  BY <1>1, GroupInvariant, PTL

\* A line of a timeline tells of the change that made its revision.
THEOREM TimelinesAreTrue == Spec => []LinesAreTrue
<1>1. GroupInv => LinesAreTrue  BY DEF GroupInv, DeviceFits, LineFits, LinesAreTrue
<1> QED  BY <1>1, GroupInvariant, PTL
=============================================================================
