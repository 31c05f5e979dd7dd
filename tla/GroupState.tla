----------------------------- MODULE GroupState -----------------------------
(***************************************************************************)
(* The state of one action-bound group and the changes submitted to it:    *)
(*                                                                         *)
(*   - the homeserver's group: a revision, the policy, the membership       *)
(*     tables, the push pseudonyms, the encrypted state it cannot read, and *)
(*     the log of changes (routes/groups.rs, db/groups.rs);                 *)
(*   - on every device the cached row of the group, the invite held for the *)
(*     user's decision, and the timeline lines derived from changes         *)
(*     (store/groups.rs, app-core groups.rs);                               *)
(*   - one operation at a time per device, under the lock of AppCoreInner:   *)
(*     submit with one retry after a conflict, join, decline, catch up,     *)
(*     reconcile; and beside it the fetch that takes no lock.               *)
(*                                                                         *)
(* The server checks a submitted change against a snapshot read outside its *)
(* transaction, and commits by comparing revisions.  Credentials, the link  *)
(* password, batches of several actions, profile keys and the wording of a  *)
(* line are left out; title, description, expiry and avatar are one "look". *)
(* A device's pseudonym stands for whichever it last registered.            *)
(***************************************************************************)
EXTENDS Naturals, Sequences, FiniteSets

CONSTANTS
    Devices,       \* devices of all accounts
    Owner,         \* Owner[d]: the account of device d
    Founder,       \* the device that creates the group
    Nobody,        \* no account
    Kinds,         \* Kinds[d]: the kinds of change device d tries
    TriedPolicies, \* the policies an administrator sets
    TriedRoles,    \* and the roles it gives
    PageSize,      \* changes served per request
    MaxRev,        \* bound: revisions of the group
    MaxUpsets,     \* bound: replies lost and fetches without the lock
    Background     \* devices that also fetch without the lock

Accounts == {Owner[d] : d \in Devices}
Roles == {0, 1}                                   \* ROLE_MEMBER, ROLE_ADMIN
Policies == [least : Roles, join : {"closed", "request", "open"}]
AllKinds == {"invite", "promote", "decline", "remove", "role", "join",
             "cancel", "leave", "approve", "deny", "policy", "look"}

ASSUME DeviceAssumption ==
    IsFiniteSet(Devices) /\ Founder \in Devices /\ DOMAIN Owner = Devices
ASSUME NobodyAssumption == Nobody \notin Accounts
ASSUME KindAssumption ==
    /\ Kinds \in [Devices -> SUBSET AllKinds]
    /\ TriedPolicies \subseteq Policies /\ TriedRoles \subseteq Roles
    /\ Background \subseteq Devices
ASSUME BoundAssumption ==
    PageSize \in Nat \ {0} /\ MaxRev \in Nat /\ MaxUpsets \in Nat

VARIABLES
    srv,       \* the homeserver's group
    log,       \* its change log: log[r + 1] led from revision r to r + 1
    cache,     \* cache[d]: the group row of device d
    held,      \* held[d]: an invite waits for the user's decision
    op,        \* op[d]: the operation that runs under d's lock
    bg,        \* bg[d]: what a fetch without the lock has read
    mail,      \* devices a GroupContext message is on its way to
    shown,     \* shown[d]: timeline lines of changes
    upsets

vars == <<srv, log, cache, held, op, bg, mail, shown, upsets>>
server == <<srv, log>>
device == <<cache, held, shown>>

----------------------------------------------------------------------------
(* Values *)

Empty == [x \in {} |-> 0]
Without(f, x) == [y \in DOMAIN f \ {x} |-> f[y]]
With(f, x, v) == [y \in DOMAIN f \cup {x} |-> IF y = x THEN v ELSE f[y]]

\* default_admin_only
AdminOnly == [least |-> 1, join |-> "closed"]

\* The decrypted GroupState of a revision; NoBlob is a row without one.
Blob(m, i, n, who) == [mem |-> m, inv |-> i, look |-> n, by |-> who]
NoBlob == Blob(Empty, Empty, 0, Nobody)
NoCopy == [rev |-> 0, blob |-> NoBlob]

NoRow == [row |-> FALSE, rev |-> 0, blob |-> NoBlob, name |-> FALSE]
NewRow == [NoRow EXCEPT !.row = TRUE]

Change(k, d, t, r, p) ==
    [kind |-> k, by |-> d, target |-> t, role |-> r, policy |-> p]
Plain(k, d) == Change(k, d, Owner[d], 0, AdminOnly)
NoChange(d) == Plain("none", d)
Who(c) == Owner[c.by]

NoOp(d) == [at |-> "idle", change |-> NoChange(d), rev |-> 0, blob |-> NoBlob,
            policy |-> AdminOnly, got |-> NoCopy, try |-> 1, rows |-> <<>>,
            after |-> "keep"]

Init ==
    /\ srv = [rev |-> 0, policy |-> AdminOnly,
              member |-> Empty, invited |-> Empty, asking |-> Empty,
              names |-> {}, blob |-> NoBlob]
    /\ log = <<>>
    /\ cache = [d \in Devices |-> NoRow]
    /\ held = [d \in Devices |-> FALSE]
    /\ op = [d \in Devices |-> NoOp(d)]
    /\ bg = [d \in Devices |-> NoCopy]
    /\ mail = {}
    /\ shown = [d \in Devices |-> {}]
    /\ upsets = 0

Idle(d) == op[d].at = "idle"
\* What is left of an operation once the server has turned it down.
Ended(o, how) == [NoOp(o.change.by) EXCEPT !.at = how, !.after = o.after]
Goes(d, o) == op' = [op EXCEPT ![d] = o]

----------------------------------------------------------------------------
(* The membership tables: db/groups.rs *)

InsertMember(s, x, r) == [s EXCEPT !.member = With(@, x, r)]
InsertName(s, d) == [s EXCEPT !.names = @ \cup {d}]
DeleteNames(s, x) == [s EXCEPT !.names = {d \in @ : Owner[d] # x}]
DeleteMember(s, x) == DeleteNames([s EXCEPT !.member = Without(@, x)], x)
SetRole(s, x, r) ==
    IF x \in DOMAIN s.member THEN [s EXCEPT !.member[x] = r] ELSE s
InsertInvite(s, x, r) == [s EXCEPT !.invited = With(@, x, r)]
DeleteInvite_Not(s, x) == s   \* mutant
DeleteInvite(s, x) == [s EXCEPT !.invited = Without(@, x)]
InsertAsking(s, x, d) == [s EXCEPT !.asking = With(@, x, d)]
DeleteAsking(s, x) == [s EXCEPT !.asking = Without(@, x)]
UpdatePolicy(s, p) == [s EXCEPT !.policy = p]
IsMember(x) == x \in DOMAIN srv.member

----------------------------------------------------------------------------
(* A submitted change on the server: routes/groups.rs, submit_changes *)

SelfKinds == {"promote", "decline", "join", "cancel", "leave"}

\* enforce_actor_eligibility: the table the actor must be found in.
Eligible(s, c) ==
    \/ c.kind \notin SelfKinds \cup {"none"} /\ Who(c) \in DOMAIN s.member
    \/ c.kind \in {"promote", "decline"} /\ Who(c) \in DOMAIN s.invited
    \/ c.kind = "cancel" /\ Who(c) \in DOMAIN s.asking
    \/ c.kind = "leave" /\ Who(c) \in DOMAIN s.member
    \/ c.kind = "join"

\* enforce_admin_role_checks: the role asked for each kind of change.
LeastRole(c, p) ==
    IF c.kind \in {"role", "approve", "deny", "policy"} THEN 1
    ELSE IF c.kind \in {"invite", "remove", "look"} THEN p.least ELSE 0
RoleAllows(s, c, p) ==
    c.kind \notin SelfKinds => s.member[Who(c)] >= LeastRole(c, p)

\* What apply_actions or a unique key refuses, rolling everything back.
Refused(s, c) ==
    \/ c.kind = "invite" /\ c.target \in DOMAIN s.invited
    \/ c.kind = "promote" /\ Who(c) \in DOMAIN s.member
    \/ c.kind = "join" /\ s.policy.join = "closed"
    \/ c.kind = "join" /\ s.policy.join = "open" /\ Who(c) \in DOMAIN s.member
    \/ c.kind = "join" /\ s.policy.join = "request" /\ Who(c) \in DOMAIN s.asking
    \/ c.kind = "approve" /\ c.target \notin DOMAIN s.asking
    \/ c.kind = "approve" /\ c.target \in DOMAIN s.member

Accepts(s, c, p) == Eligible(s, c) /\ RoleAllows(s, c, p) /\ ~Refused(s, c)

\* Promotion takes the role of the invite and binds the device's pseudonym.
Promoted(s, c) ==
    InsertName(InsertMember(DeleteInvite(s, Who(c)), Who(c), s.invited[Who(c)]),
               c.by)
Dropped(s, x) == DeleteAsking(DeleteInvite(DeleteMember(s, x), x), x)
Joined(s, c) ==
    IF s.policy.join = "open"
    THEN InsertName(InsertMember(s, Who(c), 0), c.by)
    ELSE InsertAsking(s, Who(c), c.by)
Approved(s, x) ==
    InsertName(InsertMember(DeleteAsking(s, x), x, 0), s.asking[x])

ApplyActions(s, c) ==
    CASE c.kind = "invite"  -> InsertInvite(s, c.target, c.role)
      [] c.kind = "promote" -> Promoted(s, c)
      [] c.kind = "decline" -> DeleteInvite(s, Who(c))
      [] c.kind = "remove"  -> Dropped(s, c.target)
      [] c.kind = "role"    -> SetRole(s, c.target, c.role)
      [] c.kind = "join"    -> Joined(s, c)
      [] c.kind = "cancel"  -> DeleteAsking(s, Who(c))
      [] c.kind = "leave"   -> Dropped(s, Who(c))
      [] c.kind = "approve" -> Approved(s, c.target)
      [] c.kind = "deny"    -> DeleteAsking(s, c.target)
      [] c.kind = "policy"  -> UpdatePolicy(s, c.policy)
      [] OTHER              -> s

\* apply_revision: the outgoing state goes to the log with the actions, then
\* the row moves on where its revision is still the expected one.  `member`
\* and `policy` note, for the properties, what was in force.
LogRow(c) == [blob |-> srv.blob, change |-> c,
              member |-> srv.member, policy |-> srv.policy]
CurrentRevision_Any(r) == TRUE   \* mutant: the comparison is dropped
CurrentRevision(r) == srv.rev = r
ApplyRevision_NoLog(c, blob) ==   \* mutant: the log row is forgotten
    srv' = [ApplyActions(srv, c) EXCEPT !.rev = @ + 1, !.blob = blob] /\ log' = log
ApplyRevision(c, blob) ==
    /\ srv' = [ApplyActions(srv, c) EXCEPT !.rev = @ + 1, !.blob = blob]
    /\ log' = Append(log, LogRow(c))

Conflict(o) == [Ended(o, "conflict") EXCEPT !.change = o.change, !.try = o.try]

\* The presentation is verified and the group read: revision and policy.
ReadSnapshot(d) ==
    /\ op[d].at = "asked"
    /\ Goes(d, IF op[d].rev = srv.rev + 1
               THEN [op[d] EXCEPT !.at = "checked", !.policy = srv.policy]
               ELSE Conflict(op[d]))
    /\ UNCHANGED <<server, device, bg, mail, upsets>>

\* One transaction; the policy of the role check is the snapshot's.
SubmitChanges(d) ==
    LET c == op[d].change IN
    /\ op[d].at = "checked"
    /\ CurrentRevision(op[d].rev - 1)
    /\ Accepts(srv, c, op[d].policy)
    /\ ApplyRevision(c, op[d].blob)
    /\ Goes(d, [op[d] EXCEPT !.at = "ok"])
    /\ UNCHANGED <<device, bg, mail, upsets>>

SubmitDenied(d) ==
    LET c == op[d].change IN
    /\ op[d].at = "checked"
    /\ ~Accepts(srv, c, op[d].policy)
    /\ Goes(d, Ended(op[d], "denied"))
    /\ UNCHANGED <<server, device, bg, mail, upsets>>

\* Another submitter was faster, whatever the checks made of it: seen by the
\* revision, a conflict; seen by the key of the log, which both had begun to
\* write, an internal error that the client does not retry.
SubmitConflicts(d) ==
    /\ op[d].at = "checked"
    /\ ~CurrentRevision(op[d].rev - 1)
    /\ Goes(d, Conflict(op[d])) \/ Goes(d, Ended(op[d], "failed"))
    /\ UNCHANGED <<server, device, bg, mail, upsets>>

----------------------------------------------------------------------------
(* Reading the group: routes/groups.rs, get_group, get_changes *)

\* authorize_member_or_pending_invite
MayRead(x) == x \in DOMAIN srv.member \cup DOMAIN srv.invited
Copy == [rev |-> srv.rev, blob |-> srv.blob]

\* get_changes_since: log rows from a revision on, a page at most.
ChangesSince_Next(r) == SubSeq(log, r + 2, Len(log))   \* mutant: `>` for `>=`
ChangesSince(r) ==
    SubSeq(log, r + 1, IF Len(log) > r + PageSize THEN r + PageSize
                                                  ELSE Len(log))

----------------------------------------------------------------------------
(* The cached row: store/groups.rs *)

Has(d) == cache[d].row
\* store_inbound_group_context leaves a known group alone.
StoreContext(d) == [cache EXCEPT ![d] = IF @.row THEN @ ELSE NewRow]
\* update_group_state touches nothing when the row is gone.
UpdateRow_KeepsRev(row, rev, blob) == [row EXCEPT !.blob = blob]   \* mutant
UpdateRow(row, rev, blob) ==
    IF row.row THEN [row EXCEPT !.rev = rev, !.blob = blob] ELSE row

----------------------------------------------------------------------------
(* The state a change is submitted with: app-core groups.rs *)

InviteMember(b, c) == [b EXCEPT !.inv = With(@, c.target, c.role)]
AcceptInvite(b, c) ==
    LET r == IF Who(c) \in DOMAIN b.inv THEN b.inv[Who(c)] ELSE 0
    IN  [b EXCEPT !.inv = Without(@, Who(c)), !.mem = With(@, Who(c), r)]
DeclineInvite(b, c) == [b EXCEPT !.inv = Without(@, Who(c))]
RemoveMember(b, c) ==
    [b EXCEPT !.mem = Without(@, c.target), !.inv = Without(@, c.target)]
LeaveGroup(b, c) == [b EXCEPT !.mem = Without(@, Who(c)),
                              !.inv = Without(@, Who(c))]
ChangeRole(b, c) ==
    IF c.target \in DOMAIN b.mem THEN [b EXCEPT !.mem[c.target] = c.role] ELSE b
ApproveJoinRequest(b, c) == [b EXCEPT !.mem = With(@, c.target, 0)]
SetLook(b, c) == [b EXCEPT !.look = @ + 1]

\* A join, its cancelling or denial and a policy change leave the roster as
\* it was: a joiner cannot write itself into a state it has not read.
Edited(b, c) ==
    CASE c.kind = "invite"  -> InviteMember(b, c)
      [] c.kind = "promote" -> AcceptInvite(b, c)
      [] c.kind = "decline" -> DeclineInvite(b, c)
      [] c.kind = "remove"  -> RemoveMember(b, c)
      [] c.kind = "leave"   -> LeaveGroup(b, c)
      [] c.kind = "role"    -> ChangeRole(b, c)
      [] c.kind = "approve" -> ApproveJoinRequest(b, c)
      [] c.kind = "look"    -> SetLook(b, c)
      [] OTHER              -> b
Effect(b, c) == [Edited(b, c) EXCEPT !.by = Who(c)]

\* submit_actions: the request for the next revision of the cached row; no
\* request can be built from a row without a state.
Request(d, row, o, c) ==
    IF row.row /\ row.blob # NoBlob
    THEN [o EXCEPT !.at = "asked", !.change = c, !.rev = row.rev + 1,
                   !.blob = Effect(row.blob, c), !.got = NoCopy]
    ELSE Ended(o, "failed")

----------------------------------------------------------------------------
(* Timeline lines: app-core groups.rs, derive_change_events *)

\* The line of one change: the revision it made, its kind, and the actor
\* stamped into the state after it, when that state was at hand.
Line(rev, c, post) == [rev |-> rev, kind |-> c.kind, by |-> post.by]

\* persist_group_event: the id is the revision and kind, and the first wins.
Persisted(S, L) ==
    S \cup {e \in L : \A f \in S : f.rev # e.rev \/ f.kind # e.kind}

\* The lines of a page of changes that starts at revision `from`: the state
\* after a change is the next row's, or the cached one if it has just that
\* revision, or none.
PostState(rows, from, i, cur) ==
    IF i < Len(rows) THEN rows[i + 1].blob
    ELSE IF cur.rev = from + i THEN cur.blob ELSE NoBlob
Lines(rows, from, cur) ==
    {Line(from + i, rows[i].change, PostState(rows, from, i, cur)) :
        i \in 1..Len(rows)}

----------------------------------------------------------------------------
(* Submitting: app-core groups.rs, submit_actions *)

\* One change through the API under the device's lock.
Submit(d, c) ==
    /\ Idle(d) /\ c.kind \in Kinds[d] /\ Has(d)
    /\ cache[d].blob # NoBlob
    /\ srv.rev < MaxRev
    /\ Goes(d, Request(d, cache[d], NoOp(d), c))
    /\ UNCHANGED <<server, device, bg, mail, upsets>>

Others(d) == Accounts \ {Owner[d]}
UserInvites(d) == \E x \in Others(d), r \in TriedRoles :
                     Submit(d, Change("invite", d, x, r, AdminOnly))
UserRemoves(d) == \E x \in Others(d) :
                     Submit(d, Change("remove", d, x, 0, AdminOnly))
UserChangesRole(d) == \E x \in Others(d), r \in TriedRoles :
                     Submit(d, Change("role", d, x, r, AdminOnly))
UserApproves(d) == \E x \in Others(d) :
                     Submit(d, Change("approve", d, x, 0, AdminOnly))
UserDenies(d) == \E x \in Others(d) :
                     Submit(d, Change("deny", d, x, 0, AdminOnly))
UserCancels(d) == Submit(d, Plain("cancel", d))
UserLeaves(d) == Submit(d, Plain("leave", d))
UserSetsTitle(d) == Submit(d, Plain("look", d))
\* A link joiner needs a cached state, so it has been in the group before.
UserJoinsByLink(d) == Submit(d, Plain("join", d))
\* No client call sets the policy; an administrator's tool may.
AdminSetsPolicy(d) == \E p \in TriedPolicies :
                     Submit(d, Change("policy", d, Owner[d], 0, p))

\* A promotion or a join registers a pseudonym of the device.
Registered(row, c) ==
    [row EXCEPT !.name = @ \/ c.kind \in {"promote", "join"}]

\* The reply arrives: the row moves to the revision the server gave, and the
\* device's own line is written.  An invite sends the group's key along.
SubmitAccepted(d) ==
    LET o == op[d] IN
    /\ o.at = "ok"
    /\ cache' = [cache EXCEPT ![d] =
          IF o.after = "forget" THEN NoRow
          ELSE Registered(UpdateRow(@, o.rev, o.blob), o.change)]
    /\ held' = [held EXCEPT ![d] = @ /\ o.after # "forget"]
    /\ shown' = [shown EXCEPT ![d] =
          IF o.after = "forget" THEN {}
          ELSE Persisted(@, {Line(o.rev, o.change, o.blob)})]
    /\ \/ mail' = mail
       \/ /\ o.change.kind = "invite"
          /\ mail' = mail \cup {e \in Devices : Owner[e] = o.change.target}
    /\ Goes(d, NoOp(d))
    /\ UNCHANGED <<server, bg, upsets>>

\* The first conflict refreshes the row and tries again.
RetryAfterConflict(d) ==
    /\ op[d].at = "conflict" /\ op[d].try = 1
    /\ Goes(d, [op[d] EXCEPT !.at = "get", !.try = 2])
    /\ UNCHANGED <<server, device, bg, mail, upsets>>

\* What a failed operation leaves: a declined invite is forgotten whatever
\* the server said, and a held invite whose state could not be read is held
\* again.
FailOp(d) ==
    LET o == op[d] IN
    /\ o.at \in {"denied", "failed"} \/ (o.at = "conflict" /\ o.try = 2)
    /\ cache' = [cache EXCEPT ![d] =
                    IF o.after \in {"forget", "undo"} THEN NoRow ELSE @]
    /\ held' = [held EXCEPT ![d] = @ /\ o.after # "forget"]
    /\ shown' = [shown EXCEPT ![d] = IF o.after = "forget" THEN {} ELSE @]
    /\ Goes(d, NoOp(d))
    /\ UNCHANGED <<server, bg, mail, upsets>>

\* A request or reply is lost: the call fails though the server may have done
\* its part.
ReplyLost(d) ==
    /\ op[d].at \in {"ok", "get", "got", "asked", "bound"}
    /\ upsets < MaxUpsets
    /\ upsets' = upsets + 1
    /\ Goes(d, Ended(op[d], "failed"))
    /\ UNCHANGED <<server, device, bg, mail>>

----------------------------------------------------------------------------
(* Fetching: app-core groups.rs, fetch_group_state, apply_pending_changes *)

GetGroup(d) ==
    /\ op[d].at = "get"
    /\ Goes(d, IF MayRead(Owner[d])
               THEN [op[d] EXCEPT !.at = "got", !.got = Copy]
               ELSE Ended(op[d], "failed"))
    /\ UNCHANGED <<server, device, bg, mail, upsets>>

\* The state is stored, and the operation goes on: a promoted invite is
\* fetched once more by complete_join_group, a page of changes becomes lines,
\* reconciling binds a pseudonym, and a change is built on the new row.
StoreState(d) ==
    LET o == op[d]
        row == UpdateRow(cache[d], o.got.rev, o.got.blob)
    IN
    /\ o.at = "got"
    /\ cache' = [cache EXCEPT ![d] = row]
    /\ held' = [held EXCEPT ![d] = @ /\ o.after \notin {"undo", "forget"}]
    /\ Goes(d, IF o.after = "undo" THEN [o EXCEPT !.at = "get", !.after = "keep"]
               ELSE IF o.rows # <<>> THEN [o EXCEPT !.at = "derive"]
               ELSE IF o.after = "bind" THEN [o EXCEPT !.at = "bind"]
               ELSE IF o.change.kind # "none" THEN Request(d, row, o, o.change)
               ELSE NoOp(d))
    /\ UNCHANGED <<server, bg, mail, shown, upsets>>

\* apply_pending_changes: with no baseline, the state only.
FetchSilently(d) ==
    /\ Idle(d) /\ Has(d) /\ cache[d].rev = 0
    /\ Goes(d, [NoOp(d) EXCEPT !.at = "get"])
    /\ UNCHANGED <<server, device, bg, mail, upsets>>

PullChanges(d) ==
    /\ Idle(d) /\ Has(d) /\ cache[d].rev > 0
    /\ MayRead(Owner[d]) /\ ChangesSince(cache[d].rev) # <<>>
    /\ Goes(d, [NoOp(d) EXCEPT !.at = "get", !.rev = cache[d].rev,
                               !.rows = ChangesSince(cache[d].rev)])
    /\ UNCHANGED <<server, device, bg, mail, upsets>>

\* The last post-state is whatever the row holds by now, filed under the
\* revision that was fetched.
DeriveLines(d) ==
    LET o == op[d] IN
    /\ o.at = "derive"
    /\ shown' = [shown EXCEPT ![d] = Persisted(@,
          Lines(o.rows, o.rev, [o.got EXCEPT !.blob = cache[d].blob]))]
    /\ Goes(d, NoOp(d))
    /\ UNCHANGED <<server, cache, held, bg, mail, upsets>>

\* AppCore::fetch_group_state reads and stores without the lock.
BackgroundRead(d) ==
    /\ d \in Background /\ Has(d) /\ bg[d] = NoCopy
    /\ MayRead(Owner[d]) /\ srv.rev > 0
    /\ upsets < MaxUpsets /\ upsets' = upsets + 1
    /\ bg' = [bg EXCEPT ![d] = Copy]
    /\ UNCHANGED <<server, device, op, mail>>
BackgroundStore(d) ==
    /\ bg[d] # NoCopy
    /\ cache' = [cache EXCEPT ![d] = UpdateRow(@, bg[d].rev, bg[d].blob)]
    /\ bg' = [bg EXCEPT ![d] = NoCopy]
    /\ UNCHANGED <<server, held, shown, op, mail, upsets>>

----------------------------------------------------------------------------
(* Joining, declining, and a device that got the key from a sibling *)

\* The client asks for default_admin_only; the server takes any policy.
CreateGroup(d) ==
    LET first == Blob(With(Empty, Owner[d], 1), Empty, 0, Nobody) IN
    /\ d = Founder /\ srv.blob = NoBlob /\ Idle(d)
    /\ \E p \in TriedPolicies \cup {AdminOnly} :
          srv' = InsertName([srv EXCEPT !.blob = first, !.policy = p,
                               !.member = With(@, Owner[d], 1)], d)
    /\ cache' = [cache EXCEPT ![d] = [NewRow EXCEPT !.blob = first, !.name = TRUE]]
    /\ UNCHANGED <<log, held, op, bg, mail, shown, upsets>>

JoinOp(d, after) == [NoOp(d) EXCEPT !.at = "get", !.change = Plain("promote", d),
                                    !.after = after]

\* A GroupContext from an accepted inviter: stored and joined at once.
AutoAccept(d) ==
    /\ Idle(d) /\ d \in mail
    /\ mail' = mail \ {d}
    /\ cache' = StoreContext(d)
    /\ Goes(d, JoinOp(d, "keep"))
    /\ UNCHANGED <<server, held, bg, shown, upsets>>
\* From a stranger: held, unless the group is known.
HoldInvite(d) ==
    /\ Idle(d) /\ d \in mail
    /\ mail' = mail \ {d}
    /\ held' = [held EXCEPT ![d] = @ \/ ~Has(d)]
    /\ UNCHANGED <<server, cache, op, bg, shown, upsets>>
\* From a blocked inviter, or lost on the way.
DropInvite(d) ==
    /\ d \in mail /\ mail' = mail \ {d}
    /\ UNCHANGED <<server, device, op, bg, upsets>>

\* accept_invite: a held invite is promoted to a stored group first.
UserAccepts(d) ==
    /\ Idle(d) /\ (held[d] \/ Has(d)) /\ srv.rev < MaxRev
    /\ cache' = IF held[d] THEN StoreContext(d) ELSE cache
    /\ Goes(d, JoinOp(d, IF held[d] THEN "undo" ELSE "keep"))
    /\ UNCHANGED <<server, held, bg, mail, shown, upsets>>

\* decline_invite_async
UserDeclines(d) ==
    \/ ~held[d] /\ Submit(d, Plain("decline", d))
    \/ /\ Idle(d) /\ held[d]
       /\ cache' = StoreContext(d)
       /\ Goes(d, [JoinOp(d, "forget") EXCEPT !.change.kind = "decline"])
       /\ UNCHANGED <<server, held, bg, mail, shown, upsets>>

\* Storage sync hands the group's key to the account's other devices.
SyncKey(d) ==
    /\ Idle(d) /\ ~Has(d)
    /\ \E e \in Devices : Owner[e] = Owner[d] /\ Has(e)
    /\ cache' = StoreContext(d)
    /\ UNCHANGED <<server, held, op, bg, mail, shown, upsets>>

\* reconcile_synced_groups: every stored group without a pseudonym.
Unbound_Fetched(d) == Has(d) /\ ~cache[d].name /\ cache[d].rev > 0  \* mutant
Unbound(d) == Has(d) /\ ~cache[d].name
Reconcile(d) ==
    /\ Idle(d) /\ Unbound(d)
    /\ Goes(d, [NoOp(d) EXCEPT !.at = "get", !.after = "bind"])
    /\ UNCHANGED <<server, device, bg, mail, upsets>>

\* push_binding: membership is read, then the pseudonym written, on
\* connections of their own.
AuthorizeBinding(d) ==
    /\ op[d].at = "bind"
    /\ Goes(d, [op[d] EXCEPT !.at = IF IsMember(Owner[d]) THEN "may bind"
                                                          ELSE "failed"])
    /\ UNCHANGED <<server, device, bg, mail, upsets>>
PushBinding(d) ==
    /\ op[d].at = "may bind"
    /\ srv' = InsertName(srv, d)
    /\ Goes(d, [op[d] EXCEPT !.at = "bound"])
    /\ UNCHANGED <<log, device, bg, mail, upsets>>
StorePseudonym(d) ==
    /\ op[d].at = "bound"
    /\ cache' = [cache EXCEPT ![d].name = TRUE]
    /\ Goes(d, NoOp(d))
    /\ UNCHANGED <<server, held, shown, bg, mail, upsets>>

----------------------------------------------------------------------------
(* The specification *)

UserActs(d) ==
    \/ UserInvites(d) \/ UserRemoves(d) \/ UserChangesRole(d)
    \/ UserApproves(d) \/ UserDenies(d) \/ UserCancels(d) \/ UserLeaves(d)
    \/ UserSetsTitle(d) \/ UserJoinsByLink(d) \/ AdminSetsPolicy(d)
    \/ UserAccepts(d) \/ UserDeclines(d) \/ CreateGroup(d)

Next ==
    \E d \in Devices :
        \/ UserActs(d)
        \/ ReadSnapshot(d) \/ SubmitChanges(d) \/ SubmitDenied(d)
        \/ SubmitConflicts(d) \/ SubmitAccepted(d) \/ RetryAfterConflict(d)
        \/ FailOp(d) \/ ReplyLost(d)
        \/ GetGroup(d) \/ StoreState(d) \/ FetchSilently(d) \/ PullChanges(d)
        \/ DeriveLines(d) \/ BackgroundRead(d) \/ BackgroundStore(d)
        \/ AutoAccept(d) \/ HoldInvite(d) \/ DropInvite(d) \/ SyncKey(d)
        \/ Reconcile(d) \/ AuthorizeBinding(d) \/ PushBinding(d)
        \/ StorePseudonym(d)

Spec == Init /\ [][Next]_vars

\* An operation that runs gets on; one that waits for the device's lock gets
\* it in its turn, and reconciling is asked for at every connect.
Steps(d) ==
    \/ ReadSnapshot(d) \/ SubmitChanges(d) \/ SubmitDenied(d)
    \/ SubmitConflicts(d) \/ SubmitAccepted(d) \/ RetryAfterConflict(d)
    \/ FailOp(d) \/ GetGroup(d) \/ StoreState(d) \/ DeriveLines(d)
    \/ AuthorizeBinding(d) \/ PushBinding(d) \/ StorePseudonym(d)
FairSpec ==
    Spec /\ \A d \in Devices : WF_vars(Steps(d)) /\ SF_vars(Reconcile(d))

----------------------------------------------------------------------------
(* Correctness *)

\* The types of the state.
Rosters == UNION {[S -> Roles] : S \in SUBSET Accounts}
Askers == UNION {[S -> Devices] : S \in SUBSET Accounts}
Blobs == [mem : Rosters, inv : Rosters, look : Nat, by : Accounts \cup {Nobody}]
Copies == [rev : Nat, blob : Blobs]
Changes == [kind : AllKinds \cup {"none"}, by : Devices, target : Accounts, role : Roles,
            policy : Policies]
LogRows == [blob : Blobs, change : Changes, member : Rosters, policy : Policies]
CachedRows == [row : BOOLEAN, rev : Nat, blob : Blobs, name : BOOLEAN]
Stages == {"idle", "asked", "checked", "conflict", "denied", "ok", "failed",
           "get", "got", "derive", "bind", "may bind", "bound"}
Servers == [rev : Nat, policy : Policies, member : Rosters, invited : Rosters, asking : Askers,
            names : SUBSET Devices, blob : Blobs]
Ops == [at : Stages, change : Changes, rev : Nat, blob : Blobs, policy : Policies, got : Copies,
        try : {1, 2}, rows : Seq(LogRows), after : {"keep", "bind", "undo", "forget"}]
EventLines == [rev : Nat, kind : AllKinds \cup {"none"}, by : Accounts \cup {Nobody}]
TypeOK ==
    /\ srv \in Servers
    /\ log \in Seq(LogRows) /\ Len(log) = srv.rev
    /\ cache \in [Devices -> CachedRows] /\ op \in [Devices -> Ops]
    /\ bg \in [Devices -> Copies] /\ shown \in [Devices -> SUBSET EventLines]
    /\ held \in [Devices -> BOOLEAN] /\ mail \subseteq Devices /\ upsets \in Nat

StateAt(r) == IF r = srv.rev THEN srv.blob ELSE log[r + 1].blob

\* Each revision is the one before it with exactly the logged change made to
\* it: however submits, retries, lost replies and fetches interleave, no
\* change is lost, applied twice or built on a stale state (the comparison of
\* revisions in apply_revision, the retry in submit_actions).  And it was
\* allowed by the membership, role and policy in force at that revision, though
\* the policy was read outside the transaction (submit_changes).
ChangesChain ==
    \A r \in 0..(srv.rev - 1) :
        LET row == log[r + 1] IN
        /\ StateAt(r + 1) = Effect(StateAt(r), row.change)
        /\ row.change.kind \notin SelfKinds =>
              /\ Who(row.change) \in DOMAIN row.member
              /\ row.member[Who(row.change)] >= LeastRole(row.change, row.policy)

LinkJoiners == {Who(log[i].change) : i \in {j \in 1..Len(log) :
                                              log[j].change.kind = "join"}}

\* The roster the members read in the encrypted state is the one the server
\* enforces, members, roles and invites, apart from accounts that came in
\* through a link (the tables and the blob are written by different parties).
RosterMatches ==
    \A x \in Accounts \ LinkJoiners :
        /\ x \in DOMAIN srv.member <=> x \in DOMAIN srv.blob.mem
        /\ x \in DOMAIN srv.member => srv.member[x] = srv.blob.mem[x]
        /\ x \in DOMAIN srv.invited <=> x \in DOMAIN srv.blob.inv
        /\ x \in DOMAIN srv.invited => srv.invited[x] = srv.blob.inv[x]

\* Both of them: what submit_changes and apply_revision promise together.
SubmissionsHold == ChangesChain /\ RosterMatches

\* What a device caches under a revision is the server's state of that
\* revision, also when a fetch without the lock overwrites it with an older
\* one (update_group_state).
CacheIsARevision ==
    \A d \in Devices :
        Has(d) /\ cache[d].blob # NoBlob =>
            cache[d].rev <= srv.rev /\ cache[d].blob = StateAt(cache[d].rev)

\* A line of a timeline tells of the change that made its revision, on every
\* device (derive_change_events, the id of persist_group_event).
LinesAreTrue ==
    \A d \in Devices : \A e \in shown[d] :
        e.rev \in 1..srv.rev /\ e.kind = log[e.rev].change.kind

\* docs/04: a device that knows its pseudonym receives the group's messages
\* for as long as its account is a member.
BoundWhileMember ==
    \A d \in Devices :
        cache[d].name /\ IsMember(Owner[d]) /\ Idle(d) /\ d \notin mail
            => d \in srv.names

\* docs/04: a device that holds the group's key comes to have a pseudonym of
\* its own registered, whichever sibling joined and whatever reply was lost,
\* as long as its account stays in the group (reconcile_synced_groups).
EveryDeviceBinds ==
    <>[](\A d \in Devices : Has(d) /\ IsMember(Owner[d]) => d \in srv.names)
=============================================================================
