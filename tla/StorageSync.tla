---------------------------- MODULE StorageSync ----------------------------
(***************************************************************************)
(* Durable device state (contacts, blocks, group keys, conversation        *)
(* settings, profiles) kept the same on every device of an account:        *)
(*                                                                         *)
(*   - the homeserver's per-record store: a version assigned from one      *)
(*     per-account counter, compare-and-swap writes in one transaction per *)
(*     request, and delta pulls by that counter (routes/storage.rs,        *)
(*     db/storage.rs);                                                     *)
(*   - on every device the domain rows, the sidecar of versions and dirty  *)
(*     bits that SQL triggers maintain, and the pull cursor                *)
(*     (store/storage_sync.rs);                                            *)
(*   - the engine: one sync at a time per device, a paged pull that writes *)
(*     through to the rows, then a push of every dirty row                 *)
(*     (app-core storage_sync.rs).                                         *)
(*                                                                         *)
(* A value stands for the edit that made it; an edit may be a deletion, and *)
(* value 0 is the row nobody has made yet.  Sealing, record ids and quotas  *)
(* are left out: a record whose ciphertext does not open is skipped, which  *)
(* no device of the same account meets.  Record types a build does not know *)
(* and the merge rules inside an adapter are left out too.                  *)
(***************************************************************************)
EXTENDS Naturals, Sequences, SequencesExt, FiniteSets

CONSTANTS
    Devices,       \* devices of the account
    MaxRecord,     \* records are numbered in the order push lists them
    Writers,       \* Writers[k]: devices whose user edits record k
    Deletions,     \* edits that delete the row
    PullLimit,     \* page size of a pull
    MaxEdits,      \* bound: local edits in all
    MaxFaults,     \* bound: syncs cut short, replies lost, rows not applied
    MayFail,       \* which of the failures "abort", "reply" and "apply"
    OffLock        \* records that some feature code writes without the lock

Records == 1..MaxRecord
Edits   == 0..MaxEdits

ASSUME DeviceAssumption == IsFiniteSet(Devices)
ASSUME RecordAssumption == MaxRecord \in Nat \ {0} /\ PullLimit \in Nat \ {0}
ASSUME EditAssumption ==
    /\ MaxEdits \in Nat /\ MaxFaults \in Nat
    /\ Deletions \subseteq 1..MaxEdits
    /\ Writers \in [Records -> SUBSET Devices]
ASSUME FaultAssumption ==
    OffLock \subseteq Records /\ MayFail \subseteq {"abort", "reply", "apply"}

VARIABLES
    items,     \* the server's record: its version and value
    seq,       \* the account's version counter
    row,       \* row[d][k]: the domain row on device d
    ver,       \* ver[d][k]: the server version device d last saw
    dirty,     \* dirty[d][k]: a local change waits to be pushed
    cursor,    \* cursor[d]: the counter up to which d has pulled
    job,       \* job[d]: the sync that runs on d
    edits,     \* edits made so far
    mine,      \* mine[d][k]: the last edit made on d itself
    reached,   \* edits the server has accepted
    missed,    \* missed[d]: records whose pulled version d failed to apply
    overtaken, \* overtaken[d]: records that d last marked clean at a value
               \* other than the one the sync had exchanged
    faults     \* what has failed, in order

vars == <<items, seq, row, ver, dirty, cursor, job, edits, mine, reached,
          missed, overtaken, faults>>
server == <<items, seq, reached>>
user   == <<edits, mine>>
slips  == <<missed, overtaken>>

----------------------------------------------------------------------------
(* Helpers *)

Gone(v) == v = 0 \/ v \in Deletions

NoWrites == [k \in {} |-> 0]
NoJob == [phase |-> "idle", at |-> 0, page |-> <<>>, more |-> FALSE,
          todo |-> NoWrites, writes |-> NoWrites, applied |-> NoWrites]

\* f without k, and f with k mapped to v.
Forget(f, k) == [j \in DOMAIN f \ {k} |-> f[j]]
Note(f, k, v) == [j \in DOMAIN f \cup {k} |-> IF j = k THEN v ELSE f[j]]

Fault(what) == /\ what \in MayFail /\ Len(faults) < MaxFaults
               /\ faults' = Append(faults, what)

Init ==
    /\ items = [k \in Records |-> [version |-> 0, value |-> 0]]
    /\ seq = 0
    /\ row = [d \in Devices |-> [k \in Records |-> 0]]
    /\ ver = [d \in Devices |-> [k \in Records |-> 0]]
    /\ dirty = [d \in Devices |-> [k \in Records |-> FALSE]]
    /\ cursor = [d \in Devices |-> 0]
    /\ job = [d \in Devices |-> NoJob]
    /\ edits = 0 /\ mine = row /\ reached = {}
    /\ missed = [d \in Devices |-> {}] /\ overtaken = missed /\ faults = <<>>

----------------------------------------------------------------------------
(* Feature code *)

\* Most feature code holds the lock that a sync holds too; report_and_block
\* and save_shared_contact write contact rows without it.
MayWrite_Any(d, k) == TRUE   \* mutant: no writer takes the lock
MayWrite(d, k) == k \in OffLock \/ job[d].phase = "idle"

\* A write to a synced table: the trigger marks the row dirty in the same
\* transaction.
LocalEdit(d, k) ==
    /\ d \in Writers[k]
    /\ edits < MaxEdits
    /\ MayWrite(d, k)
    /\ edits + 1 \in Deletions => ~Gone(row[d][k])
    /\ edits' = edits + 1
    /\ row' = [row EXCEPT ![d][k] = edits + 1]
    /\ dirty' = [dirty EXCEPT ![d][k] = TRUE]
    /\ mine' = [mine EXCEPT ![d][k] = edits + 1]
    /\ UNCHANGED <<server, ver, cursor, job, slips, faults>>

----------------------------------------------------------------------------
(* The pull: app-core storage_sync.rs, pull; routes/storage.rs, pull_items *)

\* run_scheduler, sync_storage_async: one sync at a time, under the lock.
StartSync(d) ==
    /\ job[d].phase = "idle"
    /\ job' = [job EXCEPT ![d] = [NoJob EXCEPT !.phase = "pull",
                                               !.at = cursor[d]]]
    /\ UNCHANGED <<server, row, ver, dirty, cursor, user, slips, faults>>

\* Records past the cursor in the order of their versions, at most a page of
\* them: what is left out is later, and the page is full.
Past_OffByOne(c) == {k \in Records : items[k].version > c + 1} \* mutant
Past(c) == {k \in Records : items[k].version > c}
IsPage(ks, c) ==
    /\ \A i \in DOMAIN ks : ks[i] \in Past(c)
    /\ \A i, j \in DOMAIN ks : i < j => items[ks[i]].version < items[ks[j]].version
    /\ \A k \in Past(c) :
          \/ \E i \in DOMAIN ks : ks[i] = k
          \/ /\ Len(ks) = PullLimit
             /\ \A i \in DOMAIN ks : items[ks[i]].version < items[k].version
Copy(k) == [key |-> k, version |-> items[k].version, value |-> items[k].value]
NextCursor_High(p, c) == seq   \* mutant: the account's counter, not the page's
NextCursor(p, c) == IF p = <<>> THEN c ELSE p[Len(p)].version

PullPage(d) ==
    /\ job[d].phase = "pull"
    /\ \E n \in 0..PullLimit : \E ks \in [1..n -> Records] :
          /\ IsPage(ks, job[d].at)
          /\ LET p == [i \in 1..n |-> Copy(ks[i])]
             IN  job' = [job EXCEPT ![d].phase = "apply",
                                    ![d].page = p,
                                    ![d].more = (n = PullLimit),
                                    ![d].at = NextCursor(p, @)]
    /\ UNCHANGED <<server, row, ver, dirty, cursor, user, slips, faults>>

Newer_OrSame(d, it) == it.version >= ver[d][it.key]   \* mutant
Newer(d, it) == it.version > ver[d][it.key]

SkipItem(d) ==
    /\ job[d].phase = "apply" /\ job[d].page # <<>>
    /\ ~Newer(d, Head(job[d].page))
    /\ job' = [job EXCEPT ![d].page = Tail(@)]
    /\ UNCHANGED <<server, row, ver, dirty, cursor, user, slips, faults>>

\* The adapter writes the row; its own trigger marks it dirty, unless there
\* was no row to delete.
ApplyItem(d) ==
    /\ job[d].phase = "apply" /\ job[d].page # <<>>
    /\ LET it == Head(job[d].page)
       IN  /\ Newer(d, it)
           /\ row' = [row EXCEPT ![d][it.key] = it.value]
           /\ dirty' = [dirty EXCEPT ![d][it.key] =
                           @ \/ ~(Gone(it.value) /\ Gone(row[d][it.key]))]
    /\ job' = [job EXCEPT ![d].phase = "meta"]
    /\ UNCHANGED <<server, ver, cursor, user, slips, faults>>

\* A row is marked clean for the value the sync exchanged, whatever has been
\* written to it meanwhile.
Overtaken(d, k, exchanged) ==
    IF row[d][k] = exchanged THEN overtaken[d] \ {k} ELSE overtaken[d] \cup {k}

\* set_sync_meta: the version is recorded and the row is clean.
RecordVersion(d) ==
    /\ job[d].phase = "meta"
    /\ LET it == Head(job[d].page)
       IN  /\ ver' = [ver EXCEPT ![d][it.key] = it.version]
           /\ dirty' = [dirty EXCEPT ![d][it.key] = FALSE]
           /\ missed' = [missed EXCEPT ![d] = @ \ {it.key}]
           /\ overtaken' = [overtaken EXCEPT ![d] = Overtaken(d, it.key, it.value)]
    /\ job' = [job EXCEPT ![d].phase = "apply", ![d].page = Tail(@)]
    /\ UNCHANGED <<server, row, cursor, user, faults>>

\* The adapter fails: logged, and the pull goes on past the record.
ApplyFails(d) ==
    /\ Fault("apply")
    /\ job[d].phase = "apply" /\ job[d].page # <<>>
    /\ Newer(d, Head(job[d].page))
    /\ missed' = [missed EXCEPT ![d] = @ \cup {Head(job[d].page).key}]
    /\ job' = [job EXCEPT ![d].page = Tail(@)]
    /\ UNCHANGED <<server, row, ver, dirty, cursor, user, overtaken>>

\* The cursor is saved once, after the last page.
NextPage(d) ==
    /\ job[d].phase = "apply" /\ job[d].page = <<>> /\ job[d].more
    /\ job' = [job EXCEPT ![d].phase = "pull"]
    /\ UNCHANGED <<server, row, ver, dirty, cursor, user, slips, faults>>
EndPull(d) ==
    /\ job[d].phase = "apply" /\ job[d].page = <<>> /\ ~job[d].more
    /\ cursor' = [cursor EXCEPT ![d] = job[d].at]
    /\ job' = [job EXCEPT ![d].phase = "push"]
    /\ UNCHANGED <<server, row, ver, dirty, user, slips, faults>>

----------------------------------------------------------------------------
(* The push: app-core storage_sync.rs, push; routes/storage.rs, put_items *)

\* dirty_records: which rows to push, and which of them are deleted.
DirtyRecords(d) == {k \in Records : dirty[d][k]}
ListDirty(d) ==
    /\ job[d].phase = "push"
    /\ job' = [job EXCEPT ![d] =
          IF DirtyRecords(d) = {} THEN NoJob
          ELSE [NoJob EXCEPT !.phase = "read",
                             !.todo = [k \in DirtyRecords(d) |-> row[d][k]]]]
    /\ UNCHANGED <<server, row, ver, dirty, cursor, user, slips, faults>>

\* A row listed as deleted is pushed as a tombstone; any other is read now,
\* and becomes a tombstone if it has gone meanwhile.
ReadRow(d) ==
    /\ job[d].phase = "read"
    /\ \E k \in DOMAIN job[d].todo :
          /\ \A i \in DOMAIN job[d].todo : k <= i
          /\ LET t == job[d].todo[k]
                 v == IF Gone(t) THEN t ELSE row[d][k]
             IN  job' = [job EXCEPT ![d].todo = Forget(@, k),
                                    ![d].writes = Note(@, k, v)]
    /\ UNCHANGED <<server, row, ver, dirty, cursor, user, slips, faults>>

\* put_item for each write in turn, in one transaction: a write lands where
\* its expected version is the stored one, with the counter's next value.
Lands(d) == {k \in DOMAIN job[d].writes : items[k].version = ver[d][k]}
VersionOf(S, k) == seq + Cardinality({j \in S : j <= k})
PutItems(d) ==
    /\ items' = [k \in Records |->
          IF k \in Lands(d) THEN [version |-> VersionOf(Lands(d), k),
                                  value |-> job[d].writes[k]]
                            ELSE items[k]]
    /\ seq' = seq + Cardinality(Lands(d))
    /\ reached' = reached \cup {job[d].writes[k] : k \in Lands(d)}

\* The reply: the version each write that landed was given.
Applied_Conflicts(d) ==   \* mutant: conflicts are taken for applied
    [k \in DOMAIN job[d].writes |->
        IF k \in Lands(d) THEN VersionOf(Lands(d), k) ELSE items[k].version]
Applied(d) == [k \in Lands(d) |-> VersionOf(Lands(d), k)]

ReadyToPush(d) == job[d].phase = "read" /\ DOMAIN job[d].todo = {}
Push(d) ==
    /\ ReadyToPush(d)
    /\ PutItems(d)
    /\ job' = [job EXCEPT ![d] =
          [NoJob EXCEPT !.phase = "mark", !.writes = job[d].writes,
                        !.applied = Applied(d)]]
    /\ UNCHANGED <<row, ver, dirty, cursor, user, slips, faults>>

\* The request is carried out and its reply lost: push returns the error.
PushReplyLost(d) ==
    /\ ReadyToPush(d) /\ Fault("reply")
    /\ PutItems(d)
    /\ job' = [job EXCEPT ![d] = NoJob]
    /\ UNCHANGED <<row, ver, dirty, cursor, user, slips>>

\* set_sync_meta_clean for each applied write; conflicts stay dirty.
MarkClean(d, k) ==
    /\ job[d].phase = "mark" /\ k \in DOMAIN job[d].applied
    /\ ver' = [ver EXCEPT ![d][k] = job[d].applied[k]]
    /\ dirty' = [dirty EXCEPT ![d][k] = FALSE]
    /\ overtaken' = [overtaken EXCEPT ![d] = Overtaken(d, k, job[d].writes[k])]
    /\ job' = [job EXCEPT ![d].applied = Forget(@, k)]
    /\ UNCHANGED <<server, row, cursor, user, missed, faults>>
EndPush(d) ==
    /\ job[d].phase = "mark" /\ DOMAIN job[d].applied = {}
    /\ job' = [job EXCEPT ![d] = NoJob]
    /\ UNCHANGED <<server, row, ver, dirty, cursor, user, slips, faults>>

\* A request or a store call fails, or the process dies: what the sync held
\* in memory is gone, and the next sync starts from the stored cursor.
Abort(d) ==
    /\ job[d].phase # "idle" /\ Fault("abort")
    /\ job' = [job EXCEPT ![d] = NoJob]
    /\ UNCHANGED <<server, row, ver, dirty, cursor, user, slips>>

----------------------------------------------------------------------------
(* The specification *)

SyncStep(d) ==
    \/ StartSync(d) \/ PullPage(d) \/ SkipItem(d) \/ ApplyItem(d)
    \/ RecordVersion(d) \/ NextPage(d) \/ EndPull(d)
    \/ ListDirty(d) \/ ReadRow(d) \/ Push(d) \/ EndPush(d)
    \/ \E k \in DOMAIN job[d].applied : MarkClean(d, k)

Next ==
    \E d \in Devices :
        \/ SyncStep(d)
        \/ ApplyFails(d) \/ PushReplyLost(d) \/ Abort(d)
        \/ \E k \in Records : LocalEdit(d, k)

Spec == Init /\ [][Next]_vars

\* run_scheduler syncs at the latest at its next safety poll, for ever.
FairSpec == Spec /\ \A d \in Devices : WF_vars(SyncStep(d))

----------------------------------------------------------------------------
(* Correctness *)

Phases == {"idle", "pull", "apply", "meta", "push", "read", "mark"}
PageItems == [key : Records, version : Nat, value : Edits]
Some(T) == UNION {[S -> T] : S \in SUBSET Records}
Jobs == [phase : Phases, at : Nat, page : Seq(PageItems), more : BOOLEAN,
         todo : Some(Edits), writes : Some(Edits), applied : Some(Nat)]

\* The types of the state: versions, edits, the parts of a running sync.
TypeOK ==
    /\ items \in [Records -> [version : Nat, value : Edits]]
    /\ seq \in Nat
    /\ row \in [Devices -> [Records -> Edits]]
    /\ mine \in [Devices -> [Records -> Edits]]
    /\ ver \in [Devices -> [Records -> Nat]]
    /\ dirty \in [Devices -> [Records -> BOOLEAN]]
    /\ cursor \in [Devices -> Nat]
    /\ job \in [Devices -> Jobs]
    /\ \A d \in Devices : job[d].phase = "meta" => job[d].page # <<>>
    /\ edits \in Edits /\ reached \subseteq Edits
    /\ missed \in [Devices -> SUBSET Records]
    /\ overtaken \in [Devices -> SUBSET Records]
    /\ faults \in Seq(MayFail)

\* A row marked clean at the server's version shows the server's value: no
\* interleaving of pages, applies, pushes, lost replies and aborted syncs
\* leaves a device clean, current and different (set_sync_meta and
\* set_sync_meta_clean clear the dirty bit of what was really exchanged).  The
\* one way to it is a write that overtakes the sync between the statement that
\* reads or writes the row and the one that marks it clean,
CleanMeansSame ==
    \A d \in Devices, k \in Records :
        ~dirty[d][k] /\ ver[d][k] = items[k].version
            => row[d][k] = items[k].value \/ k \in overtaken[d]

\* and whatever a writer takes the lock for is never overtaken.
LockHolds == \A d \in Devices : overtaken[d] \subseteq OffLock

\* A saved cursor covers what it has passed: a record at or below it is known
\* at its version, or has since moved past the cursor (pull saves the cursor
\* after the last page only).  The one gap is a record whose adapter failed.
CursorCovers ==
    \A d \in Devices, k \in Records :
        items[k].version <= cursor[d]
            => ver[d][k] = items[k].version \/ k \in missed[d]

\* All of them: what is clean is the same, only what is written without the
\* lock is overtaken, and what the cursor has passed is known.
SyncHolds == CleanMeansSame /\ LockHolds /\ CursorCovers

\* An edit is never dropped before the server has accepted it, unless the
\* same device edited the row again: it is on the server or still waits.  That
\* is promised where no other device edits the record, as long as no push of
\* the device is cut off from its reply (a failing adapter is no excuse), but
\* for an edit that overtook the sync that marked its row clean.
NoEditLost ==
    \A d \in Devices, k \in Records :
        /\ ToSet(faults) \subseteq {"apply"}
        /\ \A o \in Devices \ {d} : mine[o][k] = 0
        => \/ mine[d][k] \in reached \cup {0}
           \/ dirty[d][k] /\ row[d][k] = mine[d][k]
           \/ k \in overtaken[d]

\* Once the users stop editing, every device comes to show what the server
\* holds, with nothing left to push (the poll of run_scheduler), but for a
\* record it failed to apply or that a write overtook.
Converges ==
    <>[](\A d \in Devices, k \in Records :
            \/ ~dirty[d][k] /\ row[d][k] = items[k].value
            \/ k \in missed[d] \cup overtaken[d])

=============================================================================
