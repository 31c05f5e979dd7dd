------------------------------ MODULE Contacts ------------------------------
(***************************************************************************)
(* What one account makes of one other person: the contact row on each of   *)
(* its devices (curated, blocked, a request waiting), the gate an incoming  *)
(* message passes, whether the person gets the profile key, and the merge   *)
(* of the rows through storage sync (store/contacts.rs, app-core             *)
(* messaging.rs SenderGate, lib.rs block_contact to report_and_block,       *)
(* storage_sync.rs ContactAdapter).                                        *)
(*                                                                         *)
(* Of the sync this keeps one record, its version and the order of the      *)
(* statements; StorageSync has the rest.  Feature code holds the lock that  *)
(* a sync holds, except report_and_block and save_shared_contact.  Names,   *)
(* recency and group messages are left out.                                *)
(***************************************************************************)
EXTENDS Integers, Sequences, FiniteSets

CONSTANTS
    Mine,          \* devices of the account
    MaxHappenings  \* bound: blocks and unblocks, other gestures of the user,
                   \* messages of the person, in all

ASSUME ContactAssumption ==
    /\ IsFiniteSet(Mine) /\ Mine # {}
    /\ MaxHappenings \in Nat

VARIABLES
    verdicts,  \* blocks (TRUE) and unblocks (FALSE) so far, on any device
    contact,   \* contact[d]: the row; verdict is the last one it reflects
    seen,      \* seen[d]: version of the record the device has seen
    unsent,    \* unsent[d]: the row waits to be pushed
    record,    \* the homeserver's record of the row
    syncing,   \* syncing[d]: the sync under way
    vouched,   \* devices whose cached account record says: a Project's bot
    dms,       \* dms[d]: messages not yet received on d
    gate,      \* gate[d]: the message that has been gated on d
    asking,    \* devices whose consumer has been handed a request
    keyHeld,   \* the person has been sent the profile key
    welcomed,  \* bookkeeping: the user has made a deliberate gesture
    ungated,   \* bookkeeping: the user has sent what no gate looks at
    slipped,   \* bookkeeping: verdicts a sync on their device took for pushed
    parted,    \* bookkeeping: a device is curated and its record is not
    happenings

contactVars == <<verdicts, contact, seen, unsent, record, syncing, vouched, dms, gate,
                asking, keyHeld, welcomed, ungated, slipped, parted, happenings>>
contactRows == <<contact, unsent>>
sync == <<seen, record, syncing, slipped, parted>>
inbound == <<dms, gate, asking>>
gestures == <<welcomed, ungated>>

NoRow == [curated |-> FALSE, verdict |-> 0, pending |-> FALSE]
NotSyncing == [step |-> "idle", version |-> 0, curated |-> FALSE, verdict |-> 0]
NoGate == [step |-> "none", curated |-> FALSE, request |-> FALSE]

ContactsInit ==
    /\ verdicts = <<>> /\ contact = [d \in Mine |-> NoRow]
    /\ seen = [d \in Mine |-> 0] /\ unsent = [d \in Mine |-> FALSE]
    /\ record = [version |-> 0, curated |-> FALSE, verdict |-> 0]
    /\ syncing = [d \in Mine |-> NotSyncing]
    /\ vouched \in SUBSET Mine
    /\ dms = [d \in Mine |-> 0] /\ gate = [d \in Mine |-> NoGate] /\ asking = {}
    /\ keyHeld = FALSE /\ welcomed = FALSE /\ ungated = FALSE /\ slipped = {} /\ parted = FALSE
    /\ happenings = 0

BlockedBy(n) == n # 0 /\ verdicts[n]
Blocked(d) == BlockedBy(contact[d].verdict)
Unlocked(d) == syncing[d].step = "idle"

\* Any write to the table marks the row, whatever column it changes.
Write(d, row) ==
    contact' = [contact EXCEPT ![d] = row] /\ unsent' = [unsent EXCEPT ![d] = TRUE]

Happens == happenings < MaxHappenings /\ happenings' = happenings + 1

----------------------------------------------------------------------------
(* The user *)

Judge(d, block) ==
    /\ Happens
    /\ verdicts' = Append(verdicts, block)
    /\ Write(d, [contact[d] EXCEPT !.verdict = Len(verdicts) + 1,
                                   !.pending = @ /\ ~block])
    /\ UNCHANGED <<sync, vouched, inbound, keyHeld, gestures>>

BlockContact(d) == Unlocked(d) /\ ~Blocked(d) /\ Judge(d, TRUE)
UnblockContact(d) == Unlocked(d) /\ Blocked(d) /\ Judge(d, FALSE)
ReportAndBlock(d) == ~Blocked(d) /\ Judge(d, TRUE)

\* A text carries the profile key, and curates once it is sent: not if a later
\* step of the send fails, or touch_contact, whose failure nobody hears of.
SendDm(d) ==
    /\ Unlocked(d) /\ ~Blocked(d) /\ Happens
    /\ keyHeld' = TRUE /\ welcomed' = TRUE
    /\ \/ Write(d, [contact[d] EXCEPT !.curated = TRUE])
       \/ UNCHANGED contactRows
    /\ UNCHANGED <<verdicts, sync, vouched, inbound, ungated>>

\* A reaction, an edit, a deletion, a change of the timer: with the key, but
\* nothing asks whether the person is blocked, and nothing curates.
SendUngated(d) ==
    /\ Unlocked(d) /\ Happens
    /\ keyHeld' = TRUE /\ ungated' = TRUE
    /\ UNCHANGED <<verdicts, contactRows, sync, vouched, inbound, welcomed>>

\* A read receipt goes to a curated sender only.
SendReadReceipt(d) ==
    /\ Unlocked(d) /\ contact[d].curated
    /\ keyHeld' = TRUE
    /\ UNCHANGED <<verdicts, contactRows, sync, vouched, inbound, gestures, happenings>>

\* An invitation curates, if touch_contact succeeds, and carries the key.
InviteToGroup(d) ==
    /\ Unlocked(d) /\ Happens
    /\ keyHeld' = TRUE /\ welcomed' = TRUE
    /\ \/ Write(d, [contact[d] EXCEPT !.curated = TRUE])
       \/ UNCHANGED contactRows
    /\ UNCHANGED <<verdicts, sync, vouched, inbound, ungated>>

AcceptRequest(d) ==
    /\ Unlocked(d) /\ Happens /\ welcomed' = TRUE
    /\ Write(d, [contact[d] EXCEPT !.curated = TRUE, !.pending = FALSE])
    /\ UNCHANGED <<verdicts, sync, vouched, inbound, keyHeld, ungated>>

SaveSharedContact(d) ==
    /\ Happens /\ welcomed' = TRUE
    /\ Write(d, [contact[d] EXCEPT !.curated = TRUE])
    /\ UNCHANGED <<verdicts, sync, vouched, inbound, keyHeld, ungated>>

DeleteRequest(d) ==
    /\ Unlocked(d) /\ contact[d].pending /\ Happens
    /\ Write(d, [contact[d] EXCEPT !.pending = FALSE])
    /\ UNCHANGED <<verdicts, sync, vouched, inbound, keyHeld, gestures>>

----------------------------------------------------------------------------
(* A message arrives: SenderGate, process_decrypted, receive_messages *)

PersonSends ==
    /\ Happens
    /\ dms' = [d \in Mine |-> dms[d] + 1]
    /\ UNCHANGED <<verdicts, contactRows, sync, vouched, gate, asking, keyHeld, gestures>>

Passes(d) == contact[d].curated \/ d \in vouched
IsRequest(d) == ~Blocked(d) /\ ~Passes(d)

\* A blocked sender's message is dropped; the gate is read under the lock.
SenderGate(d) ==
    /\ Unlocked(d) /\ dms[d] > 0 /\ gate[d].step = "none"
    /\ dms' = [dms EXCEPT ![d] = @ - 1]
    /\ gate' = IF Blocked(d) THEN gate
               ELSE [gate EXCEPT ![d] = [step |-> "gated", curated |-> contact[d].curated,
                                         request |-> IsRequest(d)]]
    /\ UNCHANGED <<verdicts, contactRows, sync, vouched, asking, keyHeld, gestures, happenings>>

\* delivery_receipt; the key goes to an accepted sender only.
WithKey_Passing(d) == ~gate[d].request
WithKey(d) == gate[d].curated
DeliveryReceipt(d) ==
    /\ Unlocked(d) /\ gate[d].step = "gated"
    /\ keyHeld' = (keyHeld \/ WithKey(d))
    /\ gate' = [gate EXCEPT ![d] = NoGate]
    /\ asking' = IF gate[d].request THEN asking \cup {d} ELSE asking
    /\ UNCHANGED <<verdicts, contactRows, sync, vouched, dms, gestures, happenings>>

\* The consumer records the request, some time later.
SetPendingRequest(d) ==
    /\ Unlocked(d) /\ d \in asking /\ asking' = asking \ {d}
    /\ Write(d, [contact[d] EXCEPT !.pending = TRUE])
    /\ UNCHANGED <<verdicts, sync, vouched, dms, gate, keyHeld, gestures, happenings>>

----------------------------------------------------------------------------
(* Sync: pull, then push *)

SyncGoes(d, s) == syncing' = [syncing EXCEPT ![d] = s]
KeepUser == UNCHANGED <<verdicts, vouched, inbound, keyHeld, gestures, happenings>>

Fresh_ByTwo(d) == record.version > seen[d] + 1
Fresh(d) == record.version > seen[d]
Pull(d) ==
    /\ syncing[d].step = "idle"
    /\ SyncGoes(d, [step |-> IF Fresh(d) THEN "apply" ELSE "list",
                version |-> record.version, curated |-> record.curated,
                verdict |-> record.verdict])
    /\ UNCHANGED <<contactRows, seen, record, slipped, parted>> /\ KeepUser

\* apply_synced_contact: curated is kept, blocked is overwritten, whether or
\* not the row has changes of its own.
Merged(d) ==
    [contact[d] EXCEPT !.curated = @ \/ syncing[d].curated, !.verdict = syncing[d].verdict]
ApplySyncedContact(d) ==
    /\ syncing[d].step = "apply"
    /\ Write(d, Merged(d))
    /\ parted' = (parted \/ (contact[d].curated /\ ~syncing[d].curated))
    /\ SyncGoes(d, [syncing[d] EXCEPT !.step = "meta"])
    /\ UNCHANGED <<seen, record, slipped>> /\ KeepUser

\* set_sync_meta and set_sync_meta_clean: the row counts as exchanged, with
\* what has been written to it since.
Exchanged(d) ==
    /\ seen' = [seen EXCEPT ![d] = syncing[d].version]
    /\ unsent' = [unsent EXCEPT ![d] = FALSE]
    /\ slipped' = IF contact[d].verdict = syncing[d].verdict THEN slipped
                  ELSE slipped \cup {contact[d].verdict}
    /\ parted' = (parted \/ (contact[d].curated /\ ~syncing[d].curated))

SetSyncMeta(d) ==
    /\ syncing[d].step = "meta" /\ Exchanged(d)
    /\ SyncGoes(d, [syncing[d] EXCEPT !.step = "list"])
    /\ UNCHANGED <<contact, record>> /\ KeepUser

\* dirty_records and the adapter's read.
ReadDirty(d) ==
    /\ syncing[d].step = "list"
    /\ SyncGoes(d, IF unsent[d]
               THEN [step |-> "push", version |-> seen[d], curated |-> contact[d].curated,
                     verdict |-> contact[d].verdict]
               ELSE NotSyncing)
    /\ UNCHANGED <<contactRows, seen, record, slipped, parted>> /\ KeepUser

\* put_item
AtExpected_Any(d) == TRUE
AtExpected(d) == record.version = syncing[d].version
PushRecord(d) ==
    /\ syncing[d].step = "push"
    /\ IF AtExpected(d)
       THEN /\ record' = [version |-> record.version + 1, curated |-> syncing[d].curated,
                          verdict |-> syncing[d].verdict]
            /\ SyncGoes(d, [syncing[d] EXCEPT !.step = "mark", !.version = record.version + 1])
       ELSE SyncGoes(d, NotSyncing) /\ UNCHANGED record
    /\ UNCHANGED <<contactRows, seen, slipped, parted>> /\ KeepUser

SetSyncMetaClean(d) ==
    /\ syncing[d].step = "mark" /\ Exchanged(d)
    /\ SyncGoes(d, NotSyncing)
    /\ UNCHANGED <<contact, record>> /\ KeepUser

----------------------------------------------------------------------------
SyncContact(d) ==
    \/ ApplySyncedContact(d) \/ SetSyncMeta(d) \/ ReadDirty(d) \/ PushRecord(d)
    \/ SetSyncMetaClean(d)
    \/ (unsent[d] \/ Fresh(d)) /\ Pull(d)
ContactsNext ==
    \/ PersonSends
    \/ \E d \in Mine :
          \/ BlockContact(d) \/ UnblockContact(d) \/ ReportAndBlock(d)
          \/ SendDm(d) \/ SendUngated(d) \/ SendReadReceipt(d) \/ InviteToGroup(d)
          \/ AcceptRequest(d) \/ SaveSharedContact(d) \/ DeleteRequest(d)
          \/ SenderGate(d) \/ DeliveryReceipt(d) \/ SetPendingRequest(d)
          \/ SyncContact(d)

ContactsSpec == ContactsInit /\ [][ContactsNext]_contactVars

\* The scheduler of storage sync runs at the latest at its next poll.
ContactsFairness == \A d \in Mine : WF_contactVars(SyncContact(d))

----------------------------------------------------------------------------
(* The profile key, which opens name and picture, is never sent to a person *)
(* on the program's own account: the user has written to them, accepted,    *)
(* invited or saved them on some device, or has sent one of the few things  *)
(* that no gate looks at, though "a stranger who DMs us must not get it     *)
(* until we accept" (messaging.rs:253-254): a reaction, an edit, a deletion *)
(* or a timer (send_to_target, set_conversation_timer), which a block does  *)
(* not stop either.  Being a Project's bot is not enough, and a mark that   *)
(* came round by storage sync is worth no more than the gesture behind it   *)
(* (delivery_receipt, send_read_receipt, ContactAdapter).                   *)
KeyOnlyByGesture == keyHeld => welcomed \/ ungated

(* A device goes back on a block, or on its lifting, only to take over a    *)
(* record that another device pushed without knowing of it: its own verdict *)
(* was still waiting to be pushed, or a sync that ran while report_and_block *)
(* wrote the row had taken it for pushed (apply_synced_contact, put_item).  *)
OnlyRacesForget ==
    [][\A d \in Mine :
          contact'[d].verdict < contact[d].verdict =>
              unsent[d] \/ contact[d].verdict \in slipped]_contactVars

(* In the end all devices block the person or none does, and all count them *)
(* as known or none does; but for what a sync took for pushed, and for a    *)
(* device that kept its own mark when it took over a record without it      *)
(* (ContactAdapter: curated merges, blocked is overwritten).                *)
DevicesAgree ==
    <>[](\A d, e \in Mine :
            /\ Blocked(d) = Blocked(e) \/ slipped # {}
            /\ contact[d].curated = contact[e].curated \/ parted)
=============================================================================
