# Avalanche: formal models

TLA+ models of the Avalanche messenger (this repository), model-checked with
TLC and in large part proved with TLAPS. Paths below are relative to
`src/core/crates/` unless they start with `src/`.

1. The system. 2. Plan. 3. Modules. 4. Runs. 5. Fairness. 6. Proofs.
7. What is named and excused. 8. Not modelled.

## 1. The system

Avalanche is a federated end-to-end encrypted messenger. A **homeserver**
(Axum and Postgres, `server/`) stores accounts, devices, prekeys, encrypted
groups, one message queue per device and one per group pseudonym, and opaque
records of an account's durable state. Every **client** links the same Rust
core (`app-core/` over `net/`, `crypto/`, `store/`): it owns the sessions, the
message history and the sync engines, and the platforms only draw what it says.
A **push relay** (`relay/`) wakes sleeping phones through APNs, FCM or
UnifiedPush. On iOS a **notification extension** runs the same core in a second
process over the same database.

| Component | State it keeps | Operations | Modelled in |
|---|---|---|---|
| Message queue and sockets (`server/src/routes/messages.rs`, `websocket.rs`) | `message_queue` rows; `ws_connections` (device to channel); per socket the pending acks | send, drain on connect, forward, ack, fetch, expire | `MessageDelivery` |
| Receive loop (`app-core/src/connection.rs`, `messaging.rs`) | the socket, the delivery in hand, the backgrounded flag | connect, decrypt, persist, ack, background, resume | `MessageDelivery`, `GroupInbox` |
| Notification extension (`app-core/src/lib.rs`, `fetch_notifications_inner`) | the polled batch | poll, decrypt, persist, ack the batch | `MessageDelivery`, `GroupInbox` |
| Storage sync (`app-core/src/storage_sync.rs`, `store/src/storage_sync.rs`, `server/src/routes/storage.rs`) | record versions and counter on the server; rows, version and dirty sidecar, cursor on the device | edit, pull, apply, push, mark clean | `StorageSync` |
| Contacts, blocks, message requests (`store/src/contacts.rs`, `app-core/src/messaging.rs`, `lib.rs`) | the contact row of each device | block, accept, delete, gate a message, merge through sync | `Contacts` |
| Group state (`server/src/db/groups.rs`, `app-core/src/groups.rs`) | encrypted state, revision, change log, members, pseudonyms; the cached row | create, submit, join, fetch, catch up, reconcile | `GroupState` |
| Group messages (`app-core/src/groups.rs`, `server/src/db/group_messages.rs`) | sender keys, buffered ciphertexts, pseudonym queues, subscriptions | distribute a key, send, receive, buffer, retry | `GroupInbox` |
| Direct-message dispatch (`app-core/src/messaging.rs`) | sessions per device | list devices, encrypt for each, send by WebSocket or HTTP, stale retry | `DmDispatch` |
| Prekeys (`server/src/db/prekeys.rs`, `app-core/src/prekeys.rs`) | one-time pools | fetch a bundle, refill | `DmDispatch` |
| Message history (`store/src/messages.rs`), read sync (`app-core/src/read_sync.rs`) | messages, tombstones, reactions, timers, pending read marks | save, edit, delete, react, mark read, expire | `MessageHistory` |
| Accounts, devices, sessions, recovery (`server/src/routes/auth.rs`, `devices.rs`, `provisioning.rs`, `registration.rs`, PLC directory) | accounts, devices, challenges, tokens, invites, recovery blobs | sign up, log in, recover, link, leave, delete | `Accounts` |
| Login with Avalanche (`server/src/routes/oauth.rs`) | grants, project tokens | mint, approve, poll, redeem | `ProjectLogin` |
| Projects (`server/src/routes/admin.rs`, `db/capabilities.rs`) | projects, capabilities, signing and signup keys | install, grant, revoke, mint, gate a registration | `Projects` |
| Attachments (`server/src/routes/attachments.rs`, `store/src/attachments.rs`) | slot rows and files; the recipient's rows | allocate, upload, delete, sweep, download | `Attachments` |
| Profiles and avatars (`server/src/routes/profile.rs`, `avatar.rs`) | encrypted profile, picture, cached copies | rename, set, clear, fetch | `Profiles` |
| Push (`relay/src/main.rs`, `server/src/routes/push.rs`, `store/src/push.rs`) | tokens per pseudonym, the device's pseudonyms | register, rotate, retire, wake | `PushTokens` |
| Reconnect timing, cryptography, clients and bots (`src/mobile`, `src/desktop`, `src/web`, `src/node`) | | | not modelled |

What is hard here, and what makes each part correct:

- **Delivery.** The server pushes at most once and only from memory; what makes
  delivery reliable is the drain on connect and the ack after the durable
  write. Decryption is destructive: a message can be opened once. So every
  order of kill, lost ack, restart, suspension and second process matters. A
  message must not leave the server before the device has it, must not appear
  twice, and must in the end be acked or expire.
- **Storage sync and contacts.** Pull and push are many small transactions with
  requests in between; a version, a dirty bit and a row have to agree
  afterwards whatever was interrupted, and devices must converge without
  echoing. A block must not be undone, and a stranger must not get the profile
  key, by a merge.
- **Groups.** State changes are checked against a snapshot and committed by
  comparing revisions, so what was checked and what is changed may differ.
  Content and keys travel in different queues, so either may arrive first.
- **History.** Edits, deletions, reactions and receipts overtake one another on
  the devices of two accounts, and the client saves each message twice.
- **Dispatch and prekeys.** One send is many requests, repeated in two ways,
  while devices are replaced and two senders empty one pool.
- **Accounts and services.** The server's handlers issue statement after
  statement, each committed alone; a caller that hangs up leaves the rest
  undone, and two callers interleave between any two statements.

`PROJECT.json` lists each of these hazards at its line with the properties that
cover it, or a note on why none does.

## 2. Plan

Every module planned is written: delivery first, then storage sync, group
state, the group inbox, dispatch, history, accounts, and the smaller services.
Of the theorems planned, the safety of delivery, storage sync, contacts, group
state, the group inbox, dispatch and prekeys, message history, accounts, logins,
Projects, attachments, pictures and push is proved.

Of the safety properties the passing runs check, each is stated by a theorem, or
is a part of one that is. Worth modelling next: a deletion that overtakes its
message, and libsignal's separate load and store of a session in the two
processes.

## 3. Modules

The models keep the control of the code and abstract its data: a message is its
place in a sequence or a model value, an encrypted blob is what it says, a
picture is the number of its upload. Each action is one step of a task between
two points at which another task can interfere: a request, a store call, a
transaction. Mutated forms of a definition (`Past_OffByOne`) stand beside the
definition they replace and are used by no specification.

### `MessageDelivery` (with `Mailbox`)

One device's mailbox, its sockets, its app process and its extension process.
All state in the code is keyed by the device and devices do not interact, so
one device is enough. Which variable stands for what:

| Variables | Code |
|---|---|
| `rowCt`, `queue` | table `message_queue`; `rowCt` remembers what each id held |
| `toPush` | `ws_pushes` in `send_messages`: committed, not yet pushed |
| `registered` | `AppState::ws_connections[device]` |
| `handler`, `chan`, `sent`, `pending` | one `handle_ws` task: its phase, `rx`, `next_server_id` and `PendingAcks` |
| `link`, `frames`, `acks` | the socket's path and what it carries in either direction, with the unbounded channels at both ends |
| `app`, `sock`, `work` | the backgrounded flag and the store gates; the socket of `run_receive_loop`; the delivery between `next_message` and `ack` |
| `ext`, `wake` | `fetch_notifications_inner`: the batch, what is left of it, the message in hand; a wakeup from the relay |
| `consumed`, `history` | the libsignal session in the store (which ciphertexts it has moved past); table `message_history` |
| `skipped`, `killed`, `unsaved`, `released`, `expired` | bookkeeping, so that the properties can tell why a message is gone |

The drain is one step because nothing else the device or the sender does can be
told apart inside it: the rows are read by one query and the channel keeps
later pushes. Decryption (`session::decrypt`) is one step. The delivery receipt
sent between decryption and the write only lengthens the time in which `work`
is decrypted. A ciphertext may be enqueued several times, because a sender whose
WebSocket request got no answer sends the same ciphertexts over HTTP. The
receiver is a human's account (`persist_incoming`), bodies are text messages
from others; `Blocked` holds messages of blocked senders, dropped after
decryption.

`Mailbox` is the abstract specification: messages are accepted, opened once or
given up, released only when handled, or expire. `ImplementsMailbox` says that
every step of `MessageDelivery` is a step of `Mailbox` or leaves its variables
alone, under `box <- rowCt`, `waiting <- queue`, `opened <- consumed`,
`givenUp <- skipped`.

### `StorageSync` and `Contacts` (with `MCStorageSync`)

`StorageSync` is the account's record store on the server and the sync engine
of every device. `job[d]` is the sync that runs on `d`: the phase of `pull` or
`push`, the page in hand, the listed and read rows, the applied writes. An
adapter's write and `set_sync_meta` are two steps, the request's writes on the
server one (they share a transaction). Triggers act inside the step that writes
the row. A page is any sequence of records past the cursor, in the order of
their versions, that leaves out only later ones. `missed[d]` remembers the
records whose adapter failed, `faults` what failed and in which order.
`OffLock` is the set of records that some feature code writes while a sync runs
(`save_shared_contact` and `report_and_block` take no lock); `overtaken[d]` are
the records that `d` last marked clean at a value other than the row's.

`Contacts` follows one person's contact row on every device of an account: the
user's gestures, the gate that an incoming message passes (read before the
message is processed, used after), the profile key, and the merge through sync,
which keeps the curated mark but overwrites the verdict. `report_and_block` and
`save_shared_contact` write without the lock. A verdict is its place in the
history of all verdicts, so that going back on one can be told. The key leaves
in five ways: with a text, which curates the contact unless a step after the
send fails; with a group invitation; with a read receipt, to a curated contact;
with the automatic delivery receipt, by the gate; and with what nothing gates
(`SendUngated`: reactions, edits, deletions, timer changes), which `ungated`
remembers.

`MCStorageSync` checks both in one run: each behaviour is of one `part`.

### `GroupState` (with `MCGroupState`)

One action-bound group. `srv` is the homeserver's group: revision, policy,
members, invites, join requests, pseudonyms and the encrypted state; `log` the
change log. On device `d`, `cache[d]` is the group row, `held[d]` an invite
waiting for the user, `shown[d]` the derived timeline lines, `op[d]` the one
operation under the lock, `bg[d]` what a fetch without the lock has read;
`mail` are devices a `GroupContext` is on its way to.

A submit is four steps: the client builds the change on its cache, the server
reads policy and membership outside its transaction, decides, and commits by
comparing the revision; a conflict makes the client fetch and try once more.
Joining, declining, catching up (state and log by two requests) and reconciling
are further operations. `TriedPolicies`, `TriedRoles` and `Kinds` bound what
the users try, not what the server accepts.

### `GroupInbox` (with `MCGroupInbox`)

From one sending device (`peer`: chain, who has its key, cached membership,
session) to one receiving device (`dev`: pseudonyms, keys, buffer, history).
`dmq` and `gq` are the two queues, `toPush` a group row committed and not
pushed, `net` the socket with its subscription list, `app` and `ext` the two
processes, `reg` which registration of the device is current. Direct messages
are taken as `MessageDelivery` shows them to be. A group row that does not open
is in hand (`"buffer"`, or `"failed"` in the extension) until it is buffered: the
two processes share the store and no lock, so the other one may act between.
`past` names accidents for the properties, and counts how often both processes
are at work at once, which `beside` bounds.

### `DmDispatch` (with `MCDmDispatch`)

Senders (`session`, `job`) and the devices of one recipient (`reg`, `pool`,
`queue`, `own`, `refill`, `opened`). A bundle request is several statements, so
two of them can be in the middle at once; a batch is enqueued row by row;
recovery replaces a device under its number in between. `reqs` are send
requests the server works on, `awaited` or not: a lost WebSocket reply leaves
one running while the HTTP request repeats it.

### `MessageHistory` (with `MCMessageHistory`)

One direct conversation on the devices of two accounts: `store[d]` is what the
device shows, `queue[d]` what is on its way to it in order, `sending` and
`resave` the client's send and its second save, `lock` what an operation has
sent and not yet mirrored to siblings, `marks` the pending read marks and those
in the sender's hands, `receipts` the receipts still to be sent. Receiving is two
steps, as in the code: `Open` decrypts, which works once, and sends the delivery
receipt of a text; `Receive` writes the store, which may fail, and acks. `opened`
are the devices between the two; a process that ends there has lost the message.

### `ProjectLogin`, `Accounts` (with `MCAccounts`)

`ProjectLogin` has the two OAuth grants, one step per statement: `grants`,
`tokens`, and in `call` what each request has read. `Accounts` extends it with
how an identity comes to be on a server and leaves: `plc` (the directory's
log), `blob`, `rows` (devices), `challenges`, `sessions`, `admission`; per
install `store` (what is saved) and `at` (where the process stands); `job` the
request the server carries out statement by statement, perhaps for a caller
that has gone; `pairing` the provisioning session.

### `Projects`, `Attachments`, `Profiles`, `PushTokens` (with `MCServices`)

- `Projects`: the adminbot's requests (`order`) and one registration
  (`applicant`), statement by statement, against the Project's row, its
  capability and its keys.
- `Attachments`: a blob is a row (`slots`) and a `file`, changed by separate
  statements of uploads, deletions and the sweep; `mine` is the recipient's row
  of one attachment.
- `Profiles`: `edit[c]` is a call that changes name or picture (blob, then
  profile, then the device's cache), `reading` a fetch on another device.
- `PushTokens`: `pushCall` is the registration under way, `relay` and `known`
  what relay and homeserver hold per pseudonym; `known` is `registered_at`.

These share no state the properties are about, so `MCServices` composes them,
and `Accounts`, as the `part`s of one run.

## 4. Runs

Twelve runs. Where a run explores several instances side by side, `Init` picks
one from a set (`Bounds`, `Limits`, `part`), so each behaviour keeps one
combination of small bounds; one large instance with all bounds at once would
not end. `CHECK_DEADLOCK` is off everywhere, because every system here may come
to rest: nobody writes and the bounds are used up.

| Run | Bounds that matter | Shows |
|---|---|---|
| `delivery_overlap` | 2 rows, 2 sockets, 1 upset, 1 fault, extension | `IInv` (the invariant the proofs use); `NothingVanishes`; `OneRowPerCiphertext`; `PushTargetsLiveHandler`; `ImplementsMailbox` |
| `delivery_settles` | 2 rows, 3 sockets, 1 upset, fair | `AckAfterDurableWrite`; `NoStrandedRow`: a queued row is on its way to a connected app; `EveryRowSettles`: each row is acked or expires |
| `sync_settles` | storage: 2 devices, a shared record, written off the lock, and one of one device, 3 edits with a deletion, pages of one, 1 abort, lost reply or failed adapter, fair; contacts: 2 devices, 3 happenings | `SyncHolds` (a clean row shows the server's value unless a write off the lock overtook its sync; the cursor passes only what failed to apply), `NoEditLost`, `Converges`; `KeyOnlyByGesture`, `OnlyRacesForget`, `DevicesAgree` |
| `group_state` | 2 devices of 2 accounts, 3 revisions, pages of 2, a group to ask into and an open one | `SubmissionsHold`: the log is a chain, the encrypted roster is the one enforced; `LinesAreTrue` |
| `group_siblings` | 2 devices of one account, 2 revisions, 2 upsets, one fetches without the lock, fair | `CacheIsARevision`; `EveryDeviceBinds`: the sibling comes to have a pseudonym |
| `inbox_settles` | 2 messages and a direct one with 1 upset; 2 messages with 2; 2 messages, or 1 with 1, and the extension once beside the app; a replaced device with 1; 2 groups with 1; direct and group rows numbered from one; fair | `InboxHolds` (nothing is lost, the buffer awaits only keys, the key is queued first), `SubscribedToAll`, `EveryMessageSettles` |
| `dispatch` | 2 senders at one pool; 2 devices, one replaced, 2 messages; the same with a fault; 2 messages and a fault; fair | `KeysServe` (no one-time key goes to two, what is offered is held, every row opens), `SendsHold` (what is told of a send is so, repeats are explained), `PoolsRefilled` |
| `history` | devices `a`, `b` of one account and `p` of another; eight bounds, each two or three kinds of change against each other, three with a fault (a failed request or write, an ended process); fair | `DevicesConverge`, `HistoryHonest` (receipts are true, deletions stand), `HistorySettles` (reads reach siblings, timed messages go) |
| `services` | accounts under seven limits (signup, recovery, linking, admission, two consents, departure, a grant left), a Project installed twice with 4 requests, 2 attachment slots, 2 picture changes, 3 push calls; a failure in each; fair | `NotLockedOut`, `DevicesFit`, `AdmittedOnce`, `ConsentedLogins`, `DeletionIsWhole`, `LinkSettles`; `GateHolds`; `AttachmentsHold`, `AttachmentsSettle`; `ShownWasPublished`, `PictureFollows`; `WakeupsReachDevice`, `OldPseudonymsFade` |

Why the bounds are enough. Two rows let one delivery be in hand while another
is pushed, drained or polled, and let one ciphertext be held twice; two sockets
give every pair of predecessor and successor, three let the successor fail as
well, and the last is never lost (`SpareSocket`), so that a run does not end
because sockets ran out. Two records with pages of one make a pull span pages
while the other device writes between them; one edit on each device is a
conflict and a third a retry after it. In `group_state` two revisions set the
scene and the third is raced for. Two statements of one handler race as soon as
there are two callers. The proofs of section 6
hold for every value of the bounds. Two cases the bounds do not reach: a
sender in `dispatch` never holds more than one stale session at once, and
`Attachments` explores either two slots or repeated saves of one message
(`SlotBound`). In `sync_settles` the person is vouched for on one device only;
`Contacts` treats devices alike, and its proofs have any set. `FirstRow` says
where the group queue's numbering starts: at one in `inbox_settles`, so that a
direct and a group message meet under one history id, and past the direct ones
in `inbox_recovered`, which is about something else.

Three runs expect a violation. Each is a disagreement between the code and what
the repository says of it, with the quoted line in `PROJECT.json`:

| Run | What happens |
|---|---|
| `delivery_stranded` | The app reconnects; the old handler then ends and removes the map entry, which is the new handler's (`server/src/routes/websocket.rs:299`; the entry of the admin subscribers a few lines below is guarded against this). Messages are then queued with no push to a socket that is up. |
| `group_readded` | An account with two devices leaves and is invited again. The server has deleted the pseudonyms of both; the device that does not promote keeps its dead one, since reconciling passes over groups that have one (`app-core/src/lib.rs:5251`). |
| `inbox_recovered` | A recovered device keeps its number and writes first. The peer takes up its new registration when it decrypts, so `ensure_session` (`app-core/src/messaging.rs:98`) sees no change before the next send and never clears the mark that the device has its sender key. |

Every property of a passing run has a mutant in `PROJECT.json`: a definition
changed as a plausible bug would change it (an ack before the write, a page
that starts one late, an entry left behind), under which the run fails. The
type invariants are in no run: those of the proved modules are proved, and
`IInv` implies the one of `MessageDelivery`.

## 5. Fairness

What the runtime polls until it finishes, or a timer repeats, is fair; people,
peers, the network, expiry, restarts, kills and errors are not, and faults are
bounded. Every instance is finite, so that `<>[]P` says the same as "whenever
changes have stopped, `P` comes and stays".

| Module | Fair | Why |
|---|---|---|
| `MessageDelivery` | handler tasks, the pushing request, receive loop, reconnect, `Resume` | futures the runtime polls; `reconnect_loop` retries for ever with a backoff capped at 30 s; the user opens the app again |
| `StorageSync`, `Contacts` | each device's sync | `run_scheduler` wakes at the latest with its 60-second poll |
| `GroupState` | the steps of an operation (weak); `Reconcile` (strong) | requests return; reconciling is repeated at every start and sync, and is only disabled while the lock is held by something that ends |
| `GroupInbox` | the push of a row, the subscription, the app's steps, the extension's steps once it runs | tasks of server and receive loop |
| `DmDispatch` | saving after a link or recovery, refilling a pool | the server looks at the pools once a minute; recovery, and the requests of a refill, go on to their end; sends are not fair |
| `MessageHistory` | the work of each device, its reaper | the receive loop, `read_sync_loop`, `expire_reaper_loop` |
| `Accounts` | a step of some operation under way | requests are answered or dropped; no install need finish if its user quits |
| `Attachments`, `PushTokens` | hourly passing, TTL, sweep; the relay's collection | timers of `tasks/mod.rs` and of the relay |
| `Profiles` | each edit, each fetch, the inbound key or group state, opening the conversation | requests return; the viewer looks again |

## 6. Proofs

Every theorem holds for all values of the constants (any number of devices,
accounts, records, messages, sockets, requests, upsets and faults) from the named
assumptions on them alone, except where a condition is given.

| Module | Theorem | States |
|---|---|---|
| `MessageDeliveryProofs` | `TypeCorrect` | `TypeOK` |
| | `Inductive` | `IInv` |
| | `NothingEverVanishes` | `NothingVanishes` |
| | `SavedAtMostOnce` | `OneRowPerCiphertext` |
| | `Refinement` | `Spec => ImplementsMailbox` |
| | `MapNamesLiveHandler` | `PushTargetsLiveHandler` |
| | `NoRowStranded` | `NoStrandedRow`, if `MaxFaults = 0` and `~HalfOpen` |
| | `AcksAreDurable` | `AckAfterDurableWrite`, if `MaxFaults = 0` and `~Extension` |
| `StorageSyncProofs` | `SyncTypeCorrect` | `TypeOK` |
| | `CursorIsSafe` | `CursorCovers` |
| | `SyncIsHonest` | `SyncHolds` |
| | `EditsReachTheServer` | `NoEditLost` |
| | `ContactsTypeCorrect` | `ContactsTypeOK` |
| | `KeyNeedsGesture` | `KeyOnlyByGesture` |
| | `RacesOnlyForget` | the action property `OnlyRacesForget` |
| `GroupStateProofs` | `GroupTypeCorrect` | `TypeOK` |
| | `SubmissionsAreHeld` | `SubmissionsHold` |
| | `CachesAreRevisions` | `CacheIsARevision` |
| | `TimelinesAreTrue` | `LinesAreTrue` |
| `MessageHistoryProofs` | `HistoryTypeCorrect` | `TypeOK` |
| | `HistoryIsHonest` | `HistoryHonest`: the invariant `ReceiptsAreTrue` and the action property `DeletionsStand` |
| | `HistoriesConverge` | `DevicesConverge` |
| `GroupInboxProofs` | `InboxTypeCorrect` | `TypeOK` |
| | `InboxIsSafe` | `InboxHolds` (`MessagesStay`, `BufferWaitsForKeys` and `KeyComesFirst` state its three parts) |
| | `SubscribedToEach` | `SubscribedToAll` |
| `DmDispatchProofs` | `DispatchTypeCorrect` | `TypeOK` |
| | `KeysServeAlways` | `KeysServe` |
| | `SendsHoldAlways` | `SendsHold` |
| `AccountsProofs` | `LoginsAreConsented` | `LoginTypeOK`, `ConsentedLogins` |
| | `AdmittedOnceAlways` | `AdmittedOnce` |
| | `DeletionIsWholeAlways` | `DeletionIsWhole` |
| | `DevicesFitAlways` | `DevicesFit` |
| | `NotLockedOutAlways` | `NotLockedOut` |
| `HomeserverProofs` | `GateIsSafe` | `ProjectsTypeOK`, `GateHolds` |
| | `PicturesMatch` | `ProfilesTypeOK`, `ShownWasPublished` |
| | `BlobsAreServed` | `BlobsTypeOK`, `AttachmentsHold` |
| | `WakeupsArrive` | `PushTypeOK`, `WakeupsReachDevice` |

### Delivery

`TypeOK` is inductive as it stands; its proof has one lemma per action or group
of like actions.

`NothingVanishes` is not inductive: `HandleAck` deletes the row of whatever
pending frame has the acked id, so one has to know that an ack on the way names
a row already handled, and before that, that an id in flight means the same row
at both ends. `IInv` (in `MessageDelivery`) adds this as `Wire`, per socket, and
as `Desk` what the two processes have in hand, in the batch and in the history.
In `MessageDeliveryProofs` each action has a lemma; `WireKept` is the one
argument behind all actions but those that open, drain, feed or close a socket:
frames and pending frames may only go, and a new ack must be for a handled
frame in flight. Saving at most once rests on the ratchet: a message in one
hand is consumed, so the other process cannot take it, and it is not in the
history yet.

`Refinement` maps each step: `Enqueue` to `Accept`, the two decryptions to
`Open`, the two failures to `GiveUp`, the two acks to `Release` of the rows they
delete (all handled, by `IInv`), expiry to `Expire`, the rest to a stutter.

`NoRowStranded` uses `Served`: the map names the one live handler, and once it
has drained every queued row is on its way. The side conditions are needed:
`delivery_stranded` violates the property with half-open sockets, and an
aborted send or a failed drain leaves a row to the next connection.
`AcksAreDurable` uses `Durable`: without faults whatever is finished, acked or
deleted is in the history or from a blocked sender. With one kill between
decryption and write, or with the extension, which takes a message in the app's
hand for a duplicate and acks it, the property fails; `NothingVanishes`, which
names the kill, does not.

### Storage sync and contacts

`PullInv` says, per device, where everything newer than the cursor is: in the
rest of the page, above the position reached, or among `missed`; a page in hand
was cut from the server's records as they then were, and versions only grow,
so nothing slips under the cursor. It needs no condition: writers off the lock
and faults are included. `SameInv` adds what a running push has read and what
the server has answered for it. `set_sync_meta_clean` clears the dirty bit of
whatever the row has become, so a write that takes no lock may be marked clean
unpushed: the row is then overtaken, until a sync marks it clean at its own
value. `LockHolds` says that nothing else is: the row of a record outside
`OffLock` stands still from the statement that reads or writes it to the one
that marks it (`RowsStand`). `EditInv` follows the last edit of a record edited
on one device from the row to the request and the server, or to where it was
overtaken.

In `Contacts`, `MarksAreWelcomed` is the argument for the key: every mark, in a
row, a record, a running merge or a gate read earlier, goes back to a gesture,
and until there is one only an ungated send can have given the key away.
`RecordsInStep` is the one for verdicts: the record's verdict never decreases,
because whoever pushes has seen the last one, and a row with nothing to push is
not ahead of the record except for what slipped.

### Group state

`History` is the state of every past and present revision. `GroupInv` has four
parts: a line or copy cannot speak of a revision not yet made; consecutive revisions
differ by exactly the logged change, which was allowed (`ChangesChain`, part of
`SubmissionsHold`); the encrypted roster agrees with the tables for all who
did not join through a link (`RosterMatches`); and `DeviceFits`, that what a
device caches, carries in its operation, has read without the lock or has
written in its timeline is a revision under its number. Because past revisions
never change (`PastKept`), what a device holds stays right whatever others do
(`StillFits`), and each action is left with the one device it moves
(`DeviceActs`). The heart is the commit: policy and membership were read before
the transaction, and the compare-and-swap on the revision makes them those of
the revision that is changed, because every change of them makes a new revision.

### Group inbox

`InboxInv` adds to `TypeOK` what connects the two queues:

- `KeysCome`: for each message that is due on the device, a key that opens it is
  installed, in a process's hand, or waiting in the direct-message queue
  (`Coming`), and so for the next message of a chain whose key was shared
  (`Due`). It needs the order of the queue (`DmqFits`), that keys never run
  ahead of the chain (`KeysFit`), and what the extension has in hand of a batch
  that is still queued (`ExtDms`). Both processes may hold a key at once; one of
  them must open the message. If the later key is installed first, what was sent
  between the two will not open, and is among the accidents (`Overtaken`).
- `Safely`: what has left the group queue is in the buffer, on its way to the
  history or in it, and what was opened is on its way or in it. `Awaits`: what is
  in the buffer does not open, or is `raced`. Installing a key tries the buffer in
  one step of the code's (under the client's lock), so the two meet in `Retry`.
- `Subscribes`: the last set sent to the server is the full one, or another is
  about to be sent, whichever of receive loop and reconcile was first.
- `Shares`: a device that was never replaced is in the peer's list of those that
  have the key only if the key was queued for it.

No condition is left on how the processes run or how rows are numbered. Three
orders cost a message, and `past` records exactly these: `raced`, a key installed
by the other process between a failed decryption and the buffering, after which
nothing tries the row again; `overtaken`, as above; and `shadowed`, a row not
written because another has its number.

For these proofs `GroupInbox` selects rows of a queue by a recursive function of
its own (`Only`) and not by `SelectSeq`, whose definition the provers do not
have; `OnlyIs` shows what it computes for every sequence.

### Message history

A check mark is a claim about another device, made through the queues, so
`HistoryInv` follows it back: a row, an operation on its way, and what a device
has in hand are judged against the messages composed and what has happened to
them (`StoresHonest`, `MailHonest`, `HandsHonest`). A receipt on its way names a
device on which the message was decrypted or read; a text comes from its author;
receipts go to the other account only. The receipt of a text leaves before the
save, so it vouches for a decryption only, and `HeadsHonest` says what becomes of
that: what a device has decrypted is stored, lost in that window, or at the head
of its queue and about to be stored. Messages and past only grow (`Grows`), so
what was honest stays so, and the proof is about the operators that change a
store, each shown once to keep it honest and every tombstone in it
(`SavesHonest` is the second save and the transcript, `EditsHonest` the late
edit). The actions then apply one of them to one device (`StoreStep`) or only
let go of things (`KeepStep`). For this the bounds on messages and edit times
became the constants `MaxTexts` and `MaxTimes`: a maximum over a set of bounds
needs induction to be known.

`DevicesConverge` speaks of quiet states only, so `ConvergeInv` has to say what
every state on the way there promises. For each message that no accident has
spoilt it has three parts (`MessageFits`).

- `TextFirst`: in every queue the text comes once, and before its edits and its
  deletion; while it is still to be sent or mirrored, no change of it is
  anywhere. A device that the text is still coming to (`Coming`) has no row of it,
  so a row that was hidden or has expired does not come back.
- `LevelsSpread`: the level of a row is 0 as composed, the time of its newest
  edit, and `Top` once deleted. What a device shows, or is told by an op on its
  way (`Says`), every device knows (`Knows`): it shows that level or a higher one,
  or an op of such a level is on its way to it, or it has no row and the text is
  not coming. Since an edit is applied only if it is newer, and the deletion wins
  over all, the level of a row never falls, and the order in which changes arrive
  does not matter. When all is quiet each device's level is at least every
  other's.
- `ReactionsSpread`: a reaction is overwritten and not merged, so here the order
  does matter. What a device will end with (`SettlesOn`) is what a sibling still
  has to mirror, or else the last reaction in its queue, or else what it stores;
  it is the same for all devices on which the message is not deleted. A new
  reaction comes last on every other device, except where a sibling's is still on
  its way to the one that reacts (`past.crossed`).

What is on its way to a device is its queue and what its siblings hold and have
not mirrored (`Incoming`), so that `Mirror` moves an op from one to the other. A
step that has nothing to do with a message leaves its part alone (`Aside`,
`AsideFits`): then only the send, mirror and receipt of an op about that message
remain (`TextSent`, `ChangeSent`, `ReactionSent`, `MirrorFits`, `TakenFits`), the
row that goes (`RowGoes`) and the new message (`ComposeConverges`). TLC checked
`ConvergeInv` on the bounds of the run `history` before it was proved.

### Dispatch and prekeys

`DispatchInv` has four parts, each kept with the help of those before it.
`TypeOK` and `Shapes` say that a sender waits for at most one request, the one
its job is in. `KeysInv` follows a one-time key: it is in the pool and held, or on
its way to the server, or given, and then gone from the pool for good and held
by the device until the session it was given for is known there. Since every
envelope's session is with a registration that the device had, and its key was
given for that session (`SessionFits`, for all envelopes `Around`), a queued row
opens; recovery drops queue and pool together with the keys. `BatchInv` gives
an envelope to each message, device and attempt: the repetition over HTTP sends
the same envelopes, and a second attempt begins only with a retry. `SendInv`
says of a running send what is left, that each listed device without its
row in the request has its row enqueued, and, as long as nothing has been
registered since the send began, which devices can still turn it down: those
stale at its start except the one the retry was forced to renew. A second stale
reply therefore names a second device.

That the pools are refilled is liveness and left to TLC. For these proofs
`InOrder` chooses the increasing list (`InOrderIs` shows that there is one) and
the number of registrations is a variable, `made`.

### Accounts and logins

`LoginInv` gives every token one place. A token bound to a grant was minted for
the person the grant names, who consented and was told so; a token in the hand
of a person who is approving is nobody's yet (`Unbound`); what a Project's
request has read of an approved grant stays so, because a grant is bound once and
never leaves `consumed`; and a request that has consumed a code is the only one
at that grant. Each step of a login then disturbs one grant or one call
(`PersonKept`, `CallerKept`, `HandedKept` carry over the others).

Further invariants carry the theorems about accounts.

- `AdmissionInv`: an invite that has admitted anyone is spent, and the claim has
  at most one holder.
- `RowsInv` and `EntryInv`, for `DeletionIsWhole`: rows, grants and tokens die with
  the account in one transaction, and sessions and nonces are for live rows. That
  an identity with a tombstone has left cannot be kept alone: a request for its
  first account might still be under way on another install. `EntryInv` says that
  it is not, because the directory takes the identity's key once: a request that
  may still create the account is the only one of its person (`Enters`), and that
  person has never had an account (`Been`).
- `DeviceInv`, for `DevicesFit`: the row that an install was told of, or is about
  to be, is found under the number it has saved, unless a recovery has replaced
  it or the account is gone (`OwnRow`), and an account that is gone does not come
  back, by `EntryInv`. For bots this fails, since a bot can give up its account
  and register again from another install. Their keys are what tells the
  installs apart: a bot is neither linked nor recovered, so a key made for one of
  its installs is never another's (`KeysAreOwn`). This found a missing refusal in
  an earlier version of `AwaitLink`, which `provision_linked_device` and
  `link_device` have.
- `WayInv` and `PairFits`, for `NotLockedOut`, which says something only of a
  person with nothing under way and so needs, of every operation, where it leaves
  the person when it is cut short. Per install (`WayOf`): what is asked and what
  the server does for it fit (`AskFits`); whoever is about to have a device has a
  key in escrow (`Seeks`, `Escrowed`); a bot's install has saved nothing, or can
  log in, or is saving (`BotFits`). Per person (`WayFits`): a key in the directory
  means an account or a signup under way, an account without a device means a
  request that makes one, and a device means a key in escrow. Each allows the
  exceptions `NotLockedOut` names (`Lost`: `past.stuck`, `past.left`). `PairFits`:
  the two sides of an accepted pairing are one person's, so that a linked device
  falls under the escrow of the one that links it. A step is shown to take away
  no row, key or escrow without recording it (`BooksGo`, `AccountGoes`), and to
  leave the other installs as they are or end what they ask (`Stays`, `HandsOver`);
  `WayKept`, `WayOne` and `WayAside` carry the invariant over from these.

These theorems assume `InstallsAssumption` and `LimitsAssumption`: every
install belongs to a person, bots are persons, and of the installs that have
signed up before the behaviour begins each person has at most one.

### Projects, attachments, pictures, push

`GateInv` relates each order under way to the row it will write: who runs alone
finds what it left, a grant and a revocation that meet are recorded in
`crossed`, and a retired key is in no row and in no order. The proof attempt
corrected the model: idle requests must not be marked as having company.
`BlobInv` gives each slot to one upload and bytes to every slot whose row is
still there when its writer runs. `PictureInv` follows each fetched pair back
to a publication, through the digest check. `PushInv` says what each step of a
registration may rely on, and that a settled device's newest pseudonym is
registered at the relay with the current token.

### Only model-checked

- Every liveness property (`EveryRowSettles`, `Converges`, `DevicesAgree`,
  `EveryDeviceBinds`, `EveryMessageSettles`, `PoolsRefilled`, `HistorySettles`,
  `LinkSettles`, `AttachmentsSettle`, `PictureFollows`, `OldPseudonymsFade`):
  TLAPS does not reason about fairness and ENABLED in the version used.
- What folds over data compute for every input. The library's induction theorems
  take an operator, which no prover here instantiates; that every set of
  numbers has a least one (`LeastNat`) can be cited instead, and is for `Only`.
  No module here declares a RECURSIVE operator.

## 7. What is named and excused

Some properties hold only outside an accident that the code does have. The
property then names it, by a bookkeeping variable that records the accident and
nothing else; the property says that there is no other way.

| Property | Named accident |
|---|---|
| `NothingVanishes` | a kill or failed write between decryption and the history |
| `SyncHolds`, `NoEditLost`, `Converges` | a record written off the lock whose sync marked it clean at another value (`overtaken`) |
| `CursorCovers` | a record whose adapter failed: nothing pulls it again until it changes |
| `NoEditLost` | a record edited on two devices (the known gap of `src/docs/05-device-data-sync.md`); a push cut off from its reply, after which the device takes its own write for a remote one |
| `OnlyRacesForget`, `DevicesAgree` | a verdict still to be pushed, or taken for pushed by a sync that ran while `report_and_block` wrote it; a curated mark kept beside a record without it |
| `KeyOnlyByGesture` | what goes out with the key and no gate looks at (`ungated`) |
| `NothingLost` in `InboxHolds` | faults and kills in the windows of `app-core/src/groups.rs:2308`; a message sent without its key; a row not written for another one's number (`shadowed`); a later key installed before its own by the other process (`overtaken`) |
| `BufferAwaitsKey` in `InboxHolds`, `EveryMessageSettles` | a row put into the buffer after the other process installed its key (`raced`) |
| `HistoryHonest` | a text decrypted and receipted, then lost to a failed write or an ended process |
| `RepeatsExplained` | a second encryption after a stale-device reply |
| `DevicesConverge` | a failed send, an operation lost once decrypted, a second save that overwrites an edit, crossed reactions of one account |
| `ReadsReachSiblings` | a process that ended with the mark unsent, a mark lost once decrypted |
| `NotLockedOut` | a signup that failed after its key went to the directory (`lib.rs:4196`); a replacement cut short after the deletion; a bot that never got its first reply |
| `DevicesFit` | a device replaced by recovery, which goes on as its successor; a crash between saving device and prekeys |
| `DeletionIsWhole` | attachments or grants that refer to the account make its deletion fail (`server/src/db/accounts.rs:140`) |
| `GateHolds` | a grant and a revocation that met |
| `FilesReclaimed` | files written after their row was deleted, or whose removal failed |
| `PictureFollows` | a version published a second time (`restarted`) |
| `OldPseudonymsFade` | pseudonyms whose retirement was cut short |

Four of these accidents are more than the repository admits, and a reader of the
code should know them.

- A reaction, an edit, a deletion or a timer change carries the profile key
  (`app-core/src/messaging.rs:1229`) and asks for neither mark nor block. So a
  reaction to a message request gives the key to somebody who, as
  `messaging.rs:253` says, "must not get it until we accept", and these sends
  reach a blocked person, although "outgoing messages to it are refused"
  (`app-core/src/lib.rs:3838`).
- The code calls a failed save "the one unavoidable loss window"
  (`messaging.rs:1797-1800`). A process that ends between the decryption and the
  save, while the receipt is sent (1736), loses the text as well.
- History ids are `server-` and a queue's number (`messaging.rs:1753`), and the
  two queues number independently. A second message under a number is taken for
  the "redelivery of a message we already stored" (1770-1773), is not written
  and is acked.
- `report_and_block` and `save_shared_contact` write synced rows without the
  lock (`lib.rs:3778`, `lib.rs:3934`), so that a running sync may mark such a
  write clean that it has not pushed.

## 8. Not modelled

Components marked `not_modelled` in `PROJECT.json`, with the reason there:
reconnect timing and the connection state shown, cryptography (represented by
the one fact that a message the stored ratchet has moved past does not decrypt
again), clients and bots. In the modelled parts:

- Delivery: a batch that ends half-way at a stale device, before its pushes
  (`server/src/routes/messages.rs:127`); account-joined, prekey-low,
  storage-changed and server-event frames; bodies other than text
  (`MessageHistory` has these); both processes inside one libsignal call at once (`crypto/src/session.rs:212`); bot accounts,
  which keep no history.
- Storage sync: record types a build does not know, undecryptable records,
  quotas, the parked snapshots.
- Group inbox: own sends, pseudonym rotation, homeservers other than one.
- Groups: credentials, link passwords, batches of several actions, avatar
  objects.
- History: a deletion that arrives before its message
  (`store/src/messages.rs:780`) with redelivery, attachments, groups, kept
  revisions.
- Dispatch: rate limits, blocks; the pick and the deletion of a Kyber key are
  one step.
- Accounts and services: rate limits, lifetimes of nonces and tokens, the
  Project directory, store gates, throttles on fetches. No property says that
  the upload quota holds for two uploads at once: the sum is read by one
  statement and the slot inserted by another.
