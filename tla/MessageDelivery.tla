-------------------------- MODULE MessageDelivery --------------------------
(***************************************************************************)
(* How an encrypted direct message reaches ONE device of its recipient:    *)
(*                                                                         *)
(*   - the homeserver's durable queue (table message_queue) and its        *)
(*     in-memory map from a device to the channel of its live WebSocket    *)
(*     (routes/messages.rs, routes/websocket.rs);                          *)
(*   - the sockets, each with a server handler that drains the queue on    *)
(*     connect, forwards pushes and frees a row when the client acks it;   *)
(*   - the app's receive loop (app-core connection.rs, messaging.rs):      *)
(*     decrypt, durable write, ack, one delivery at a time;                *)
(*   - the notification extension, a second process on the same device     *)
(*     store, which polls the queue over HTTP (app-core lib.rs).           *)
(*                                                                         *)
(* Every row, socket and store is keyed by the device, so devices do not   *)
(* interact and one is enough.  A ciphertext may sit in several rows: a    *)
(* sender whose WebSocket request failed re-sends the same ciphertexts     *)
(* over HTTP (dispatch_to_devices).  Only text messages are modelled; the  *)
(* delivery receipt sent between decryption and the durable write is part  *)
(* of the window in which the message is "decrypted".                      *)
(*                                                                         *)
(* Failures covered: a link that dies unnoticed, a server restart, a send  *)
(* request that fails half way, an app suspended or killed between two     *)
(* steps, a killed extension, a store or decryption error, a lost ack.     *)
(* Not covered: two processes inside libsignal's load, decrypt and store   *)
(* of one session at the same instant (decryption is one step here).       *)
(***************************************************************************)
EXTENDS Naturals, Sequences, FiniteSets

CONSTANTS
    Ciphertexts,   \* encrypted messages addressed to the device
    Blocked,       \* those of them whose sender the user has blocked
    NoSocket,      \* absence of a socket
    MaxRows,       \* bound: rows the server ever enqueues for the device
    MaxSockets,    \* bound: WebSocket connections the app ever opens
    MaxUpsets,     \* bound: server restarts, backgroundings and expiries
    MaxFaults,     \* bound: kills and local or server errors
    HalfOpen,      \* may the app reconnect before the server sees the old
                   \* socket end?  (a path that died without a close frame)
    Extension      \* does the notification extension run?

ASSUME CiphertextAssumption == Blocked \subseteq Ciphertexts
ASSUME BoundAssumption ==
    /\ MaxRows \in Nat /\ MaxSockets \in Nat
    /\ MaxUpsets \in Nat /\ MaxFaults \in Nat
ASSUME SwitchAssumption == HalfOpen \in BOOLEAN /\ Extension \in BOOLEAN
ASSUME NoSocketAssumption == NoSocket \notin Nat

RowIds  == 1..MaxRows
Sockets == 1..MaxSockets

VARIABLES
    \* the homeserver's database
    rowCt,       \* rowCt[r] is the ciphertext stored in row r, in id order
    queue,       \* rows still in message_queue
    \* the homeserver's memory
    toPush,      \* rows committed by send_messages and not yet pushed
    registered,  \* ws_connections[device]: the socket whose channel it holds
    handler,     \* phase of the handler of each socket
    chan,        \* rows pushed to each handler's channel
    sent,        \* next_server_id - 1: frames each handler has sent
    pending,     \* the frames of each socket that await an ack
    \* the network
    link,        \* does the socket's path still carry frames?
    frames,      \* DeliverRequest frames on their way to the app
    acks,        \* ids of DeliverAck frames on their way to the server
    \* the app process
    app,         \* "active", "leaving" (backgrounded) or "suspended"
    sock,        \* the socket its receive loop runs on
    work,        \* the delivery in hand
    \* the extension process
    ext,         \* its batch, what is left of it, and the message in hand
    wake,        \* has a push wakeup been sent and not yet served?
    \* the device store, shared by both processes
    consumed,    \* ciphertexts the stored ratchet has moved past
    history,     \* rows saved in the local message history
    \* bookkeeping of the model
    skipped,     \* rows given up after a decryption error that used no key
    killed,      \* ciphertexts a process was killed with, not yet written
    unsaved,     \* ciphertexts whose durable write failed
    released,    \* rows deleted by an ack
    expired,     \* rows deleted at their expires_at
    upsets, faults

serverVars == <<rowCt, queue, toPush, registered, handler, chan, sent,
                pending>>
netVars    == <<link, frames, acks>>
appVars    == <<app, sock, work>>
extVars    == <<ext, wake>>
storeVars  == <<consumed, history>>
fateVars   == <<skipped, killed, unsaved, released, expired>>
boundVars  == <<upsets, faults>>
vars == <<serverVars, netVars, appVars, extVars, storeVars, fateVars,
          boundVars>>

----------------------------------------------------------------------------
(* Helpers *)

Idle == [stage |-> "idle"]
Frame(i, r) == [id |-> i, row |-> r]
Item(r, i) == [row |-> r, id |-> i, stage |-> "decrypted"]
NoBatch == [batch |-> {}, left |-> {}, hand |-> Idle]

Live(s) == handler[s] \in {"draining", "serving"}

\* The one increasing listing of S.
OldestFirst(S) ==
    {q \in [1..Cardinality(S) -> S] :
        /\ \A i, j \in 1..Cardinality(S) : i < j => q[i] < q[j]
        /\ \A r \in S : \E i \in 1..Cardinality(S) : q[i] = r}

\* The message whose plaintext a process holds in memory only.
Holds(item, c) == item.stage = "decrypted" /\ rowCt[item.row] = c
InHand(c) == Holds(work, c) \/ Holds(ext.hand, c)

Stored(c) == \E r \in history : rowCt[r] = c

\* A fresh socket is left for the app: the last one is never lost, so that
\* the bound on sockets does not cut a run short.
SpareSocket == \E s \in Sockets : handler[s] = "unused"

Upset == upsets < MaxUpsets /\ upsets' = upsets + 1
Fault == faults < MaxFaults /\ faults' = faults + 1

Init ==
    /\ rowCt = <<>> /\ queue = {}
    /\ toPush = {} /\ registered = NoSocket
    /\ handler = [s \in Sockets |-> "unused"]
    /\ chan = [s \in Sockets |-> <<>>]
    /\ sent = [s \in Sockets |-> 0]
    /\ pending = [s \in Sockets |-> {}]
    /\ link = [s \in Sockets |-> TRUE]
    /\ frames = [s \in Sockets |-> <<>>] /\ acks = [s \in Sockets |-> {}]
    /\ app = "active" /\ sock = NoSocket
    /\ work = Idle
    /\ ext = NoBatch /\ wake = FALSE
    /\ consumed = {} /\ history = {}
    /\ skipped = {} /\ killed = {} /\ unsaved = {}
    /\ released = {} /\ expired = {}
    /\ upsets = 0 /\ faults = 0

----------------------------------------------------------------------------
(* The homeserver: routes/messages.rs and routes/websocket.rs *)

\* send_messages, first loop: the row is committed before any push.
Enqueue(c) ==
    /\ Len(rowCt) < MaxRows
    /\ rowCt' = Append(rowCt, c)
    /\ queue' = queue \cup {Len(rowCt) + 1}
    /\ toPush' = toPush \cup {Len(rowCt) + 1}
    /\ UNCHANGED <<registered, handler, chan, sent, pending>>
    /\ UNCHANGED <<netVars, appVars, extVars, storeVars, fateVars, boundVars>>

\* send_messages returns early (a later recipient is stale or unknown, or the
\* database fails): the rows it committed are never pushed.
SendAborts(r) ==
    /\ r \in toPush
    /\ Fault
    /\ toPush' = toPush \ {r}
    /\ UNCHANGED <<rowCt, queue, registered, handler, chan, sent, pending>>
    /\ UNCHANGED <<netVars, appVars, extVars, storeVars, fateVars, upsets>>

\* send_messages, second loop, device in the connection map.
PushToSocket(r) ==
    /\ r \in toPush
    /\ registered # NoSocket
    /\ chan' = [chan EXCEPT ![registered] = Append(@, r)]
    /\ toPush' = toPush \ {r}
    /\ UNCHANGED <<rowCt, queue, registered, handler, sent, pending>>
    /\ UNCHANGED <<netVars, appVars, extVars, storeVars, fateVars, boundVars>>

\* send_messages, second loop, device offline: ask the relay for a wakeup.
PushWakeup(r) ==
    /\ r \in toPush
    /\ registered = NoSocket
    /\ toPush' = toPush \ {r}
    /\ wake' = TRUE
    /\ UNCHANGED <<rowCt, queue, registered, handler, chan, sent, pending>>
    /\ UNCHANGED <<netVars, appVars, ext, storeVars, fateVars, boundVars>>

\* try_connect_ws against ws_upgrade: the handler registers its channel,
\* whatever was registered before, and only then drains.
Connect(s) ==
    /\ app = "active" /\ sock = NoSocket
    /\ handler[s] = "unused"
    /\ \A t \in Sockets : t < s => handler[t] # "unused"
    /\ HalfOpen \/ \A t \in Sockets : ~Live(t)
    /\ handler' = [handler EXCEPT ![s] = "draining"]
    /\ registered' = s
    /\ sock' = s
    /\ UNCHANGED <<rowCt, queue, toPush, chan, sent, pending>>
    /\ UNCHANGED <<netVars, app, work, extVars, storeVars, fateVars,
                   boundVars>>

\* db::messages::fetch_for_device, ORDER BY enqueued_at ASC, id ASC.
FetchForDevice_LimitOne ==   \* mutant
    OldestFirst({r \in queue : \A t \in queue : r <= t})
FetchForDevice == OldestFirst(queue)

\* What the app will receive on s once the handler has sent fs: a frame on a
\* dead path, or to an app that has left the socket, goes nowhere.
Carried(s, fs) == IF link[s] /\ sock = s THEN frames[s] \o fs ELSE frames[s]

\* handle_ws: one frame per queued row, each recorded as pending.
DrainOnConnect(s) ==
    /\ handler[s] = "draining"
    /\ \E q \in FetchForDevice :
          LET fs == [i \in 1..Len(q) |-> Frame(i, q[i])]
          IN  /\ frames' = [frames EXCEPT ![s] = Carried(s, fs)]
              /\ pending' = [pending EXCEPT ![s] = {fs[i] : i \in 1..Len(q)}]
              /\ sent' = [sent EXCEPT ![s] = Len(q)]
    /\ handler' = [handler EXCEPT ![s] = "serving"]
    /\ UNCHANGED <<rowCt, queue, toPush, registered, chan, link, acks>>
    /\ UNCHANGED <<appVars, extVars, storeVars, fateVars, boundVars>>

\* handle_ws: the database is unavailable, and the handler serves undrained.
DrainSkipped(s) ==
    /\ handler[s] = "draining"
    /\ Fault
    /\ handler' = [handler EXCEPT ![s] = "serving"]
    /\ UNCHANGED <<rowCt, queue, toPush, registered, chan, sent, pending>>
    /\ UNCHANGED <<netVars, appVars, extVars, storeVars, fateVars, upsets>>

\* A handler's state goes with it; so do acks it has not read.
Without(f, S, none) == [s \in Sockets |-> IF s \in S THEN none ELSE f[s]]
CloseHandlers(S) ==
    /\ handler' = Without(handler, S, "ended")
    /\ chan' = Without(chan, S, <<>>)
    /\ sent' = Without(sent, S, 0)
    /\ pending' = Without(pending, S, {})
    /\ acks' = Without(acks, S, {})

\* The map's entry when the handler of s ends: it removes the device's entry
\* without asking whose channel the entry holds.
RegisteredAfterEnd_Stale(s) == registered   \* mutant: entry left behind
RegisteredAfterEnd(s) == NoSocket

\* handle_ws: a send fails during the drain, and the handler returns.
DrainFails(s) ==
    /\ handler[s] = "draining"
    /\ ~link[s] \/ sock # s
    /\ CloseHandlers({s})
    /\ registered' = RegisteredAfterEnd(s)
    /\ UNCHANGED <<rowCt, queue, toPush, link, frames>>
    /\ UNCHANGED <<appVars, extVars, storeVars, fateVars, boundVars>>

\* next_server_id goes on from the drain.
NextId_Reused(s) == sent[s]   \* mutant: the drain's last id is used again
NextId(s) == sent[s] + 1

\* handle_ws, select loop, rx.recv arm.
ForwardPush(s) ==
    /\ handler[s] = "serving"
    /\ chan[s] # <<>>
    /\ LET fr == Frame(NextId(s), Head(chan[s]))
       IN  /\ frames' = [frames EXCEPT ![s] = Carried(s, <<fr>>)]
           /\ pending' = [pending EXCEPT ![s] = @ \cup {fr}]
    /\ sent' = [sent EXCEPT ![s] = @ + 1]
    /\ chan' = [chan EXCEPT ![s] = Tail(@)]
    /\ UNCHANGED <<rowCt, queue, toPush, registered, handler, link, acks>>
    /\ UNCHANGED <<appVars, extVars, storeVars, fateVars, boundVars>>

\* handle_frame, DeliverAck: the row of that pending frame is deleted.
Acked_ByRow(s, i) == {fr \in pending[s] : fr.row = i}   \* mutant
Acked(s, i) == {fr \in pending[s] : fr.id = i}
HandleAck(s, i) ==
    /\ handler[s] = "serving"
    /\ i \in acks[s]
    /\ acks' = [acks EXCEPT ![s] = @ \ {i}]
    /\ pending' = [pending EXCEPT ![s] = @ \ Acked(s, i)]
    /\ queue' = queue \ {fr.row : fr \in Acked(s, i)}
    /\ released' = released \cup (queue \ queue')
    /\ UNCHANGED <<rowCt, toPush, registered, handler, chan, sent, link, frames>>
    /\ UNCHANGED <<appVars, extVars, storeVars, skipped, killed, unsaved,
                   expired, boundVars>>

\* handle_ws, end of the select loop.  A clean close is read after the acks
\* sent before it; a dead path loses them.
EndSocket(s) ==
    /\ handler[s] = "serving"
    /\ ~link[s] \/ (sock # s /\ acks[s] = {})
    /\ CloseHandlers({s})
    /\ registered' = RegisteredAfterEnd(s)
    /\ UNCHANGED <<rowCt, queue, toPush, link, frames>>
    /\ UNCHANGED <<appVars, extVars, storeVars, fateVars, boundVars>>

\* A restart loses the process memory: handlers, map, pushes not yet made.
ServerRestart ==
    /\ Upset /\ SpareSocket
    /\ CloseHandlers({s \in Sockets : Live(s)})
    /\ registered' = NoSocket
    /\ toPush' = {}
    /\ UNCHANGED <<rowCt, queue, link, frames, appVars, extVars, storeVars>>
    /\ UNCHANGED <<fateVars, faults>>

\* tasks::message_expiry.
ExpireRow(r) ==
    /\ r \in queue /\ Upset
    /\ queue' = queue \ {r}
    /\ expired' = expired \cup {r}
    /\ UNCHANGED <<rowCt, toPush, registered, handler, chan, sent, pending>>
    /\ UNCHANGED <<netVars, appVars, extVars, storeVars>>
    /\ UNCHANGED <<skipped, killed, unsaved, released, faults>>

\* The path of a socket dies without a close frame; what it carried is lost.
BreakLink(s) ==
    /\ link[s] /\ Live(s) /\ SpareSocket
    /\ link' = [link EXCEPT ![s] = FALSE]
    /\ frames' = [frames EXCEPT ![s] = <<>>]
    /\ acks' = [acks EXCEPT ![s] = {}]
    /\ UNCHANGED <<serverVars, appVars, extVars, storeVars, fateVars,
                   boundVars>>

----------------------------------------------------------------------------
(* The app: connection.rs run_receive_loop and messaging.rs.  A suspended
   process takes no step; one that is leaving may still finish its step.   *)

Running == app # "suspended"

\* The next frame, if the loop is free to take it.
NextFrame(s) ==
    /\ Running /\ sock = s /\ work = Idle
    /\ frames[s] # <<>>
    /\ frames' = [frames EXCEPT ![s] = Tail(@)]
NextCt(s) == rowCt[Head(frames[s]).row]

SendAck(s, i) == acks' = [acks EXCEPT ![s] = IF link[s] /\ Live(s)
                                             THEN @ \cup {i} ELSE @]

\* session::decrypt: the ratchet that has moved past c is stored.
Advanced_NotStored(c) == consumed   \* mutant
Advanced(c) == consumed \cup {c}

\* decrypt_inbound succeeds: the ratchet is stored before it returns.
TakeDecrypts(s) ==
    /\ NextFrame(s)
    /\ NextCt(s) \notin consumed
    /\ consumed' = Advanced(NextCt(s))
    /\ work' = Item(Head(frames[s]).row, Head(frames[s]).id)
    /\ UNCHANGED <<serverVars, link, acks, app, sock, extVars, history>>
    /\ UNCHANGED <<fateVars, boundVars>>

\* decrypt_inbound fails because the ratchet has moved past the message:
\* acked to skip.
TakeDuplicate_NoAck(s) ==   \* mutant: the loop goes on without the ack
    /\ NextFrame(s)
    /\ NextCt(s) \in consumed
    /\ UNCHANGED <<serverVars, link, acks, app, sock, work, extVars>>
    /\ UNCHANGED <<storeVars, fateVars, boundVars>>
TakeDuplicate(s) ==
    /\ NextFrame(s)
    /\ NextCt(s) \in consumed
    /\ SendAck(s, Head(frames[s]).id)
    /\ UNCHANGED <<serverVars, link, app, sock, work, extVars, storeVars>>
    /\ UNCHANGED <<fateVars, boundVars>>

\* decrypt_inbound fails for another reason (a store error, say): acked to
\* skip all the same.
TakeFails(s) ==
    /\ NextFrame(s)
    /\ NextCt(s) \notin consumed
    /\ Fault
    /\ skipped' = skipped \cup {Head(frames[s]).row}
    /\ SendAck(s, Head(frames[s]).id)
    /\ UNCHANGED <<serverVars, link, app, sock, work, extVars, storeVars>>
    /\ UNCHANGED <<killed, unsaved, released, expired, upsets>>

\* process_decrypted, text body: what becomes of the history.  A blocked
\* sender is dropped; save_incoming_message inserts the row id at most once.
SavedHistory(item) ==
    IF rowCt[item.row] \in Blocked THEN history ELSE history \cup {item.row}
Done(item) == [item EXCEPT !.stage = "done"]

Persist ==
    /\ Running /\ work.stage = "decrypted"
    /\ history' = SavedHistory(work)
    /\ work' = Done(work)
    /\ UNCHANGED <<serverVars, netVars, app, sock, extVars, consumed>>
    /\ UNCHANGED <<fateVars, boundVars>>

\* The durable write fails: logged, and the loop goes on to the ack.
PersistFails ==
    /\ Running /\ work.stage = "decrypted"
    /\ rowCt[work.row] \notin Blocked
    /\ Fault
    /\ unsaved' = unsaved \cup {rowCt[work.row]}
    /\ work' = Done(work)
    /\ UNCHANGED <<serverVars, netVars, app, sock, extVars, storeVars>>
    /\ UNCHANGED <<skipped, killed, released, expired, upsets>>

\* ws.ack: queued for the socket, whether or not it still carries it.
AckDelivery_Early ==   \* mutant: the ack goes out before the write
    /\ Running /\ work.stage = "decrypted"
    /\ SendAck(sock, work.id)
    /\ UNCHANGED <<serverVars, link, frames, appVars, extVars, storeVars>>
    /\ UNCHANGED <<fateVars, boundVars>>
AckDelivery ==
    /\ Running /\ work.stage = "done"
    /\ SendAck(sock, work.id)
    /\ work' = Idle
    /\ UNCHANGED <<serverVars, link, frames, app, sock, extVars, storeVars>>
    /\ UNCHANGED <<fateVars, boundVars>>

\* The loop returns: next_message yields None once the socket has ended, or
\* backgrounding asks for a close.
MayLeave == Running /\ work = Idle
LeaveSocket ==
    /\ MayLeave /\ sock # NoSocket
    /\ \/ ~link[sock] \/ app = "leaving"
       \/ ~Live(sock) /\ frames[sock] = <<>>
    /\ sock' = NoSocket
    /\ frames' = [frames EXCEPT ![sock] = <<>>]
    /\ UNCHANGED <<serverVars, link, acks, app, work, extVars, storeVars>>
    /\ UNCHANGED <<fateVars, boundVars>>

\* prepare_for_background: the flag first, then, after a bounded wait for the
\* socket to close, the store gates shut wherever the loop stands.
EnterBackground ==
    /\ app = "active" /\ Upset /\ SpareSocket
    /\ app' = "leaving"
    /\ UNCHANGED <<serverVars, netVars, sock, work, extVars, storeVars>>
    /\ UNCHANGED <<fateVars, faults>>
Suspend ==
    /\ app = "leaving"
    /\ app' = "suspended"
    /\ UNCHANGED <<serverVars, netVars, sock, work, extVars, storeVars>>
    /\ UNCHANGED <<fateVars, boundVars>>

\* resume_from_background.
Resume ==
    /\ app \in {"leaving", "suspended"}
    /\ app' = "active"
    /\ UNCHANGED <<serverVars, netVars, sock, work, extVars, storeVars>>
    /\ UNCHANGED <<fateVars, boundVars>>

\* The process is killed and launched again: what it held in memory is gone,
\* and the stored ratchet will not decrypt it again.
Abandoned(item) == {c \in Ciphertexts : Holds(item, c)}
AppKilled ==
    /\ Fault /\ SpareSocket
    /\ killed' = killed \cup Abandoned(work)
    /\ app' = "active" /\ sock' = NoSocket /\ work' = Idle
    /\ frames' = [s \in Sockets |-> <<>>]
    /\ UNCHANGED <<serverVars, link, acks, extVars, storeVars>>
    /\ UNCHANGED <<skipped, unsaved, released, expired, upsets>>

----------------------------------------------------------------------------
(* The notification extension: app-core fetch_notifications_inner *)

\* The HTTP poll returns every queued row.
ExtFetch ==
    /\ Extension /\ wake /\ ext = NoBatch
    /\ ext' = [batch |-> queue, left |-> queue, hand |-> Idle]
    /\ wake' = FALSE
    /\ UNCHANGED <<serverVars, netVars, appVars, storeVars, fateVars,
                   boundVars>>

\* The oldest message left in the batch is the next to decrypt.
ExtTakes(r) ==
    /\ r \in ext.left /\ ext.hand = Idle
    /\ \A q \in ext.left : r <= q
ExtDecrypts(r) ==
    /\ ExtTakes(r)
    /\ rowCt[r] \notin consumed
    /\ consumed' = Advanced(rowCt[r])
    /\ ext' = [ext EXCEPT !.left = @ \ {r}, !.hand = Item(r, 0)]
    /\ UNCHANGED <<serverVars, netVars, appVars, wake, history>>
    /\ UNCHANGED <<fateVars, boundVars>>

\* decrypt_inbound fails: logged, and the row stays in the batch to ack.
ExtDuplicate(r) ==
    /\ ExtTakes(r)
    /\ rowCt[r] \in consumed
    /\ ext' = [ext EXCEPT !.left = @ \ {r}]
    /\ UNCHANGED <<serverVars, netVars, appVars, wake, storeVars>>
    /\ UNCHANGED <<fateVars, boundVars>>
ExtFails(r) ==
    /\ ExtTakes(r)
    /\ rowCt[r] \notin consumed
    /\ Fault
    /\ skipped' = skipped \cup {r}
    /\ ext' = [ext EXCEPT !.left = @ \ {r}]
    /\ UNCHANGED <<serverVars, netVars, appVars, wake, storeVars>>
    /\ UNCHANGED <<killed, unsaved, released, expired, upsets>>

ExtPersist ==
    /\ ext.hand.stage = "decrypted"
    /\ history' = SavedHistory(ext.hand)
    /\ ext' = [ext EXCEPT !.hand = Idle]
    /\ UNCHANGED <<serverVars, netVars, appVars, wake, consumed>>
    /\ UNCHANGED <<fateVars, boundVars>>
ExtPersistFails ==
    /\ ext.hand.stage = "decrypted"
    /\ rowCt[ext.hand.row] \notin Blocked
    /\ Fault
    /\ unsaved' = unsaved \cup {rowCt[ext.hand.row]}
    /\ ext' = [ext EXCEPT !.hand = Idle]
    /\ UNCHANGED <<serverVars, netVars, appVars, wake, storeVars>>
    /\ UNCHANGED <<skipped, killed, released, expired, upsets>>

\* One ack for the whole batch, best effort; the extension then ends.
BatchAcked_All == queue   \* mutant: the whole mailbox is acked
BatchAcked == ext.batch
ExtAck ==
    /\ ext.batch # {} /\ ext.left = {} /\ ext.hand = Idle
    /\ queue' \in {queue, queue \ BatchAcked}
    /\ released' = released \cup (queue \ queue')
    /\ ext' = NoBatch
    /\ UNCHANGED <<rowCt, toPush, registered, handler, chan, sent, pending>>
    /\ UNCHANGED <<netVars, appVars, wake, storeVars>>
    /\ UNCHANGED <<skipped, killed, unsaved, expired, boundVars>>

ExtKilled ==
    /\ ext # NoBatch /\ Fault
    /\ killed' = killed \cup Abandoned(ext.hand)
    /\ ext' = NoBatch
    /\ UNCHANGED <<serverVars, netVars, appVars, wake, storeVars>>
    /\ UNCHANGED <<skipped, unsaved, released, expired, upsets>>

----------------------------------------------------------------------------
(* The specification *)

Push(r) == PushToSocket(r) \/ PushWakeup(r)
Serve(s) ==
    \/ DrainOnConnect(s) \/ DrainFails(s) \/ ForwardPush(s) \/ EndSocket(s)
    \/ \E i \in acks[s] : HandleAck(s, i)
ServerNext ==
    \/ \E c \in Ciphertexts : Enqueue(c)
    \/ \E r \in toPush : Push(r) \/ SendAborts(r)
    \/ \E s \in Sockets : Serve(s) \/ DrainSkipped(s) \/ BreakLink(s)
    \/ \E r \in queue : ExpireRow(r)
    \/ ServerRestart

Receive == \E s \in Sockets : TakeDecrypts(s) \/ TakeDuplicate(s)
AppNext ==
    \/ \E s \in Sockets : Connect(s) \/ TakeFails(s)
    \/ Receive \/ Persist \/ PersistFails \/ AckDelivery \/ LeaveSocket
    \/ EnterBackground \/ Suspend \/ Resume \/ AppKilled

ExtTurn == \E r \in ext.left : ExtDecrypts(r) \/ ExtDuplicate(r)
ExtNext ==
    \/ ExtFetch \/ ExtTurn \/ ExtPersist \/ ExtAck \/ ExtKilled
    \/ \E r \in ext.left : ExtFails(r)
    \/ ExtPersistFails

Next == ServerNext \/ AppNext \/ ExtNext

\* Server tasks and the app's loop are polled until they finish, the app
\* reconnects with a bounded backoff, and the user opens the app again.
\* Senders, expiry, the network, restarts and faults owe nothing.
Fairness ==
    /\ \A r \in RowIds : WF_vars(Push(r))
    /\ \A s \in Sockets : WF_vars(Serve(s)) /\ WF_vars(Connect(s))
    /\ WF_vars(Receive) /\ WF_vars(Persist) /\ WF_vars(AckDelivery)
    /\ WF_vars(LeaveSocket) /\ WF_vars(Resume)
    /\ WF_vars(ExtTurn) /\ WF_vars(ExtPersist) /\ WF_vars(ExtAck)

Spec == Init /\ [][Next]_vars
FairSpec == Spec /\ Fairness

----------------------------------------------------------------------------
(* Correctness *)

Rows   == 1..Len(rowCt)
Items  == [row : Rows, id : Nat, stage : {"decrypted", "done"}]
Frames == [id : Nat, row : Rows]

ServerTypes ==
    /\ rowCt \in Seq(Ciphertexts) /\ Len(rowCt) <= MaxRows
    /\ queue \subseteq Rows /\ toPush \subseteq Rows
    /\ registered \in Sockets \cup {NoSocket}
    /\ handler \in [Sockets -> {"unused", "draining", "serving", "ended"}]
    /\ chan \in [Sockets -> Seq(Rows)]
    /\ sent \in [Sockets -> Nat]
    /\ pending \in [Sockets -> SUBSET Frames]
NetTypes ==
    /\ link \in [Sockets -> BOOLEAN]
    /\ frames \in [Sockets -> Seq(Frames)]
    /\ acks \in [Sockets -> SUBSET Nat]
AppTypes ==
    /\ app \in {"active", "leaving", "suspended"}
    /\ sock \in Sockets \cup {NoSocket}
    /\ work = Idle \/ (work \in Items /\ sock # NoSocket)
ExtTypes ==
    /\ ext \in [batch : SUBSET Rows, left : SUBSET Rows, hand : {Idle} \cup Items]
    /\ ext.left \subseteq ext.batch
    /\ wake \in BOOLEAN
StoreTypes == consumed \subseteq Ciphertexts /\ history \subseteq Rows
FateTypes ==
    /\ skipped \subseteq Rows /\ released \subseteq Rows /\ expired \subseteq Rows
    /\ killed \subseteq Ciphertexts /\ unsaved \subseteq Ciphertexts
    /\ upsets \in 0..MaxUpsets /\ faults \in 0..MaxFaults

\* The types of the state: table rows, channels, frames, the work in hand.
TypeOK ==
    /\ ServerTypes /\ NetTypes /\ AppTypes
    /\ ExtTypes /\ StoreTypes /\ FateTypes

\* A row leaves the server's queue only by expiring, or once the device has
\* decrypted its ciphertext or given the row up; and a ciphertext the device
\* decrypted is saved, from a blocked sender, still in some process's hands,
\* or lost to a kill or a failed write.  (The ack in run_receive_loop and in
\* fetch_notifications_inner, DeliverAck in handle_frame.)
Handled(r) == rowCt[r] \in consumed \/ r \in skipped
RowsAccounted == \A r \in Rows : r \in queue \cup expired \/ Handled(r)
Kept(c) == Stored(c) \/ c \in Blocked \cup killed \cup unsaved \/ InHand(c)
OpenedAccounted == \A c \in consumed : Kept(c)
NothingVanishes == RowsAccounted /\ OpenedAccounted

\* However often a message is queued, drained, pushed and polled, by app and
\* extension, it is saved at most once (decrypt before save_incoming_message,
\* which is keyed by the row).
OneRowPerCiphertext ==
    \A q, r \in history : rowCt[q] = rowCt[r] => q = r

\* The server deletes its copy only when the message is durably on the device
\* or its sender is blocked (run_receive_loop: process_decrypted, then ack).
AckAfterDurableWrite ==
    \A r \in released : Stored(rowCt[r]) \/ rowCt[r] \in Blocked

\* A row queued while the app has a working socket is on its way to the app:
\* to be pushed, in the handler's channel, or in a frame that awaits its ack.
\* (Registration precedes the drain in handle_ws, so no row falls between.)
InTransit(r) ==
    \/ r \in toPush
    \/ \E i \in DOMAIN chan[sock] : chan[sock][i] = r
    \/ \E fr \in pending[sock] : fr.row = r
NoStrandedRow ==
    sock # NoSocket =>
        (handler[sock] = "serving" /\ link[sock] => \A r \in queue : InTransit(r))

\* ws_connections never names a handler that has ended, so a push to a mapped
\* device is never sent into a closed channel and a wakeup is not withheld.
PushTargetsLiveHandler == registered # NoSocket => Live(registered)

\* Whatever breaks or restarts on the way, a queued row is in the end acked,
\* or expires (the on-connect drain replays what a lost ack left behind).
EveryRowSettles == \A r \in RowIds : r \in queue ~> r \notin queue

----------------------------------------------------------------------------
(* Why nothing vanishes: an inductive invariant *)

\* Frames sent to the app on s whose ack the app has still to give.
InFlight(s) ==
    {frames[s][i] : i \in DOMAIN frames[s]} \cup
    IF sock = s /\ work # Idle THEN {Frame(work.id, work.row)} ELSE {}

\* A frame id is only ever used on one socket, for one row, and an ack for it
\* only exists once that row has been handled.
Wire(s) ==
    /\ handler[s] \in {"unused", "draining"} => InFlight(s) = {}
    /\ handler[s] # "serving" => pending[s] = {} /\ acks[s] = {}
    /\ handler[s] = "serving" =>
          /\ \A fr \in InFlight(s) \cup pending[s] : fr.id <= sent[s]
          /\ \A i \in acks[s] : i <= sent[s]
    /\ \A fr \in InFlight(s), p \in pending[s] : fr.id = p.id => fr.row = p.row
    /\ \A p \in pending[s] : p.id \in acks[s] => Handled(p.row)

\* Both processes read the ratchet before they take a message, so a message
\* in hand or in the history is one the ratchet has moved past, no message is
\* in both hands, and one in hand is not in the history yet.
Desk ==
    /\ work # Idle => rowCt[work.row] \in consumed
    /\ ext.hand # Idle => rowCt[ext.hand.row] \in consumed
    /\ \A r \in history : rowCt[r] \in consumed
    /\ \A r \in ext.batch \ ext.left : Handled(r)
    /\ \A c \in Ciphertexts :
          /\ InHand(c) => ~Stored(c)
          /\ ~(Holds(work, c) /\ Holds(ext.hand, c))

\* Every reachable state satisfies it and every step preserves it: the acks
\* of run_receive_loop and fetch_notifications_inner reach only rows that
\* decrypt_inbound has dealt with, whichever socket or poll they came by.
IInv ==
    /\ TypeOK /\ Desk /\ (\A s \in Sockets : Wire(s))
    /\ NothingVanishes /\ OneRowPerCiphertext

----------------------------------------------------------------------------
(* The promise of the mailbox: see Mailbox. *)

Mail == INSTANCE Mailbox WITH box <- rowCt, waiting <- queue,
            opened <- consumed, givenUp <- skipped
ImplementsMailbox == Mail!Spec

=============================================================================
