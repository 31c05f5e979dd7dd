----------------------------- MODULE GroupInbox -----------------------------
(***************************************************************************)
(* Group messages from one sending device (the peer) to one receiving       *)
(* device.  Content is encrypted under the peer's sender key and travels    *)
(* through the queue of the receiver's group pseudonym; the sender key      *)
(* itself travels in a direct message.  So either may come first, and the   *)
(* receiver keeps what it cannot open yet in pending_group_ciphertext.      *)
(*                                                                         *)
(*   - the peer: chain, marks of whom it shared its key with, cached        *)
(*     membership, session (app-core groups.rs, messaging.rs);              *)
(*   - the homeserver: both queues and the pseudonyms a socket subscribes   *)
(*     to (routes/groups.rs, routes/websocket.rs, db/group_messages.rs);     *)
(*   - the receiver: its app, and the notification extension that polls the *)
(*     same queues over the same database (connection.rs, lib.rs).          *)
(*                                                                         *)
(* Direct messages are taken here as the module MessageDelivery shows them  *)
(* to be: queued in order, opened once, released after handling.  The       *)
(* server's clean-up of a dead socket is one step with the cut: it removes  *)
(* only entries of the same channel, so a late one changes nothing.         *)
(* The receiving device may be replaced by recovery under the same number;  *)
(* rows for the pseudonym of a replaced device only expire, so they go at   *)
(* once.  A chain is never reseeded, so a message is known by its place.    *)
(***************************************************************************)
EXTENDS Naturals, Sequences, FiniteSets, SequencesExt

CONSTANTS
    Groups,
    FirstRow,     \* where the id sequence of the group queue starts
    Limits        \* bounds of the behaviours explored, see Init

LimitType == [written : SUBSET Groups, joins : SUBSET Groups, msgs : Nat, texts : Nat,
              gens : Nat \ {0}, upsets : Nat, beside : Nat]

ASSUME GroupsAssumption == IsFiniteSet(Groups)
ASSUME BoundsAssumption == FirstRow \in Nat /\ Limits \subseteq LimitType

VARIABLES
    peer,      \* the sending device
    dmq,       \* message_queue rows of the receiver
    gq,        \* group_message_queue rows for its pseudonyms
    toPush,    \* a group row committed and not yet pushed
    reg,       \* registration of the receiving device: which replacement
    dev,       \* its store: pseudonyms, keys, what it opened, buffer, history
    net,       \* its socket: subscriptions and frames in either direction
    app,       \* the app: awake, and the delivery in its hand
    ext,       \* the extension
    past       \* bookkeeping for bounds and properties

vars == <<peer, dmq, gq, toPush, reg, dev, net, app, ext, past>>

----------------------------------------------------------------------------
(* Values *)

NoRow == [id |-> 0, kind |-> "none", group |-> "none", iter |-> 0]
Row(n, k, g, i) == [id |-> n, kind |-> k, group |-> g, iter |-> i]

\* The rows of q that are in keep, in their order.
Only(q, keep) ==
    LET kept[n \in 0..Len(q)] ==
            IF n = 0 THEN <<>>
            ELSE IF q[n] \in keep THEN Append(kept[n - 1], q[n]) ELSE kept[n - 1]
    IN kept[Len(q)]
Without(q, rows) == Only(q, ToSet(q) \ rows)
OfGroups(q, gs) == Only(q, {row \in ToSet(q) : row.group \in gs})

\* A delivery in hand: the row to ack, and what has been opened and is to be
\* written to the history.
Free == [at |-> "idle", row |-> NoRow, save |-> <<>>]

NewStore == [bound |-> {}, key |-> [g \in Groups |-> {}], used |-> {},
             opened |-> {}, buffer |-> <<>>, history |-> {}]

\* The extension's poll: what it fetched and will ack, what is left of it, what
\* it decrypted, the groups still to poll, the message it works on.
Asleep == [at |-> "idle", batch |-> <<>>, left |-> <<>>, got |-> <<>>,
           todo |-> {}, hand |-> Free]

Offline == [up |-> FALSE, subs |-> {}, wire |-> <<>>, frames |-> <<>>,
            listed |-> {}]

\* limit: the groups the peer writes to, those the device comes to be in, messages
\* per group, direct messages with text queued at the start, the receiver's
\* device and its replacements; cuts, restarts, suspensions, expiries and faults; how
\* often the app and the extension come to work side by side.
Init == \E l \in Limits :
    /\ peer = [chain |-> [g \in Groups |-> 0], shared |-> {}, session |-> 0,
               knows |-> {}, at |-> "idle", group |-> "none", try |-> 1,
               saw |-> 0]
    /\ dmq = [n \in 1..l.texts |-> Row(n, "text", "none", 0)] /\ gq = <<>> /\ toPush = NoRow
    /\ reg = 1
    /\ dev = NewStore
    /\ net = Offline
    /\ app = [awake |-> TRUE, nudge |-> FALSE, hand |-> Free]
    /\ ext = Asleep
    /\ past = [limit |-> l, sent |-> {}, dms |-> l.texts, joined |-> {}, keyed |-> {},
               keyless |-> {}, unshared |-> {}, spoilt |-> {}, shadowed |-> {}, raced |-> {},
               overtaken |-> {}, keyLost |-> FALSE, greeted |-> FALSE,
               upsets |-> 0, beside |-> 0, faulty |-> FALSE]

----------------------------------------------------------------------------
(* The peer: send_group_bytes, under the lock of its AppCoreInner *)

PeerSends(g) ==
    /\ peer.at = "idle" /\ peer.chain[g] < past.limit.msgs
    /\ peer' = [peer EXCEPT !.at = "distribute", !.group = g, !.try = 1]
    /\ UNCHANGED <<dmq, gq, toPush, reg, dev, net, app, ext, past>>

\* A session with another registration than the server's is replaced, and
\* with it goes what the device was told in any group.
EnsureSession(p) ==
    [p EXCEPT !.shared = IF p.session \in {0, reg} THEN @ ELSE {}, !.session = reg]

EnqueueDm(k, g, i) ==
    /\ dmq' = Append(dmq, Row(past.dms + 1, k, g, i))

Upset == past.upsets < past.limit.upsets
Upsetting == [past EXCEPT !.upsets = @ + 1]
\* A fault is an upset that may cost a message: a kill, a failed write or
\* request.
Faulty == [Upsetting EXCEPT !.faulty = TRUE]

\* The two processes work at the same time only so often: a bound of the runs.
SideBySide(both) ==
    /\ both => past.beside < past.limit.beside
    /\ past' = IF both THEN [past EXCEPT !.beside = @ + 1] ELSE past

\* What the request that carries the key can come to.
Outcomes == {"sent", "failed", "unconfirmed"}

DistributeSenderKey(outcome) ==
    LET g == peer.group
        p == IF g \in peer.knows THEN EnsureSession(peer) ELSE peer
        owed == g \in p.knows /\ g \notin p.shared
    IN
    /\ peer.at = "distribute"
    /\ outcome # "sent" => owed /\ Upset
    /\ peer' = [p EXCEPT !.at = "endorse", !.saw = reg,
                         !.shared = IF owed /\ outcome = "sent" THEN @ \cup {g} ELSE @]
    /\ LET out == owed /\ outcome # "failed"
           q == IF outcome = "sent" THEN past ELSE Faulty
       IN /\ IF out THEN EnqueueDm("key", g, peer.chain[g]) ELSE UNCHANGED dmq
          /\ past' = IF out
                     THEN [q EXCEPT !.dms = @ + 1, !.keyed = @ \cup {<<g, reg>>}]
                     ELSE q
    /\ UNCHANGED <<gq, toPush, reg, dev, net, app, ext>>

\* The endorsements do not fit the cached members, or there is no other: refresh
\* the list and start over, once.
AfterRefresh_Sends == "endorse"
AfterRefresh == "distribute"
MembershipRefreshed ==
    /\ peer.at = "endorse" /\ peer.group \notin peer.knows /\ peer.try = 1
    /\ peer' = [peer EXCEPT !.knows = past.joined, !.try = 2, !.at = AfterRefresh]
    /\ UNCHANGED <<dmq, gq, toPush, reg, dev, net, app, ext, past>>

\* Nobody to send to, still a mismatch, or a request has failed.
EndsAt == {"endorse"}
SendEnds ==
    /\ peer.at \in EndsAt
    /\ peer' = [peer EXCEPT !.at = "idle"]
    /\ UNCHANGED <<dmq, gq, toPush, reg, dev, net, app, ext, past>>

\* The endorsements verify: encrypt, then fan out, one row for the pseudonym of the receiving device,
\* committed before it is pushed.
FanOut ==
    LET g == peer.group
        i == peer.chain[g]
        row == Row(FirstRow + Cardinality(past.sent), "group", g, i)
        open == <<g, reg>> \in past.keyed
    IN
    /\ peer.at = "endorse" /\ g \in peer.knows
    /\ peer' = [EnsureSession(peer) EXCEPT !.chain[g] = @ + 1,
                    !.at = IF g \in dev.bound THEN "push" ELSE "idle"]
    /\ IF g \in dev.bound
       THEN /\ gq' = Append(gq, row) /\ toPush' = row
            /\ past' = [past EXCEPT !.sent = @ \cup {row},
                          !.keyless = IF open THEN @ ELSE @ \cup {row},
                          !.unshared = IF open \/ peer.saw # reg THEN @
                                       ELSE @ \cup {row}]
       ELSE UNCHANGED <<gq, toPush, past>>
    /\ UNCHANGED <<dmq, reg, dev, net, app, ext>>

\* Under the read lock of group_subscriptions; without a subscriber a wakeup.
PushGroupRow ==
    /\ peer.at = "push"
    /\ net' = IF toPush # NoRow /\ toPush.group \in net.subs
              THEN [net EXCEPT !.frames = Append(@, toPush)] ELSE net
    /\ toPush' = NoRow
    /\ peer' = [peer EXCEPT !.at = "idle"]
    /\ UNCHANGED <<dmq, gq, reg, dev, app, ext, past>>

\* A direct message of the receiver reaches the peer: its session is then
\* with the registration that wrote.
PeerHears ==
    /\ past.greeted /\ peer.at = "idle"
    /\ peer' = [peer EXCEPT !.session = reg]
    /\ past' = [past EXCEPT !.greeted = FALSE]
    /\ UNCHANGED <<dmq, gq, toPush, reg, dev, net, app, ext>>

PeerNext ==
    \/ \E g \in past.limit.written : PeerSends(g)
    \/ \E o \in Outcomes : DistributeSenderKey(o)
    \/ MembershipRefreshed \/ SendEnds
    \/ FanOut \/ PushGroupRow \/ PeerHears

----------------------------------------------------------------------------
(* Pseudonyms and subscriptions *)

\* reconcile_group and complete_join_group: register a pseudonym, subscribe to
\* all of them, send our own key to the members, nudge the receive loop.
FullSet(s, g) == s
Nudged_Not == FALSE
Nudged == TRUE
Bind(g) ==
    LET s == dev.bound \cup {g} IN
    /\ app.awake /\ g \in past.limit.joins \ dev.bound
    /\ dev' = [dev EXCEPT !.bound = s]
    /\ net' = IF net.up THEN [net EXCEPT !.wire = Append(@, FullSet(s, g))] ELSE net
    /\ app' = [app EXCEPT !.nudge = Nudged]
    /\ past' = [past EXCEPT !.joined = @ \cup {g}, !.greeted = TRUE]
    /\ UNCHANGED <<peer, dmq, gq, toPush, reg, ext>>

Connect ==
    /\ app.awake /\ ~net.up
    /\ net' = [Offline EXCEPT !.up = TRUE, !.listed = {dev.bound}]
    /\ UNCHANGED <<peer, dmq, gq, toPush, reg, dev, app, ext, past>>

AtRest == app.hand.at = "idle" /\ net.up /\ app.awake

\* The receive loop reads the list, and sends it a step later.
ListPseudonyms ==
    /\ AtRest /\ app.nudge /\ net.listed = {}
    /\ app' = [app EXCEPT !.nudge = FALSE]
    /\ net' = [net EXCEPT !.listed = {dev.bound}]
    /\ UNCHANGED <<peer, dmq, gq, toPush, reg, dev, ext, past>>

SubscribeAll ==
    /\ AtRest
    /\ \E list \in net.listed :
         net' = [net EXCEPT !.listed = {},
                            !.wire = IF list = {} THEN @ ELSE Append(@, list)]
    /\ UNCHANGED <<peer, dmq, gq, toPush, reg, dev, app, ext, past>>

\* The server replaces the socket's set and drains what is newly in it.
Drained_Not(new) == <<>>
Drained(new) == OfGroups(gq, new \ net.subs)
HandleSubscribe ==
    /\ net.up /\ net.wire # <<>>
    /\ net' = [net EXCEPT !.subs = Head(net.wire), !.wire = Tail(@),
                          !.frames = @ \o Drained(Head(net.wire))]
    /\ UNCHANGED <<peer, dmq, gq, toPush, reg, dev, app, ext, past>>

----------------------------------------------------------------------------
(* What either process does with a delivery, in the store they share *)

\* A sender key opens what it has reached, once.
Opens(d, row) ==
    row \notin d.used /\ \E start \in d.key[row.group] : row.iter >= start
Behind(d, row) == d.key[row.group] # {} /\ ~Opens(d, row)

Used(d, rows) == [d EXCEPT !.used = @ \cup rows]
Buffered_Not(d, row) == d
Buffered(d, row) == [d EXCEPT !.buffer = Append(@, row)]

\* process_inbound_skdm keeps a chain it already holds.
Installed_Replaces(d, dm) == [d EXCEPT !.key[dm.group] = {dm.iter}]
Installed(d, dm) ==
    [d EXCEPT !.key[dm.group] = IF @ = {} THEN {dm.iter} ELSE @]

\* retry_pending_group_ciphertext: open in order, each row once, and drop what
\* is behind.
Openable(d) ==
    {n \in DOMAIN d.buffer :
        Opens(d, d.buffer[n]) /\ \A i \in 1..(n - 1) : d.buffer[i] # d.buffer[n]}
Recovered(d) ==
    LET ns == Only([n \in DOMAIN d.buffer |-> n], Openable(d))
    IN [k \in DOMAIN ns |-> d.buffer[ns[k]]]
Kept(d) ==
    Only(d.buffer, {row \in ToSet(d.buffer) : ~Opens(d, row) /\ ~Behind(d, row)})
Retry_Not(d) == [dev |-> d, rows |-> <<>>]
Retry(d) == [dev |-> [Used(d, ToSet(Recovered(d))) EXCEPT !.buffer = Kept(d)],
             rows |-> Recovered(d)]

\* save_incoming_message: the first row under an id stays.
Saved(d, row) ==
    [d EXCEPT !.history = IF \E r \in @ : r.id = row.id THEN @ ELSE @ \cup {row}]

Hand(p) == IF p = "app" THEN app.hand ELSE ext.hand
Puts(p, h) ==
    IF p = "app" THEN app' = [app EXCEPT !.hand = h] /\ UNCHANGED ext
    ELSE ext' = [ext EXCEPT !.hand = h] /\ UNCHANGED app
Turn(p) == IF p = "app" THEN app.awake ELSE ext.at # "idle"
Holding(row, rows) ==
    [at |-> IF rows = <<>> THEN "ack" ELSE "save", row |-> row, save |-> rows]

\* decrypt_inbound: a direct message opens once; a second time it fails.
OpenDm(p, dm) ==
    IF dm.id \in dev.opened
    THEN UNCHANGED dev /\ Puts(p, Holding(dm, <<>>))
    ELSE /\ dev' = [dev EXCEPT !.opened = @ \cup {dm.id}]
         /\ Puts(p, IF dm.kind = "key" THEN [Free EXCEPT !.at = "key", !.row = dm]
                    ELSE Holding(dm, <<dm>>))

\* Rows a key installed now is too late for, although an older one is in the
\* hand of the other process: the lock is one of a process.
Overtaken(dm) ==
    {row \in past.sent :
        /\ row.group = dm.group /\ row.iter < dm.iter /\ dev.key[dm.group] = {}
        /\ \E p \in {"app", "ext"} :
              Hand(p).at = "key" /\ Hand(p).row.group = dm.group /\ Hand(p).row.iter <= row.iter}

\* The SenderKeyDistribution arm of process_decrypted, under the lock.
ProcessSkdm(p) ==
    LET dm == Hand(p).row
        again == Retry(Installed(dev, dm))
    IN
    /\ Turn(p) /\ Hand(p).at = "key"
    /\ dev' = again.dev
    /\ Puts(p, Holding(dm, again.rows))
    /\ past' = [past EXCEPT !.overtaken = @ \cup Overtaken(dm)]
    /\ UNCHANGED <<peer, dmq, gq, toPush, reg, net>>

\* The rows already in the history keep theirs from being written.
Shadows(row) == {r \in dev.history : r.id = row.id /\ r # row}

SaveIncoming(p) ==
    LET h == Hand(p)
        row == Head(h.save)
    IN
    /\ Turn(p) /\ h.at = "save"
    /\ dev' = Saved(dev, row)
    /\ Puts(p, Holding(h.row, Tail(h.save)))
    /\ past' = IF Shadows(row) = {} THEN past ELSE [past EXCEPT !.shadowed = @ \cup {row}]
    /\ UNCHANGED <<peer, dmq, gq, toPush, reg, net>>

SaveFails(p) ==
    LET h == Hand(p) IN
    /\ Turn(p) /\ h.at = "save" /\ Upset
    /\ past' = [Faulty EXCEPT !.spoilt = @ \cup {Head(h.save)}]
    /\ Puts(p, Holding(h.row, Tail(h.save)))
    /\ UNCHANGED <<peer, dmq, gq, toPush, reg, dev, net>>

----------------------------------------------------------------------------
(* The app's receive loop *)

Ready == AtRest /\ net.listed = {}

TakeDm ==
    /\ Ready /\ dmq # <<>>
    /\ OpenDm("app", Head(dmq))
    /\ UNCHANGED <<peer, dmq, gq, toPush, reg, net, past>>

\* buffer_undecryptable_group, of a row that did not open.  No lock is held
\* between the two that both processes take, so a key may have come meanwhile.
Buffers(row) ==
    /\ dev' = Buffered(dev, row)
    /\ past' = IF Opens(dev, row) THEN [past EXCEPT !.raced = @ \cup {row}] ELSE past

\* process_inbound_group_delivery: open, or keep for the key.
ProcessGroupDelivery ==
    LET row == Head(net.frames) IN
    /\ Ready /\ net.frames # <<>>
    /\ net' = [net EXCEPT !.frames = Tail(@)]
    /\ IF Opens(dev, row)
       THEN dev' = Used(dev, {row}) /\ Puts("app", Holding(row, <<row>>))
       ELSE Puts("app", [Free EXCEPT !.at = "buffer", !.row = row]) /\ UNCHANGED dev
    /\ UNCHANGED <<peer, dmq, gq, toPush, reg, past>>

AppBuffers ==
    /\ app.awake /\ app.hand.at = "buffer"
    /\ Buffers(app.hand.row)
    /\ Puts("app", Holding(app.hand.row, <<>>))
    /\ UNCHANGED <<peer, dmq, gq, toPush, reg, net>>

\* An ack reaches the server, unless the socket has gone meanwhile.
AppAcks ==
    LET done == IF net.up THEN {app.hand.row} ELSE {} IN
    /\ app.awake /\ app.hand.at = "ack"
    /\ dmq' = Without(dmq, done) /\ gq' = Without(gq, done)
    /\ Puts("app", Free)
    /\ UNCHANGED <<peer, toPush, reg, dev, net, past>>

Sleep ==
    /\ Upset /\ app.awake
    /\ app' = [app EXCEPT !.awake = FALSE] /\ net' = Offline /\ past' = Upsetting
    /\ UNCHANGED <<peer, dmq, gq, toPush, reg, dev, ext>>

Wake ==
    /\ ~app.awake
    /\ SideBySide(ext.at # "idle")
    /\ app' = [app EXCEPT !.awake = TRUE]
    /\ UNCHANGED <<peer, dmq, gq, toPush, reg, dev, net, ext>>

\* What dies with a process.
Dropped(h, rows) ==
    [Faulty EXCEPT !.spoilt = @ \cup ToSet(h.save) \cup ToSet(rows),
                      !.keyLost = @ \/ h.at = "key"]

AppKilled ==
    /\ Upset /\ app.hand.at # "idle"
    /\ past' = Dropped(app.hand, <<>>)
    /\ app' = [awake |-> FALSE, nudge |-> FALSE, hand |-> Free] /\ net' = Offline
    /\ UNCHANGED <<peer, dmq, gq, toPush, reg, dev, ext>>

AppSteps ==
    \/ Connect \/ ListPseudonyms \/ SubscribeAll \/ TakeDm \/ ProcessGroupDelivery
    \/ AppBuffers \/ ProcessSkdm("app") \/ SaveIncoming("app") \/ AppAcks \/ Wake

AppNext ==
    \/ AppSteps \/ SaveFails("app") \/ Sleep \/ AppKilled
    \/ \E g \in Groups : Bind(g)

----------------------------------------------------------------------------
(* The notification extension: fetch_notifications_inner *)

Polls(at, q) == [ext EXCEPT !.at = at, !.batch = q, !.left = q, !.got = <<>>]

ExtPollsDms ==
    /\ ext.at = "idle" /\ (dmq # <<>> \/ gq # <<>>)
    /\ SideBySide(app.awake \/ app.hand # Free)
    /\ ext' = Polls("dms", dmq)
    /\ UNCHANGED <<peer, dmq, gq, toPush, reg, dev, net, app>>

ExtTakesDm ==
    /\ ext.at = "dms" /\ ext.hand.at = "idle" /\ ext.left # <<>>
    /\ OpenDm("ext", Head(ext.left))
    /\ UNCHANGED <<peer, dmq, gq, toPush, reg, net, past>>

ExtDmDone ==
    /\ ext.at = "dms" /\ ext.hand.at = "ack"
    /\ ext' = [ext EXCEPT !.hand = Free, !.left = Tail(@)]
    /\ UNCHANGED <<peer, dmq, gq, toPush, reg, dev, net, app, past>>

ExtAcksDms ==
    /\ ext.at = "dms" /\ ext.hand.at = "idle" /\ ext.left = <<>>
    /\ dmq' = Without(dmq, ToSet(ext.batch))
    /\ ext' = [Polls("groups", <<>>) EXCEPT !.todo = dev.bound]
    /\ UNCHANGED <<peer, gq, toPush, reg, dev, net, app, past>>

\* fetch_group_messages: the queue of one pseudonym.
ExtFetches(g) ==
    /\ ext.at = "groups" /\ g \in ext.todo
    /\ ext' = [Polls("rows", OfGroups(gq, {g}))
                 EXCEPT !.todo = @ \ {g}]
    /\ UNCHANGED <<peer, dmq, gq, toPush, reg, dev, net, app, past>>

ExtOpensRow ==
    LET row == Head(ext.left) IN
    /\ ext.at = "rows" /\ ext.left # <<>>
    /\ IF Opens(dev, row)
       THEN /\ dev' = Used(dev, {row})
            /\ ext' = [ext EXCEPT !.got = Append(@, row), !.left = Tail(@)]
       ELSE ext' = [ext EXCEPT !.at = "failed"] /\ UNCHANGED dev
    /\ UNCHANGED <<peer, dmq, gq, toPush, reg, net, app, past>>

ExtBuffers ==
    /\ ext.at = "failed"
    /\ Buffers(Head(ext.left))
    /\ ext' = [ext EXCEPT !.at = "rows", !.left = Tail(@)]
    /\ UNCHANGED <<peer, dmq, gq, toPush, reg, net, app>>

\* The rows are acked before the caller writes what they held.
ExtAcksRows ==
    /\ ext.at = "rows" /\ ext.left = <<>>
    /\ gq' = Without(gq, ToSet(ext.batch))
    /\ ext' = [ext EXCEPT !.at = "save", !.batch = <<>>, !.got = <<>>,
                          !.hand = Holding(NoRow, ext.got)]
    /\ UNCHANGED <<peer, dmq, toPush, reg, dev, net, app, past>>

ExtGroupDone ==
    /\ ext.at = "save" /\ ext.hand.at = "ack"
    /\ ext' = [ext EXCEPT !.at = "groups", !.hand = Free]
    /\ UNCHANGED <<peer, dmq, gq, toPush, reg, dev, net, app, past>>

ExtEnds ==
    /\ ext.at = "groups" /\ ext.todo = {}
    /\ ext' = Asleep
    /\ UNCHANGED <<peer, dmq, gq, toPush, reg, dev, net, app, past>>

\* The operating system ends it: what is decrypted and not yet written is gone.
ExtKilled ==
    /\ Upset /\ ext.at # "idle"
    /\ past' = Dropped(ext.hand, ext.got)
    /\ ext' = Asleep
    /\ UNCHANGED <<peer, dmq, gq, toPush, reg, dev, net, app>>

ExtSteps ==
    \/ ExtTakesDm \/ ExtDmDone \/ ExtAcksDms
    \/ \E g \in Groups : ExtFetches(g)
    \/ ExtOpensRow \/ ExtBuffers \/ ExtAcksRows \/ ExtGroupDone \/ ExtEnds
    \/ ProcessSkdm("ext") \/ SaveIncoming("ext")

ExtNext == ExtSteps \/ ExtPollsDms \/ SaveFails("ext") \/ ExtKilled

----------------------------------------------------------------------------
(* The world *)

\* The socket is cut, or the server restarts and forgets what it was to push.
Cut ==
    /\ Upset /\ net.up
    /\ net' = Offline /\ toPush' = NoRow /\ past' = Upsetting
    /\ UNCHANGED <<peer, dmq, gq, reg, dev, app, ext>>

ExpireRow ==
    /\ Upset /\ gq # <<>>
    /\ gq' = Tail(gq)
    /\ past' = [Upsetting EXCEPT !.spoilt = @ \cup {Head(gq)}]
    /\ UNCHANGED <<peer, dmq, toPush, reg, dev, net, app, ext>>

\* recover_from_blob: a new device in the place of the old one.  It gets the
\* group keys back from storage sync, without pseudonyms or sender keys.
Replace ==
    /\ reg < past.limit.gens /\ dev.bound # {}
    /\ reg' = reg + 1
    /\ dev' = NewStore /\ dmq' = <<>> /\ gq' = <<>> /\ toPush' = NoRow
    /\ net' = Offline /\ ext' = Asleep
    /\ app' = [awake |-> TRUE, nudge |-> FALSE, hand |-> Free]
    /\ past' = [past EXCEPT !.spoilt = past.sent, !.greeted = FALSE]
    /\ UNCHANGED peer

Next == PeerNext \/ HandleSubscribe \/ AppNext \/ ExtNext \/ Cut \/ ExpireRow \/ Replace

\* Tasks of the server and of the app run on; the app is opened again; a poll
\* once begun goes on.  Senders, polls, cuts and faults have no fairness.
Fairness ==
    /\ WF_vars(PushGroupRow) /\ WF_vars(HandleSubscribe)
    /\ WF_vars(AppSteps) /\ WF_vars(ExtSteps)

Spec == Init /\ [][Next]_vars /\ Fairness

----------------------------------------------------------------------------
(* Properties *)

GroupRow == [id : Nat, kind : {"group"}, group : Groups, iter : Nat]
Dm == [id : Nat, kind : {"text"}, group : {"none"}, iter : {0}]
          \cup [id : Nat, kind : {"key"}, group : Groups, iter : Nat]
Hands == [at : {"idle", "key", "buffer", "save", "ack"}, row : Dm \cup GroupRow \cup {NoRow},
          save : Seq(Dm \cup GroupRow)]
Peers == [chain : [Groups -> Nat], shared : SUBSET Groups, session : Nat,
          knows : SUBSET Groups, at : {"idle", "distribute", "endorse", "push"},
          group : Groups \cup {"none"}, try : {1, 2}, saw : Nat]
Stores == [bound : SUBSET Groups, key : [Groups -> SUBSET Nat], used : SUBSET GroupRow,
           opened : SUBSET Nat, buffer : Seq(GroupRow), history : SUBSET (Dm \cup GroupRow)]
Nets == [up : BOOLEAN, subs : SUBSET Groups, wire : Seq(SUBSET Groups),
         frames : Seq(GroupRow), listed : SUBSET (SUBSET Groups)]
Apps == [awake : BOOLEAN, nudge : BOOLEAN, hand : Hands]
Exts == [at : {"idle", "dms", "groups", "rows", "failed", "save"},
         batch : Seq(Dm \cup GroupRow), left : Seq(Dm \cup GroupRow),
         got : Seq(GroupRow), todo : SUBSET Groups, hand : Hands]
Pasts == [limit : LimitType, sent : SUBSET GroupRow, dms : Nat, joined : SUBSET Groups,
          keyed : SUBSET (Groups \X Nat), keyless : SUBSET GroupRow,
          unshared : SUBSET GroupRow, spoilt : SUBSET (Dm \cup GroupRow),
          shadowed : SUBSET (Dm \cup GroupRow), raced : SUBSET GroupRow,
          overtaken : SUBSET GroupRow,
          keyLost : BOOLEAN, greeted : BOOLEAN, upsets : Nat, beside : Nat,
          faulty : BOOLEAN]

\* What each part holds; and the peer knows of no group the receiver has not
\* been in, the receiver of no row that was not sent.
TypeOK ==
    /\ peer \in Peers /\ dmq \in Seq(Dm) /\ gq \in Seq(GroupRow)
    /\ toPush \in GroupRow \cup {NoRow} /\ reg \in Nat \ {0}
    /\ dev \in Stores /\ net \in Nets /\ ext \in Exts /\ past \in Pasts
    /\ app \in Apps
    /\ peer.at # "idle" => peer.group \in Groups
    /\ {peer.session, peer.saw} \subseteq 0..reg
    /\ peer.shared \subseteq peer.knows /\ peer.knows \subseteq past.joined
    /\ toPush \in past.sent \cup {NoRow}
    /\ toPush # NoRow => peer.at = "push"
    /\ past.unshared \subseteq past.keyless /\ past.keyless \subseteq past.sent
    /\ IsFiniteSet(past.sent) /\ ToSet(gq) \subseteq past.sent
    /\ dev.bound \subseteq past.joined /\ dev.used \subseteq past.sent
    /\ net.subs \subseteq dev.bound /\ ToSet(net.frames) \subseteq past.sent
    /\ \A g \in Groups : \A i, j \in dev.key[g] : i = j
    /\ ~net.up => net = Offline
    /\ ext.at = "idle" => ext = Asleep
    /\ dev.opened \subseteq 1..past.dms

\* What became of a message when it is not to be read: a fault, expiry or the
\* device's replacement; sent without a key; another row under its id; a later
\* key installed before its own by the other process; its key lost to a kill.
Gone == past.spoilt \cup past.keyless \cup past.shadowed \cup past.overtaken
Excused(row) == row \in Gone \/ past.keyLost

InHand(row) ==
    \E p \in {"app", "ext"} : Contains(Hand(p).save, row) \/ Contains(ext.got, row)

\* No message falls between the queue, the hands, the buffer and the history:
\* what has left the server's queue (routes/websocket.rs GroupDeliverAck,
\* fetch_group_messages) is readable or waits for its key.
NothingLost ==
    \A row \in past.sent :
        \/ Contains(gq, row) \/ InHand(row) \/ Contains(dev.buffer, row)
        \/ row \in dev.history \/ Excused(row)

\* Nothing waits in pending_group_ciphertext for a key that is there, unless the
\* other process installed it between the attempt and the buffering: the retry
\* runs when a key arrives and only then.
BufferAwaitsKey ==
    \A n \in DOMAIN dev.buffer : Opens(dev, dev.buffer[n]) => dev.buffer[n] \in past.raced

\* Between events a connected app is subscribed to all its pseudonyms, although
\* every subscribe frame replaces the one before and two tasks send them.
SubscribedToAll ==
    AtRest /\ net.listed = {} /\ ~app.nudge /\ net.wire = <<>>
        => net.subs = dev.bound

\* To a device never replaced, nothing is sent before the key that opens it,
\* unless the message with the key failed (send_group_bytes).
KeyFirst == past.keyless # {} => reg > 1 \/ past.faulty

\* All three: no message is lost, and the ones that wait wait for a key that
\* is still to come.
InboxHolds == NothingLost /\ BufferAwaitsKey /\ KeyFirst

\* The same for a device that had taken the place of another before the key was
\* last shared (docs/04: "now cleared on re-registration in ensure_session").
KeyAfterRecovery == past.unshared # {} => past.faulty

\* Every message to the receiving device comes to be in its history, or has an
\* excuse: the buffer is no place to stay, but for a row put there beside its key.
EveryMessageSettles ==
    <>[](\A row \in past.sent : row \in dev.history \cup past.raced \/ Excused(row))
=============================================================================
