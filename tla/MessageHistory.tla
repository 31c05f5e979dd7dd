--------------------------- MODULE MessageHistory ---------------------------
(***************************************************************************)
(* One direct conversation as the devices of its two accounts keep it: the  *)
(* rows of message_history, reactions and the conversation's timer.         *)
(*                                                                         *)
(*   - the client saves a message, sends it, and saves it once more with    *)
(*     the outcome (createMessaging.ts, AppState.swift);                    *)
(*   - app-core applies an edit, a deletion or a reaction locally, sends it *)
(*     to the other account and mirrors it to the sender's own devices,     *)
(*     under the lock of its AppCoreInner (lib.rs, messaging.rs);           *)
(*   - the receive loop decrypts what comes in, answers a text with a       *)
(*     delivery receipt, and then applies it, as it applies transcripts and *)
(*     read marks of the account's own devices (messaging.rs);              *)
(*   - read marks gather in memory and are sent by a task of their own      *)
(*     (read_sync.rs); the reaper deletes rows past their deadline (lib.rs).*)
(*                                                                         *)
(* The queue of a device delivers in order, every row once until it is      *)
(* decrypted: that is what the module MessageDelivery is about.  What has   *)
(* been decrypted cannot be again, so it is lost if it is not applied.      *)
(*                                                                         *)
(* A message is known by its sent_at, which is its number here; an edit     *)
(* carries any time not used before, for the clocks of two devices need not *)
(* agree.                                                                   *)
(***************************************************************************)
EXTENDS Integers, Sequences, FiniteSets, FiniteSetsExt, SequencesExt

CONSTANTS
    Mine, Theirs,   \* the devices of the two accounts
    MaxTexts,       \* bound: messages composed
    MaxTimes,       \* bound: times that edits carry
    Bounds          \* what each behaviour may do, see Init

ASSUME DevicesAssumption ==
    /\ IsFiniteSet(Mine) /\ IsFiniteSet(Theirs)
    /\ Mine # {} /\ Theirs # {} /\ Mine \cap Theirs = {}

Devices == Mine \cup Theirs
Plans == [writers : SUBSET Devices, timed : BOOLEAN, curated : BOOLEAN,
          texts : 0..MaxTexts, edits : Nat, deletes : Nat, reacts : Nat, reads : Nat,
          hides : Nat, timers : Nat, faults : Nat]

ASSUME BoundsAssumption == MaxTexts \in Nat /\ MaxTimes \in Nat /\ Bounds \subseteq Plans

Own(d) == IF d \in Mine THEN Mine ELSE Theirs
Siblings(d) == Own(d) \ {d}
Others(d) == Devices \ Own(d)

VARIABLES
    bound,     \* what this behaviour has left to do
    msgs,      \* the messages composed: by which device, timed or not
    store,     \* per device: rows, reactions, the conversation's timer
    queue,     \* per device: what is on its way to it, in order
    opened,    \* devices that have decrypted the head of their queue
    sending,   \* per device: messages saved and still to be sent
    resave,    \* per device: outcomes still to be saved
    lock,      \* per device: what it has sent and not yet mirrored
    marks,     \* per device: read marks pending, and in the sender's hands
    receipts,  \* per device: messages read whose receipt is still to be sent
    past       \* bookkeeping for properties

vars == <<bound, msgs, store, queue, opened, sending, resave, lock, marks, receipts, past>>

Texts == 1..MaxTexts
Sent == 1..Len(msgs)
Times == 1..MaxTimes
Sending == 0  SentOk == 1  Delivered == 2  Read == 3  Failed == 4

----------------------------------------------------------------------------
(* The store of a device.  A body is the time of the edit it comes from, 0  *)
(* as composed, Blank in a tombstone; so it stands for edited_at as well.   *)

Blank == -1
NoRow == [has |-> FALSE, body |-> Blank, deleted |-> FALSE, status |-> Sending,
          read |-> FALSE, timed |-> FALSE, due |-> FALSE]
RowsType == [has : BOOLEAN, body : {Blank, 0} \cup Times, deleted : BOOLEAN,
             status : Sending..Failed, read : BOOLEAN, timed : BOOLEAN, due : BOOLEAN]

Rows(s) == {m \in Texts : s.row[m].has}
Put(s, m, r) == [s EXCEPT !.row[m] = r]

\* A row that is saved read has its deadline at once.
NewRow(status, read, timed) ==
    [has |-> TRUE, body |-> 0, deleted |-> FALSE, status |-> status, read |-> read,
     timed |-> timed, due |-> read /\ timed]

\* save_message: the upsert leaves deleted_at, the timer and a deadline alone.
Upserted_Replaces(old, status, timed) == NewRow(status, TRUE, timed)
Upserted(old, status, timed) ==
    IF old.has THEN [old EXCEPT !.body = 0, !.status = status, !.read = TRUE]
    ELSE NewRow(status, TRUE, timed)
SaveMessage(s, m, status, timed) == Put(s, m, Upserted(s.row[m], status, timed))

SaveIncoming(s, m, timed) ==
    IF s.row[m].has THEN s ELSE Put(s, m, NewRow(Delivered, FALSE, timed))

Newer_Any(old, at) == TRUE
Newer(old, at) == at > old.body
ApplyEdit(s, m, at) ==
    IF s.row[m].has /\ ~s.row[m].deleted /\ Newer(s.row[m], at)
    THEN [s EXCEPT !.row[m].body = at] ELSE s

NoReactions == [acct \in {Mine, Theirs} |-> 0]
Tombstone(s, m) ==
    LET t == [s EXCEPT !.react[m] = NoReactions]
    IN IF s.row[m].has /\ ~s.row[m].deleted
       THEN [t EXCEPT !.row[m].deleted = TRUE, !.row[m].body = Blank] ELSE t

Removed(s, m) == Put(s, m, NoRow)
DeleteForMe(s, m) == [Removed(s, m) EXCEPT !.react[m] = NoReactions]

\* The reaction of an account to a message; 0 removes it.
UpsertReaction(s, acct, m, n) == [s EXCEPT !.react[m][acct] = n]

\* The rows a receipt for m speaks of.
Matches_UpTo(s, m) == {k \in Rows(s) : k <= m}
Matches(s, m) == Rows(s) \cap {m}
UpdateStatus(s, m, status) ==
    [s EXCEPT !.row = [k \in Texts |->
        IF k \in Matches(s, m) /\ @[k].status < status
        THEN [@[k] EXCEPT !.status = status] ELSE @[k]]]

Unread(s, upTo) == {m \in Rows(s) : m <= upTo /\ ~s.row[m].read}
Deadline_Never(r) == r.due
Deadline(r) == r.due \/ r.timed
MarkRead(s, upTo) ==
    [s EXCEPT !.row = [m \in Texts |->
        IF m \in Unread(s, upTo) THEN [@[m] EXCEPT !.read = TRUE, !.due = Deadline(s.row[m])]
        ELSE @[m]]]

----------------------------------------------------------------------------
(* What travels: the kind, the device it comes from, the message, and the   *)
(* time of an edit, a reaction, a status or a timer.                        *)

Op(k, d, m, n) == [kind |-> k, from |-> d, m |-> m, n |-> n]
NoOp == [kind |-> "none"]
Bit(b) == IF b THEN 1 ELSE 0

\* A reaction is kept under the account that reacted.
Reactor_Author(op) == Own(msgs[op.m].from)
Reactor(op) == Own(op.from)

\* An edit or a deletion is applied to a message of its sender's account only.
Authored(op) == msgs[op.m].from \in Own(op.from)
InboundEdit(s, op) == IF Authored(op) THEN ApplyEdit(s, op.m, op.n) ELSE s
InboundDelete(s, op) == IF Authored(op) THEN Tombstone(s, op.m) ELSE s

\* process_decrypted on what the other account sent.
AppliedFromPeer(s, op) ==
    CASE op.kind = "text" -> SaveIncoming(s, op.m, op.n = 1)
      [] op.kind = "edit" -> InboundEdit(s, op)
      [] op.kind = "delete" -> InboundDelete(s, op)
      [] op.kind = "react" -> UpsertReaction(s, Reactor(op), op.m, op.n)
      [] op.kind = "receipt" -> UpdateStatus(s, op.m, op.n)
      [] op.kind = "timer" -> [s EXCEPT !.timer = (op.n = 1)]

\* apply_sync_sent and apply_sync_read on what a sibling sent.
SyncRead(s, op) == MarkRead(s, op.n)
AppliedFromSibling(s, op) ==
    CASE op.kind = "text" -> SaveMessage(s, op.m, SentOk, op.n = 1)
      [] op.kind = "edit" -> ApplyEdit(s, op.m, op.n)
      [] op.kind = "delete" -> Tombstone(s, op.m)
      [] op.kind = "react" -> UpsertReaction(s, Reactor(op), op.m, op.n)
      [] op.kind = "mark" -> SyncRead(s, op)

To(ds, ops, q) == [d \in Devices |-> IF d \in ds THEN q[d] \o ops ELSE q[d]]

Init ==
    /\ bound \in Bounds
    /\ msgs = <<>>
    /\ store = [d \in Devices |-> [row |-> [m \in Texts |-> NoRow],
                                   react |-> [m \in Texts |-> NoReactions],
                                   timer |-> bound.timed]]
    /\ queue = [d \in Devices |-> <<>>] /\ opened = {}
    /\ sending = [d \in Devices |-> {}]
    /\ resave = [d \in Devices |-> {}]
    /\ lock = [d \in Devices |-> NoOp]
    /\ marks = [d \in Devices |-> [pending |-> 0, carried |-> 0]]
    /\ receipts = [d \in Devices |-> {}]
    /\ past = [decrypted |-> {}, got |-> {}, lost |-> {}, reads |-> {}, spoilt |-> {},
               crossed |-> {}, forgot |-> {}, times |-> {}]

Free(d) == lock[d] = NoOp
MayFail == bound.faults > 0
Failing == [bound EXCEPT !.faults = @ - 1]
Spoil(p, ms) == [p EXCEPT !.spoilt = @ \cup ms]

----------------------------------------------------------------------------
(* The client sends a message *)

Compose(d) ==
    LET m == Len(msgs) + 1 IN
    /\ d \in bound.writers /\ m <= bound.texts
    /\ Free(d)
    /\ msgs' = Append(msgs, [from |-> d, timed |-> store[d].timer])
    /\ store' = [store EXCEPT ![d] = SaveMessage(@, m, Sending, @.timer)]
    /\ sending' = [sending EXCEPT ![d] = @ \cup {m}]
    /\ UNCHANGED <<bound, queue, resave, lock, marks, receipts, past, opened>>

\* What a request to the server comes to: it is queued; it is not; it is, and
\* the answer is lost.
Outcomes == {"sent", "failed", "unconfirmed"}

\* send_to_target up to the mirror: the lock stays with d until Mirror.
Post(d, op, outcome) ==
    /\ outcome # "sent" => MayFail
    /\ queue' = IF outcome = "failed" THEN queue ELSE To(Others(d), <<op>>, queue)
    /\ lock' = IF outcome = "sent" THEN [lock EXCEPT ![d] = op] ELSE lock

SendText(d, m, outcome) ==
    /\ m \in sending[d] /\ Free(d)
    /\ sending' = [sending EXCEPT ![d] = @ \ {m}]
    /\ Post(d, Op("text", d, m, Bit(store[d].timer)), outcome)
    /\ IF outcome = "sent" THEN UNCHANGED <<bound, resave, past>>
       ELSE /\ bound' = Failing
            /\ resave' = [resave EXCEPT ![d] = @ \cup {<<m, Failed>>}]
            /\ past' = Spoil(past, {m})
    /\ UNCHANGED <<msgs, store, marks, receipts, opened>>

\* sync_sent_to_own_devices, best effort; the call then returns to the client.
Mirror(d, ok) ==
    /\ ~Free(d)
    /\ lock' = [lock EXCEPT ![d] = NoOp]
    /\ resave' = IF lock[d].kind = "text"
                 THEN [resave EXCEPT ![d] = @ \cup {<<lock[d].m, SentOk>>}] ELSE resave
    /\ IF ok THEN queue' = To(Siblings(d), <<lock[d]>>, queue) /\ UNCHANGED <<bound, past>>
       ELSE /\ MayFail /\ Siblings(d) # {}
            /\ bound' = Failing /\ past' = Spoil(past, {lock[d].m}) /\ UNCHANGED queue
    /\ UNCHANGED <<msgs, store, sending, marks, receipts, opened>>

\* The second save of the client, with the text as composed.
Resave(d, m, status) ==
    LET old == store[d].row[m] IN
    /\ <<m, status>> \in resave[d] /\ Free(d)
    /\ store' = [store EXCEPT ![d] = SaveMessage(@, m, status, msgs[m].timed)]
    /\ resave' = [resave EXCEPT ![d] = @ \ {<<m, status>>}]
    /\ past' = Spoil(past, IF old.has /\ (old.deleted \/ old.body = 0) THEN {} ELSE {m})
    /\ UNCHANGED <<bound, msgs, queue, sending, lock, marks, receipts, opened>>

----------------------------------------------------------------------------
(* Edits, deletions, reactions: applied, then sent, nothing undone *)

Amend(d, what, op, outcome, left) ==
    /\ Free(d) /\ store[d].row[op.m].has
    /\ store' = [store EXCEPT ![d] = what]
    /\ Post(d, op, outcome)
    /\ bound' = IF outcome = "sent" THEN left ELSE [left EXCEPT !.faults = @ - 1]
    /\ UNCHANGED <<msgs, sending, resave, marks, receipts, opened>>

\* An operation that does not reach everyone, or overtakes its own text.
Early(d, m) == m \in sending[d]
Spoils(d, m, outcome) == IF outcome # "sent" \/ Early(d, m) THEN {m} ELSE {}

Editable(d, m) ==
    m \in Sent /\ msgs[m].from \in Own(d) /\ ~store[d].row[m].deleted

SendEdit(d, m, at, outcome) ==
    /\ bound.edits > 0 /\ Editable(d, m) /\ at \notin past.times
    /\ Amend(d, ApplyEdit(store[d], m, at), Op("edit", d, m, at), outcome,
             [bound EXCEPT !.edits = @ - 1])
    /\ past' = [Spoil(past, Spoils(d, m, outcome)) EXCEPT !.times = @ \cup {at}]

SendDelete(d, m, outcome) ==
    /\ bound.deletes > 0 /\ Editable(d, m)
    /\ Amend(d, Tombstone(store[d], m), Op("delete", d, m, 0), outcome,
             [bound EXCEPT !.deletes = @ - 1])
    /\ past' = Spoil(past, Spoils(d, m, outcome))

\* A sibling's reaction that has not reached d yet.
Crosses(d, m) ==
    \E e \in Siblings(d) :
        \/ lock[e] # NoOp /\ lock[e].kind = "react" /\ lock[e].m = m
        \/ \E i \in DOMAIN queue[d] :
              queue[d][i].kind = "react" /\ queue[d][i].m = m /\ queue[d][i].from = e

SendReaction(d, m, n, outcome) ==
    /\ bound.reacts > 0 /\ m \in Sent /\ n # store[d].react[m][Own(d)]
    /\ ~store[d].row[m].deleted
    /\ Amend(d, UpsertReaction(store[d], Own(d), m, n), Op("react", d, m, n), outcome,
             [bound EXCEPT !.reacts = @ - 1])
    /\ past' = [Spoil(past, Spoils(d, m, outcome)) EXCEPT
                   !.crossed = IF Crosses(d, m) THEN @ \cup {<<m, Own(d)>>} ELSE @]

HideForMe(d, m) ==
    /\ bound.hides > 0 /\ Free(d) /\ store[d].row[m].has
    /\ bound' = [bound EXCEPT !.hides = @ - 1]
    /\ store' = [store EXCEPT ![d] = DeleteForMe(@, m)]
    /\ UNCHANGED <<msgs, queue, sending, resave, lock, marks, receipts, past, opened>>

\* The timer goes to the other account only.
SetTimer(d, outcome) ==
    LET on == ~store[d].timer IN
    /\ bound.timers > 0 /\ Free(d)
    /\ outcome # "sent" => MayFail
    /\ bound' = [(IF outcome = "sent" THEN bound ELSE Failing) EXCEPT !.timers = @ - 1]
    /\ store' = [store EXCEPT ![d].timer = on]
    /\ queue' = IF outcome = "failed" THEN queue
                ELSE To(Others(d), <<Op("timer", d, 0, Bit(on))>>, queue)
    /\ UNCHANGED <<msgs, sending, resave, lock, marks, receipts, past, opened>>

----------------------------------------------------------------------------
(* Receiving: decrypt_inbound, then process_decrypted                       *)

\* A text of the other account.
Fresh(d, op) == op.kind = "text" /\ op.from \notin Own(d)

\* The head of the queue is decrypted, which works once; a text is answered
\* with a delivery receipt, best effort, before it is stored.
Open(d, ok) ==
    LET op == Head(queue[d]) IN
    /\ queue[d] # <<>> /\ d \notin opened /\ Free(d)
    /\ ~ok => Fresh(d, op) /\ MayFail
    /\ bound' = IF ok THEN bound ELSE Failing
    /\ opened' = opened \cup {d}
    /\ queue' = IF Fresh(d, op) /\ ok
                THEN To(Others(d), <<Op("receipt", d, op.m, Delivered)>>, queue) ELSE queue
    /\ past' = IF Fresh(d, op) THEN [past EXCEPT !.decrypted = @ \cup {<<d, op.m>>}] ELSE past
    /\ UNCHANGED <<msgs, store, sending, resave, lock, marks, receipts>>

Stored(d, op) ==
    IF op.from \in Own(d) THEN AppliedFromSibling(store[d], op)
    ELSE AppliedFromPeer(store[d], op)
Lost(p, d, op) ==
    CASE Fresh(d, op) -> [p EXCEPT !.lost = @ \cup {<<d, op.m>>}]
      [] op.kind \in {"edit", "delete", "react"} -> Spoil(p, {op.m})
      [] op.kind = "mark" -> [p EXCEPT !.forgot = @ \cup {op.from}]
      [] OTHER -> p

\* It is applied and acked; a write of the store that fails is logged, and
\* acked too.  The save of a text does not wait for the lock.
Receive(d, ok) ==
    LET op == Head(queue[d]) IN
    /\ d \in opened /\ (Free(d) \/ Fresh(d, op))
    /\ opened' = opened \ {d}
    /\ queue' = [queue EXCEPT ![d] = Tail(@)]
    /\ IF ok THEN /\ store' = [store EXCEPT ![d] = Stored(d, op)]
                  /\ past' = IF Fresh(d, op) THEN [past EXCEPT !.got = @ \cup {<<d, op.m>>}]
                             ELSE past
                  /\ UNCHANGED bound
       ELSE MayFail /\ bound' = Failing /\ past' = Lost(past, d, op) /\ UNCHANGED store
    /\ UNCHANGED <<msgs, sending, resave, lock, marks, receipts>>

----------------------------------------------------------------------------
(* Reading, and telling the account's other devices *)

MergeMark(pending, upTo) == Max({pending, upTo})

\* mark_messages_read, without the lock.  The client names the last message it
\* shows, or the present moment.
MarkMessagesRead(d, upTo) ==
    LET new == Unread(store[d], upTo) IN
    /\ bound.reads > 0 /\ new # {}
    /\ bound' = [bound EXCEPT !.reads = @ - 1]
    /\ store' = [store EXCEPT ![d] = MarkRead(@, upTo)]
    /\ marks' = [marks EXCEPT ![d].pending = MergeMark(@, upTo)]
    /\ receipts' = [receipts EXCEPT ![d] = IF bound.curated THEN @ \cup new ELSE @]
    /\ past' = [past EXCEPT !.reads = @ \cup ({d} \X new)]
    /\ UNCHANGED <<msgs, queue, sending, resave, lock, opened>>

\* Sent to a curated contact only.  One receipt names all the messages; here
\* it is one for each.
SendReadReceipts(d, ok) ==
    /\ receipts[d] # {} /\ Free(d)
    /\ receipts' = [receipts EXCEPT ![d] = {}]
    /\ IF ok THEN /\ UNCHANGED bound
                  /\ queue' = To(Others(d), [i \in 1..Cardinality(receipts[d]) |->
                                   Op("receipt", d, SetToSeq(receipts[d])[i], Read)], queue)
       ELSE MayFail /\ bound' = Failing /\ UNCHANGED queue
    /\ UNCHANGED <<msgs, store, sending, resave, lock, marks, past, opened>>

DrainMarks(d) ==
    /\ marks[d].pending > 0 /\ marks[d].carried = 0
    /\ marks' = [marks EXCEPT ![d] = [pending |-> 0, carried |-> marks[d].pending]]
    /\ UNCHANGED <<bound, msgs, store, queue, sending, resave, lock, receipts, past, opened>>

MergedBack_Not(mk) == mk.pending
MergedBack(mk) == MergeMark(mk.pending, mk.carried)

SendReadMarks(d, ok) ==
    /\ marks[d].carried > 0 /\ Free(d)
    /\ IF ok THEN /\ queue' = To(Siblings(d), <<Op("mark", d, 0, marks[d].carried)>>, queue)
                  /\ marks' = [marks EXCEPT ![d].carried = 0]
                  /\ UNCHANGED bound
       ELSE /\ MayFail /\ bound' = Failing /\ UNCHANGED queue
            /\ marks' = [marks EXCEPT ![d] = [pending |-> MergedBack(@), carried |-> 0]]
    /\ UNCHANGED <<msgs, store, sending, resave, lock, receipts, past, opened>>

----------------------------------------------------------------------------
(* The reaper, and the end of the process *)

DeleteExpired(d, m) ==
    /\ store[d].row[m].due
    /\ store' = [store EXCEPT ![d] = Removed(@, m)]
    /\ UNCHANGED <<bound, msgs, queue, sending, resave, lock, marks, receipts, past, opened>>

\* Marks, sends under way, outcomes to be saved and what has been decrypted
\* are in memory only.
Exit(d) ==
    LET cut == Spoil(past, sending[d] \cup IF Free(d) THEN {} ELSE {lock[d].m})
        late == [cut EXCEPT !.forgot = @ \cup IF marks[d].pending + marks[d].carried > 0
                                              THEN {d} ELSE {}]
    IN
    /\ MayFail /\ bound' = Failing
    /\ \/ marks[d] # [pending |-> 0, carried |-> 0] \/ ~Free(d)
       \/ sending[d] # {} \/ resave[d] # {} \/ receipts[d] # {} \/ d \in opened
    /\ sending' = [sending EXCEPT ![d] = {}]
    /\ resave' = [resave EXCEPT ![d] = {}]
    /\ lock' = [lock EXCEPT ![d] = NoOp]
    /\ marks' = [marks EXCEPT ![d] = [pending |-> 0, carried |-> 0]]
    /\ receipts' = [receipts EXCEPT ![d] = {}]
    /\ opened' = opened \ {d}
    /\ queue' = IF d \in opened THEN [queue EXCEPT ![d] = Tail(@)] ELSE queue
    /\ past' = IF d \in opened THEN Lost(late, d, Head(queue[d])) ELSE late
    /\ UNCHANGED <<msgs, store>>

----------------------------------------------------------------------------
Work(d) ==
    \/ \E m \in Texts : SendText(d, m, "sent")
    \/ Mirror(d, TRUE)
    \/ \E m \in Texts, s \in {SentOk, Failed} : Resave(d, m, s)
    \/ Open(d, TRUE) \/ Receive(d, TRUE)
    \/ SendReadReceipts(d, TRUE)
    \/ DrainMarks(d)
    \/ SendReadMarks(d, TRUE)

User(d) ==
    \/ Compose(d)
    \/ \E m \in Texts, o \in Outcomes :
          \/ \E at \in Times : SendEdit(d, m, at, o)
          \/ SendDelete(d, m, o)
          \/ \E n \in {0, 1} : SendReaction(d, m, n, o)
    \/ \E m \in Texts : HideForMe(d, m)
    \/ \E o \in Outcomes : SetTimer(d, o)
    \/ \E upTo \in Sent : MarkMessagesRead(d, upTo)

Mishap(d) ==
    \/ \E m \in Texts, o \in {"failed", "unconfirmed"} : SendText(d, m, o)
    \/ Mirror(d, FALSE)
    \/ Open(d, FALSE) \/ Receive(d, FALSE)
    \/ SendReadReceipts(d, FALSE)
    \/ SendReadMarks(d, FALSE)
    \/ Exit(d)

Reap(d) == \E m \in Texts : DeleteExpired(d, m)

Next == \E d \in Devices : Work(d) \/ User(d) \/ Mishap(d) \/ Reap(d)

\* The tasks of a device run while its process does: a send ends, the loops
\* take their next turn, the reaper wakes at the next deadline.
Fairness == \A d \in Devices : WF_vars(Work(d)) /\ WF_vars(Reap(d))
Spec == Init /\ [][Next]_vars /\ Fairness

----------------------------------------------------------------------------
(* Properties *)

OpType ==
    [kind : {"text", "edit", "delete", "react", "receipt", "timer", "mark"},
     from : Devices, m : {0} \cup Texts, n : Nat]

Stores == [row : [Texts -> RowsType], react : [Texts -> [{Mine, Theirs} -> {0, 1}]],
           timer : BOOLEAN]
Accidents == [decrypted : SUBSET (Devices \X Texts), got : SUBSET (Devices \X Texts),
              lost : SUBSET (Devices \X Texts), reads : SUBSET (Devices \X Texts),
              spoilt : SUBSET Texts, crossed : SUBSET (Texts \X {Mine, Theirs}),
              forgot : SUBSET Devices, times : SUBSET Times]

\* The types of the variables; a row that is not there has left nothing.
TypeOK ==
    /\ bound \in Plans
    /\ msgs \in Seq([from : Devices, timed : BOOLEAN]) /\ Len(msgs) <= bound.texts
    /\ store \in [Devices -> Stores]
    /\ \A d \in Devices : \A m \in Texts \ Rows(store[d]) : store[d].row[m] = NoRow
    /\ queue \in [Devices -> Seq(OpType)]
    /\ opened \in SUBSET Devices
    /\ sending \in [Devices -> SUBSET Sent] /\ receipts \in [Devices -> SUBSET Sent]
    /\ resave \in [Devices -> SUBSET (Sent \X {SentOk, Failed})]
    /\ lock \in [Devices -> OpType \cup {NoOp}]
    /\ marks \in [Devices -> [pending : Nat, carried : Nat]]
    /\ past \in Accidents

\* Nothing is on its way and no outcome is still to be saved.
Quiet == \A d \in Devices :
    queue[d] = <<>> /\ Free(d) /\ sending[d] = {} /\ resave[d] = {}

Shown(r) == IF r.deleted THEN Blank ELSE r.body

\* Once all is delivered, every device that holds a message shows the same:
\* the newest edit, whatever order the edits came in and whatever the clocks,
\* or the tombstone.  Excepted are messages of which a send failed or was
\* overtaken by its own edit, or of which an operation was lost once decrypted,
\* and those the client's second save overwrote.
\* The same of reactions, unless two devices of one account reacted to the
\* message before hearing of each other.
\* (apply_edit, tombstone_message, apply_sync_sent, upsert_reaction)
DevicesConverge ==
    Quiet => \A m \in Sent \ past.spoilt, d, e \in Devices :
        store[d].row[m].has /\ store[e].row[m].has =>
            /\ Shown(store[d].row[m]) = Shown(store[e].row[m])
            /\ store[d].row[m].deleted \/ \A acct \in {Mine, Theirs} :
                  <<m, acct>> \in past.crossed
                  \/ store[d].react[m][acct] = store[e].react[m][acct]

\* A device that has decrypted m and is about to store it.
Holds(e, m) == e \in opened /\ Fresh(e, Head(queue[e])) /\ Head(queue[e]).m = m

\* No check mark claims more than happened: a sender's device shows delivered
\* only if a device of the other account stored the message, is about to, or
\* lost what it had decrypted to a failed write or a kill; and read only if its
\* user read it there.  (update_delivery_status, the receipts)
ReceiptsAreTrue ==
    \A m \in Sent, d \in Devices :
        msgs[m].from \in Own(d) =>
            /\ store[d].row[m].status = Delivered =>
                  \E e \in Others(d) : <<e, m>> \in past.got \cup past.lost \/ Holds(e, m)
            /\ store[d].row[m].status = Read =>
                  \E e \in Others(d) : <<e, m>> \in past.reads

\* A tombstone stays one as long as its row is there: no edit, transcript or
\* second save undoes a deletion.  (the ON CONFLICT clause of save_message)
DeletionsStand ==
    [][\A d \in Devices, m \in Texts :
          store[d].row[m].deleted /\ store'[d].row[m].has => store'[d].row[m].deleted]_vars

\* Neither check marks nor tombstones tell a user what is not so.
HistoryHonest == []ReceiptsAreTrue /\ DeletionsStand

\* What is read on one device is in the end read, or gone, on the account's
\* others, whatever requests fail, unless the process ended with the mark
\* unsent or the mark was lost once decrypted.  (read_sync_loop)
ReadsReachSiblings ==
    <>[](\A d \in Devices, m \in Texts : \A e \in Siblings(d) :
            <<d, m>> \in past.reads /\ d \notin past.forgot /\ store[e].row[m].has
                => store[e].row[m].read)

\* A timed message that has been read, here or on a sibling, goes.
\* (mark_messages_read, save_message, expire_reaper_loop)
TimedMessagesGo ==
    <>[](\A d \in Devices, m \in Texts :
            store[d].row[m].timed => ~store[d].row[m].read)

\* Reads and expiries come through in the end.
HistorySettles == ReadsReachSiblings /\ TimedMessagesGo
=============================================================================
