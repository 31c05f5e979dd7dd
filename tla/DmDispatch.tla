----------------------------- MODULE DmDispatch -----------------------------
(***************************************************************************)
(* A direct message on its way to every device of its recipient, and the   *)
(* prekeys that let it be opened there:                                    *)
(*                                                                         *)
(*   - the sender (app-core messaging.rs): the recipient's device list, a  *)
(*     session with each device, one batch over the socket, the same batch *)
(*     over HTTP if that fails, one retry after a stale-device reply;      *)
(*   - the homeserver (routes/messages.rs, routes/prekeys.rs,              *)
(*     db/prekeys.rs): a batch is enqueued row by row, each row on a check *)
(*     of the device's registration; a bundle is put together by several   *)
(*     statements, so two requests may be in the middle of one at once;    *)
(*   - the recipient's devices: recovery replaces one under its old number *)
(*     (routes/devices.rs), prekey pools are topped up (prekeys.rs), rows  *)
(*     are opened.                                                         *)
(*                                                                         *)
(* Cryptography: a session is one key agreement with one registration; the *)
(* first message that is opened under it uses up the one-time key, and a   *)
(* ciphertext opens once.  The device never answers, so every message      *)
(* still carries the agreement.  Rate limits, push wakeups and the         *)
(* receiving side of delivery (MessageDelivery) are left out, and so are   *)
(* the copies for the sender's own devices, which are further sends.       *)
(***************************************************************************)
EXTENDS Naturals, Sequences, SequencesExt, FiniteSets, FiniteSetsExt

CONSTANTS
    Senders,     \* sending devices, of different accounts
    MaxDevice,   \* the recipient's device numbers are 1..MaxDevice
    Low, Target, \* a pool below Low is brought back to Target
    MaxSends,    \* bound: messages in all
    Bounds       \* bounds of a behaviour: the senders that send and the
                 \* devices linked at its start, its messages, registrations
                 \* (by recovery or linking), faults (lost replies, failed
                 \* refills)

Devices == 1..MaxDevice
Texts   == 1..MaxSends
Kinds   == {"ec", "kyber"}      \* pools of one-time prekeys

ASSUME SenderAssumption == IsFiniteSet(Senders)
ASSUME DeviceAssumption == MaxDevice \in Nat \ {0}
ASSUME PoolAssumption   == Low \in Nat /\ Target \in Nat /\ Low <= Target
ASSUME BoundAssumption  ==
    /\ MaxSends \in Nat
    /\ Bounds \subseteq [from : SUBSET Senders, linked : SUBSET Devices,
                          sends : 0..MaxSends, regs : Nat, faults : Nat]

VARIABLES
    reg,       \* reg[d]: registration of device d on the server, 0 if none
    made,      \* registrations made since the start
    pool,      \* pool[d][k]: ids of one-time public keys on the server
    queue,     \* queue[d]: rows for d
    reqs,      \* send requests the server is working on
    up,        \* up[d]: the device's store holds this registration
    own,       \* own[d][k]: ids whose private half the store holds
    nextKey,   \* nextKey[d][k]: the persistent id allocator
    known,     \* known[d]: sessions d has opened a message of
    opened,    \* opened[d]: ciphertexts opened
    unopened,  \* unopened[d]: ciphertexts for which d lacked the key
    refill,    \* refill[d]: the top-up in progress
    session,   \* session[s][d]: the sender's session with d
    job,       \* job[s]: the send in progress
    sends,     \* messages so far
    outcome,   \* outcome[t]: what the sender was told of message t
    sentTo,    \* sentTo[t]: the device list it was sent to
    retried,   \* messages encrypted a second time
    start,     \* start[t]: registrations made, and stale sessions, when t began
    accepted,  \* <<t, d, r>>: t enqueued for d under registration r
    given,     \* one-time keys handed out: <<d, r, id>>, and how often
    faults,
    bound      \* the bounds this behaviour keeps

device == <<up, own, nextKey, known, opened, unopened>>
sender == <<session, job, sends, outcome, sentTo, retried, start>>
log    == <<accepted, given, bound>>
vars == <<reg, made, pool, queue, reqs, device, refill, sender, log, faults>>

----------------------------------------------------------------------------
(* Helpers *)

NoKeys    == [k \in Kinds |-> {}]
NoSession == [reg |-> 0, n |-> 0, ec |-> 0]
NoJob == [phase |-> "idle", text |-> 0, left |-> <<>>, force |-> {},
          again |-> FALSE, envs |-> <<>>, got |-> NoSession]
NoRefill == [phase |-> "idle", need |-> [k \in Kinds |-> 0], kind |-> "ec",
             keys |-> {}]

\* ORDER BY d.device_id
Increasing(q) == \A i, j \in DOMAIN q : i < j => q[i] < q[j]
InOrder(S) == CHOOSE q \in UNION {[1..n -> S] : n \in 0..MaxDevice} :
                 ToSet(q) = S /\ Increasing(q)
Registered == {d \in Devices : reg[d] # 0}
Fault == faults < bound.faults /\ faults' = faults + 1

\* The keys published with a registration: one-time curve keys at once, the
\* one-time Kyber keys by a request of their own.
Published == [NoKeys EXCEPT !["ec"] = 1..Target]

Init ==
    /\ bound \in Bounds
    /\ reg = [d \in Devices |-> IF d \in bound.linked THEN 1 ELSE 0]
    /\ made = 0
    /\ pool = [d \in Devices |->
                  IF d \in bound.linked THEN [k \in Kinds |-> 1..Target] ELSE NoKeys]
    /\ own = pool
    /\ queue = [d \in Devices |-> <<>>] /\ reqs = {}
    /\ up = [d \in Devices |-> d \in bound.linked]
    /\ nextKey = [d \in Devices |-> [k \in Kinds |-> Target + 1]]
    /\ known = [d \in Devices |-> {}] /\ opened = known /\ unopened = known
    /\ refill = [d \in Devices |-> NoRefill]
    /\ session = [s \in Senders |-> [d \in Devices |-> NoSession]]
    /\ job = [s \in Senders |-> NoJob]
    /\ sends = 0 /\ outcome = [t \in Texts |-> "none"]
    /\ sentTo = [t \in Texts |-> {}] /\ retried = {}
    /\ start = [t \in Texts |-> [made |-> 0, stale |-> {}]]
    /\ accepted = {} /\ given = {} /\ faults = 0

----------------------------------------------------------------------------
(* The sender: app-core messaging.rs *)

Ends(s, what) == /\ job' = [job EXCEPT ![s] = NoJob]
                 /\ outcome' = [outcome EXCEPT ![job[s].text] = what]

Stale(s) == {d \in Registered : session[s][d].reg \notin {0, reg[d]}}

\* send_dm: the recipient's devices as the server lists them now.
SendDm(s) ==
    /\ s \in bound.from /\ sends < bound.sends
    /\ job[s].phase = "idle" /\ Registered # {}
    /\ sends' = sends + 1
    /\ sentTo' = [sentTo EXCEPT ![sends + 1] = Registered]
    /\ job' = [job EXCEPT ![s] = [NoJob EXCEPT !.phase = "encrypt",
                  !.text = sends + 1, !.left = InOrder(Registered)]]
    /\ start' = [start EXCEPT ![sends + 1] =
                    [made |-> made, stale |-> Stale(s)]]
    /\ UNCHANGED <<reg, made, pool, queue, reqs, device, refill, session, outcome,
                   retried, log, faults>>

\* build_envelopes takes the devices in turn; ensure_session keeps a session
\* it has, unless it is forced to make a new one.
Encrypts(s) == job[s].phase = "encrypt" /\ job[s].left # <<>>
Forced_Not(s, d) == FALSE   \* mutant: the retry keeps the stale session
Forced(s, d) == d \in job[s].force
Envelope(s, d, with) ==
    [text |-> job[s].text, from |-> s, to |-> d, again |-> job[s].again,
     sess |-> with]
Encrypted(s, d, with) ==
    [job[s] EXCEPT !.phase = "encrypt", !.left = Tail(@), !.got = NoSession,
                   !.envs = Append(@, Envelope(s, d, with))]

UseSession(s) ==
    /\ Encrypts(s)
    /\ LET d == Head(job[s].left)
       IN  /\ session[s][d] # NoSession /\ ~Forced(s, d)
           /\ job' = [job EXCEPT ![s] = Encrypted(s, d, session[s][d])]
    /\ UNCHANGED <<reg, made, pool, queue, reqs, device, refill, session, sends,
                   outcome, sentTo, retried, start, log, faults>>

\* fetch_bundle: the device row; the lowest one-time key is picked and then
\* deleted, and when another request deletes it first the statement returns
\* nothing, however many keys are left; last a Kyber key, one-time or of last
\* resort, whose identity nothing below depends on.
PoolOf(s, r, k) == LET d == Head(job[s].left)
                   IN  IF reg[d] = r THEN pool[d][k] ELSE {}
PickKey(s) ==
    /\ Encrypts(s)
    /\ LET d  == Head(job[s].left)
           ks == PoolOf(s, reg[d], "ec")
       IN  /\ session[s][d] = NoSession \/ Forced(s, d)
           /\ job' = [job EXCEPT ![s].phase = "bundle",
                         ![s].got = [reg |-> reg[d], n |-> session[s][d].n + 1,
                                     ec |-> IF ks = {} THEN 0 ELSE Min(ks)]]
    /\ UNCHANGED <<reg, made, pool, queue, reqs, device, refill, session, sends,
                   outcome, sentTo, retried, start, log, faults>>

\* DELETE ... RETURNING
Returned_Picked(s) == job[s].got.ec   \* mutant: what was picked, deleted or not
Returned(s) == LET id == job[s].got.ec
               IN  IF id \in PoolOf(s, job[s].got.reg, "ec") THEN id ELSE 0

TakeKey(s) ==
    /\ job[s].phase = "bundle"
    /\ LET d  == Head(job[s].left)
           g  == [job[s].got EXCEPT !.ec = Returned(s)]
       IN  /\ pool' = IF reg[d] = g.reg THEN [pool EXCEPT ![d]["ec"] = @ \ {g.ec}]
                                        ELSE pool
           /\ given' = IF g.ec # 0 THEN given \cup {<<d, g.reg, g.ec, s, g.n>>}
                                   ELSE given
           /\ job' = [job EXCEPT ![s].phase = "kyber", ![s].got = g]
    /\ UNCHANGED <<reg, made, queue, reqs, device, refill, session, sends, outcome,
                   sentTo, retried, start, accepted, faults, bound>>

InitiateSession(s) ==
    /\ job[s].phase = "kyber"
    /\ LET d  == Head(job[s].left)
           g  == job[s].got
           ks == PoolOf(s, g.reg, "kyber")
       IN  IF reg[d] = g.reg
           THEN /\ pool' = [pool EXCEPT ![d]["kyber"] =
                                IF ks = {} THEN {} ELSE @ \ {Min(ks)}]
                /\ session' = [session EXCEPT ![s][d] = g]
                /\ job' = [job EXCEPT ![s] = Encrypted(s, d, g)]
                /\ UNCHANGED outcome
           ELSE Ends(s, "failed") /\ UNCHANGED <<pool, session>>
    /\ UNCHANGED <<reg, made, queue, reqs, device, refill, sends, sentTo, retried,
                   start, log, faults>>

\* dispatch_to_devices: the socket if there is one, else HTTP.
Transmits(s, via) ==
    reqs' = reqs \cup {[from |-> s, via |-> via, rows |-> job[s].envs,
                        state |-> "runs", awaited |-> TRUE]}
SendOverSocket(s) ==
    /\ job[s].phase = "encrypt" /\ job[s].left = <<>> /\ ~job[s].again
    /\ Transmits(s, "ws")
    /\ job' = [job EXCEPT ![s].phase = "ws"]
    /\ UNCHANGED <<reg, made, pool, queue, device, refill, session, sends, outcome,
                   sentTo, retried, start, log, faults>>
SendOverHttp(s) ==
    /\ \/ job[s].phase = "encrypt" /\ job[s].left = <<>>
       \/ job[s].phase = "fallback"
    /\ Transmits(s, "http")
    /\ job' = [job EXCEPT ![s].phase = "http"]
    /\ UNCHANGED <<reg, made, pool, queue, device, refill, session, sends, outcome,
                   sentTo, retried, start, log, faults>>

\* The socket's reply has no stale-device form: any failure falls back, with
\* the envelopes that were sent.
FallsBack_Anew(s) ==   \* mutant: the batch is encrypted again
    job' = [job EXCEPT ![s].phase = "encrypt", ![s].again = TRUE,
                       ![s].envs = <<>>, ![s].left = InOrder(sentTo[job[s].text])]
FallsBack(s) == job' = [job EXCEPT ![s].phase = "fallback"]

\* One retry, of the whole batch: a new session for the device named stale.
Batch_Stale(s, d) == <<d>>   \* mutant: only the device named stale
Batch(s, d) == InOrder(sentTo[job[s].text])
Retries(s, d) ==
    /\ job' = [job EXCEPT ![s].phase = "encrypt", ![s].again = TRUE,
                  ![s].envs = <<>>, ![s].force = {d}, ![s].left = Batch(s, d)]
    /\ retried' = retried \cup {job[s].text}

Awaited(s, q) == q \in reqs /\ q.from = s /\ q.awaited /\ q.state # "runs"
ReplyOk(s) ==
    /\ \E q \in reqs : Awaited(s, q) /\ q.state = "ok" /\ reqs' = reqs \ {q}
    /\ Ends(s, "sent")
    /\ UNCHANGED <<reg, made, pool, queue, device, refill, session, sends, sentTo,
                   retried, start, log, faults>>
ReplyStale(s) ==
    /\ \E q \in reqs :
          /\ Awaited(s, q) /\ q.state = "stale" /\ reqs' = reqs \ {q}
          /\ \/ q.via = "ws" /\ FallsBack(s) /\ UNCHANGED <<outcome, retried>>
             \/ /\ q.via = "http" /\ ~job[s].again
                /\ Retries(s, Head(q.rows).to) /\ UNCHANGED outcome
             \/ /\ q.via = "http" /\ job[s].again
                /\ Ends(s, "failed") /\ UNCHANGED retried
    /\ UNCHANGED <<reg, made, pool, queue, device, refill, session, sends, sentTo,
                   start, log, faults>>

\* The reply is lost or late: the server works on, and nobody waits for it.
LoseReply(s) ==
    /\ Fault
    /\ \E q \in reqs :
          /\ q.from = s /\ q.awaited
          /\ reqs' = (reqs \ {q}) \cup {[q EXCEPT !.awaited = FALSE]}
          /\ \/ q.via = "ws" /\ FallsBack(s) /\ UNCHANGED outcome
             \/ q.via = "http" /\ Ends(s, "failed")
    /\ UNCHANGED <<reg, made, pool, queue, device, refill, session, sends, sentTo,
                   retried, start, log>>

----------------------------------------------------------------------------
(* The server: routes/messages.rs, send_messages *)

\* One row: the device is looked up, its registration compared, and the row
\* inserted; what follows a stale device is not reached.
Current_Any(c) == TRUE   \* mutant: the registration is not compared
Current(c) == c.sess.reg = reg[c.to]

\* The server's answer, if anybody still waits for it.
Becomes(q, p) == reqs' = (reqs \ {q}) \cup {p}
Answered(q, how) == IF q.awaited THEN Becomes(q, [q EXCEPT !.state = how])
                                 ELSE reqs' = reqs \ {q}
EnqueueRow(q) ==
    /\ q.state = "runs" /\ Current(Head(q.rows))
    /\ LET c == Head(q.rows)
       IN  /\ queue' = [queue EXCEPT ![c.to] = Append(@, c)]
           /\ accepted' = accepted \cup {<<c.text, c.to, reg[c.to]>>}
    /\ IF Len(q.rows) = 1 THEN Answered(q, "ok")
                          ELSE Becomes(q, [q EXCEPT !.rows = Tail(@)])
    /\ UNCHANGED <<reg, made, pool, device, refill, sender, given, faults, bound>>
RowStale(q) ==
    /\ q.state = "runs" /\ ~Current(Head(q.rows))
    /\ Answered(q, "stale")
    /\ UNCHANGED <<reg, made, pool, queue, device, refill, sender, log, faults>>
\* A request nobody waits for may be dropped with its connection.
Forget(q) ==
    /\ ~q.awaited /\ reqs' = reqs \ {q}
    /\ UNCHANGED <<reg, made, pool, queue, device, refill, sender, log, faults>>

----------------------------------------------------------------------------
(* The recipient's devices *)

\* A device is linked, or recovery replaces one: the server has the new
\* registration and its published keys, and nothing of the old one.  The store
\* is written only after the reply.
Register(d) ==
    /\ made < bound.regs /\ made' = made + 1
    /\ reg' = [reg EXCEPT ![d] = @ + 1]
    /\ pool' = [pool EXCEPT ![d] = Published]
    /\ queue' = [queue EXCEPT ![d] = <<>>]
    /\ up' = [up EXCEPT ![d] = FALSE]
    /\ own' = [own EXCEPT ![d] = NoKeys]
    /\ nextKey' = [nextKey EXCEPT ![d] = [k \in Kinds |-> 1]]
    /\ known' = [known EXCEPT ![d] = {}]
    /\ opened' = [opened EXCEPT ![d] = {}]
    /\ unopened' = [unopened EXCEPT ![d] = {}]
    /\ refill' = [refill EXCEPT ![d] = NoRefill]
    /\ UNCHANGED <<reqs, sender, log, faults>>

\* recover_from_blob goes on: the private halves are saved, the allocators
\* seeded, and the one-time Kyber keys are about to be uploaded.
SaveStore(d) ==
    /\ reg[d] # 0 /\ ~up[d]
    /\ up' = [up EXCEPT ![d] = TRUE]
    /\ own' = [own EXCEPT ![d] = [k \in Kinds |-> 1..Target]]
    /\ nextKey' = [nextKey EXCEPT ![d] = [k \in Kinds |-> Target + 1]]
    /\ refill' = [refill EXCEPT ![d] = [NoRefill EXCEPT
                     !.phase = "upload", !.kind = "kyber", !.keys = 1..Target]]
    /\ UNCHANGED <<reg, made, pool, queue, reqs, known, opened, unopened, sender,
                   log, faults>>

LowPool_Ec(d) == Cardinality(pool[d]["ec"]) < Low   \* mutant: one pool only
LowPool(d) == \E k \in Kinds : Cardinality(pool[d][k]) < Low

\* try_replenish, on connecting and when the server's task has told the device
\* that a pool is low (it looks once a minute): the counts of both, read once.
Need(d, k) == LET n == Cardinality(pool[d][k])
              IN  IF n < Low THEN Target - n ELSE 0
CheckStatus(d) ==
    /\ up[d] /\ refill[d].phase = "idle" /\ LowPool(d)
    /\ refill' = [refill EXCEPT ![d] =
          [NoRefill EXCEPT !.phase = "make",
                           !.need = [k \in Kinds |-> Need(d, k)]]]
    /\ UNCHANGED <<reg, made, pool, queue, reqs, device, sender, log, faults>>

\* allocate_prekey_ids and save_one_time_prekeys, save_kyber_prekeys: the ids
\* are never used again and the private halves are stored before the upload.
FirstNeeded(d) == CHOOSE k \in Kinds : /\ refill[d].need[k] > 0
                                       /\ k = "ec" \/ refill[d].need["ec"] = 0
Saved_Not(d, k, ids) == own   \* mutant: stored when the upload has succeeded
Saved(d, k, ids) == [own EXCEPT ![d][k] = @ \cup ids]
MakeKeys(d) ==
    /\ refill[d].phase = "make"
    /\ LET k   == FirstNeeded(d)
           n   == refill[d].need[k]
           ids == nextKey[d][k]..(nextKey[d][k] + n - 1)
       IN  /\ own' = Saved(d, k, ids)
           /\ nextKey' = [nextKey EXCEPT ![d][k] = @ + n]
           /\ refill' = [refill EXCEPT ![d] = [@ EXCEPT !.phase = "upload",
                             !.kind = k, !.keys = ids, !.need[k] = 0]]
    /\ UNCHANGED <<reg, made, pool, queue, reqs, up, known, opened, unopened, sender,
                   log, faults>>

\* PUT /v1/prekeys, then the other pool if it is low too.
Then(d) == IF \E k \in Kinds : refill[d].need[k] > 0
           THEN [refill[d] EXCEPT !.phase = "make", !.keys = {}] ELSE NoRefill
UploadKeys(d) ==
    /\ refill[d].phase = "upload"
    /\ pool' = [pool EXCEPT ![d][refill[d].kind] = @ \cup refill[d].keys]
    /\ refill' = [refill EXCEPT ![d] = Then(d)]
    /\ UNCHANGED <<reg, made, queue, reqs, device, sender, log, faults>>
RefillFails(d) ==
    /\ refill[d].phase # "idle" /\ Fault
    /\ refill' = [refill EXCEPT ![d] = NoRefill]
    /\ UNCHANGED <<reg, made, pool, queue, reqs, device, sender, log>>

\* session::decrypt: a ciphertext opens once; the first one of a session
\* needs the one-time key the session was made with, and uses it up.  The row
\* is acked in any case.
SessionOf(c) == [from |-> c.from, sess |-> c.sess]
Openable(d, c) == \/ SessionOf(c) \in known[d]
                  \/ /\ c.sess.reg = reg[d]   \* the keys are this store's
                     /\ c.sess.ec \in own[d]["ec"] \cup {0}
NextRow(d) == up[d] /\ queue[d] # <<>> /\ queue' = [queue EXCEPT ![d] = Tail(@)]
OpenRow(d) ==
    /\ NextRow(d)
    /\ LET c == Head(queue[d])
       IN  /\ c \notin opened[d]
           /\ IF Openable(d, c)
              THEN /\ opened' = [opened EXCEPT ![d] = @ \cup {c}]
                   /\ known' = [known EXCEPT ![d] = @ \cup {SessionOf(c)}]
                   /\ own' = [own EXCEPT ![d]["ec"] = @ \ {c.sess.ec}]
                   /\ UNCHANGED unopened
              ELSE /\ unopened' = [unopened EXCEPT ![d] = @ \cup {c}]
                   /\ UNCHANGED <<opened, known, own>>
    /\ UNCHANGED <<reg, made, pool, reqs, up, nextKey, refill, sender, log, faults>>
SkipDuplicate(d) ==
    /\ NextRow(d) /\ Head(queue[d]) \in opened[d]
    /\ UNCHANGED <<reg, made, pool, reqs, device, refill, sender, log, faults>>

----------------------------------------------------------------------------
(* The specification *)

SenderStep(s) ==
    \/ UseSession(s) \/ PickKey(s) \/ TakeKey(s) \/ InitiateSession(s)
    \/ SendOverSocket(s) \/ SendOverHttp(s) \/ ReplyOk(s) \/ ReplyStale(s)
ServerStep(q) == EnqueueRow(q) \/ RowStale(q)
Replenish(d) ==
    CheckStatus(d) \/ MakeKeys(d) \/ UploadKeys(d)
Receive(d) == OpenRow(d) \/ SkipDuplicate(d)

Next ==
    \/ \E s \in Senders : SendDm(s) \/ SenderStep(s) \/ LoseReply(s)
    \/ \E q \in reqs : ServerStep(q) \/ Forget(q)
    \/ \E d \in Devices :
          \/ Register(d) \/ SaveStore(d) \/ RefillFails(d)
          \/ Replenish(d) \/ Receive(d)

Spec == Init /\ [][Next]_vars

\* The server looks at the pools once a minute, recovery and the requests of a
\* refill go on to their end; nothing is assumed of senders.
Fairness == \A d \in Devices :
    WF_vars(SaveStore(d)) /\ WF_vars(Replenish(d))
FairSpec == Spec /\ Fairness

----------------------------------------------------------------------------
(* Correctness *)

Sessions == [reg : Nat, n : Nat, ec : Nat]
Envelopes == [text : Texts, from : Senders, to : Devices, again : BOOLEAN,
              sess : Sessions]

Kept == [Kinds -> SUBSET Nat]
Refills == [phase : {"idle", "make", "upload"}, need : [Kinds -> Nat], kind : Kinds,
            keys : SUBSET Nat]
Jobs == [phase : {"idle", "encrypt", "bundle", "kyber", "ws", "fallback", "http"},
         text : 0..MaxSends, left : Seq(Devices), force : SUBSET Devices,
         again : BOOLEAN, envs : Seq(Envelopes), got : Sessions]
Requests == [from : Senders, via : {"ws", "http"}, rows : Seq(Envelopes),
             state : {"runs", "ok", "stale"}, awaited : BOOLEAN]

\* The types of the state: registrations, key pools, envelopes in every place
\* they can be, and the parts of a running send or refill.
TypeOK ==
    /\ reg \in [Devices -> Nat] /\ made \in Nat /\ up \in [Devices -> BOOLEAN]
    /\ pool \in [Devices -> Kept] /\ own \in [Devices -> Kept]
    /\ nextKey \in [Devices -> [Kinds -> Nat]]
    /\ queue \in [Devices -> Seq(Envelopes)]
    /\ opened \in [Devices -> SUBSET Envelopes] /\ unopened \in [Devices -> SUBSET Envelopes]
    /\ known \in [Devices -> SUBSET [from : Senders, sess : Sessions]]
    /\ refill \in [Devices -> Refills]
    /\ reqs \subseteq Requests
    /\ session \in [Senders -> [Devices -> Sessions]] /\ job \in [Senders -> Jobs]
    /\ sends \in 0..MaxSends /\ outcome \in [Texts -> {"none", "sent", "failed"}]
    /\ sentTo \in [Texts -> SUBSET Devices] /\ retried \subseteq Texts
    /\ start \in [Texts -> [made : Nat, stale : SUBSET Devices]]
    /\ accepted \subseteq Texts \X Devices \X Nat
    /\ given \subseteq Devices \X Nat \X Nat \X Senders \X Nat
    /\ bound \in Bounds /\ faults \in 0..bound.faults

\* A one-time key goes to one session only, however many bundle requests are
\* between their statements (fetch_bundle; the comment at the head of
\* db/prekeys.rs).
KeysGoOnce ==
    \A x, y \in given : (\A i \in 1..3 : x[i] = y[i]) => x = y

\* What the server offers under a running device's registration, that device
\* can use: the private half is stored and unused (prekeys.rs saves before it
\* uploads, replace_device drops the old pools).
OfferedAreHeld ==
    \A d \in Devices, k \in Kinds : up[d] => pool[d][k] \subseteq own[d][k]

\* No queued row finds its device without the key to open it, with recovery
\* under an old number, forced new sessions and concurrent first contacts.
EveryRowOpens == \A d \in Devices : unopened[d] = {}

\* A send reported as done has reached every device the server had listed:
\* the message is shown there or queued, or the device was replaced since.  And
\* a device replaced by recovery costs the sender no message: when nothing
\* fails and nothing is registered during the send, only two stale sessions
\* at once make it fail (dispatch_to_devices retries once, for the one device
\* the reply names).
SentArrives ==
    \A t \in Texts :
        /\ outcome[t] = "sent" =>
              \A d \in sentTo[t] : \E r \in 1..reg[d] :
                  /\ <<t, d, r>> \in accepted
                  /\ r = reg[d] =>
                        \E c \in opened[d] \cup ToSet(queue[d]) : c.text = t
        /\ outcome[t] = "failed" /\ faults = 0 =>
              made > start[t].made \/ Cardinality(start[t].stale) > 1

\* A device shows a message twice only if the whole batch was encrypted again
\* after a stale-device reply, and never three times: the repetition over HTTP
\* sends the same ciphertexts, which the ratchet recognises.
RepeatsExplained ==
    \A d \in Devices, t \in Texts :
        Cardinality({c \in opened[d] : c.text = t})
            <= (IF t \in retried THEN 2 ELSE 1)

\* Pools come back above the threshold after any drain, missed notification or
\* failed refill, once new sessions cease.
PoolsRefilled ==
    <>[](\A d \in Registered, k \in Kinds : Cardinality(pool[d][k]) >= Low)

\* One-time keys serve their purpose: each goes to one session, is held by the
\* device that offers it, and opens the row that was encrypted with it.
KeysServe == KeysGoOnce /\ OfferedAreHeld /\ EveryRowOpens

\* What the sender is told is so, and no device shows a message more often than
\* a retry explains.
SendsHold == SentArrives /\ RepeatsExplained
=============================================================================
