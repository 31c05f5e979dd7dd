------------------------------ MODULE Accounts ------------------------------
(***************************************************************************)
(* How an identity comes to be on a server, gains and loses devices, and    *)
(* leaves: the PLC directory, the server's rows, and the installs of the    *)
(* app.                                                                    *)
(*                                                                         *)
(*   - signup: two operations in the directory, then one request that the   *)
(*     server carries out as a row of statements, each committed alone;     *)
(*   - authentication by challenge, with the number of a device;            *)
(*   - recovery, which replaces a device under its number;                  *)
(*   - linking, by a bundle left in a mailbox with a lifetime;              *)
(*   - leaving a server and deleting the identity.                          *)
(*                                                                         *)
(* An install runs one operation at a time and the server one request of it *)
(* (job).  A request whose caller has gone may be dropped between any two   *)
(* statements, or run to its end with nobody to hear the answer.            *)
(***************************************************************************)
EXTENDS ProjectLogin, FiniteSetsExt

CONSTANTS
    Installs,   \* the installs of the app, each with a store of its own
    Of,         \* whose each is
    Bots,       \* identities without an entry in the directory
    Limits      \* what each behaviour may do, see Init

ASSUME InstallsAssumption == Of \in [Installs -> People] /\ Bots \subseteq People
\* The installs in settled have signed up before, one per person.
ASSUME LimitsAssumption ==
    \A b \in Limits : LET s == b.settled IN
        s \in Seq(Installs) /\ \A j, k \in DOMAIN s : Of[s[j]] = Of[s[k]] => j = k

VARIABLES
    bound,       \* what this behaviour has left to do
    plc,         \* the directory's log of each identity: its length and key
    blob,        \* the identity key in the recovery blob, 0 without one
    rows,        \* devices, in order of their primary keys
    challenges,  \* auth_challenges: a row's key and who asked
    sessions,    \* session_tokens: a row's key and who holds the token
    admission,   \* invites spent, the superuser's claimants, the gatekeeper
    attached,    \* accounts with attachments that have not expired
    store,       \* what an install has saved
    at,          \* where the process of an install stands
    job,         \* the request the server carries out for an install
    pairing,     \* the provisioning session
    past         \* bookkeeping for properties

serverVars == <<accounts, blob, rows, challenges, sessions, admission>>
otherLogin == <<grants, tokens, call, login>>
otherAccount == <<plc, blob, rows, challenges, sessions, admission, attached, store, at,
                  job, pairing, past>>
vars == <<bound, loginVars, otherAccount>>

NoStore == [key |-> 0, num |-> 0, reg |-> 0, priv |-> 0]
NoJob == [step |-> "none"]
NoPairing == [stage |-> "none"]
Off == [pc |-> "off", op |-> "none", key |-> 0, num |-> 0, reg |-> 0, nonce |-> <<>>,
        token |-> 0, cred |-> "none"]

\* The place of an install, or of a person's, among those that have signed up.
Order(i) == IF i \in ToSet(bound.settled) THEN SelectInSeq(bound.settled, LAMBDA k : k = i) ELSE 0
OrderOf(x) == Max({0} \cup {Order(i) : i \in {j \in Installs : Of[j] = x}})

Init ==
    /\ bound \in Limits
    /\ plc = [x \in People |-> IF x \in Bots THEN [len |-> 0, key |-> 0]
                              ELSE [len |-> IF OrderOf(x) = 0 THEN 0 ELSE 2, key |-> OrderOf(x)]]
    /\ accounts = {x \in People : OrderOf(x) # 0}
    /\ blob = [x \in People |-> IF x \in Bots THEN 0 ELSE OrderOf(x)]
    /\ rows = [k \in DOMAIN bound.settled |->
                 [of |-> Of[bound.settled[k]], by |-> bound.settled[k], num |-> 1, reg |-> k,
                  key |-> k, keys |-> TRUE, live |-> TRUE]]
    /\ challenges = {} /\ sessions = {}
    /\ admission = [spent |-> {}, claimed |-> {}, gatekeeper |-> bound.gatekeeper]
    /\ attached = {}
    /\ store = [i \in Installs |-> IF Order(i) = 0 THEN NoStore
                    ELSE [key |-> Order(i), num |-> 1, reg |-> Order(i), priv |-> Order(i)]]
    /\ at = [i \in Installs |-> Off]
    /\ job = [i \in Installs |-> NoJob]
    /\ pairing = NoPairing
    /\ past = [attempts |-> Len(bound.settled), stuck |-> {}, torn |-> {}, replaced |-> {},
               by |-> {}, left |-> {}, undeleted |-> {}, mishap |-> FALSE]
    /\ LoginInit

----------------------------------------------------------------------------
(* Rows *)

Live(pk) == pk \in DOMAIN rows /\ rows[pk].live
RowsOf(x) == {pk \in DOMAIN rows : rows[pk].live /\ rows[pk].of = x}
\* find, find_by_did
Find(x, num) == {pk \in RowsOf(x) : rows[pk].num = num}
Nums(x) == {rows[pk].num : pk \in RowsOf(x)}
Go(i, pc) == [at EXCEPT ![i].pc = pc]
Home(i) == [at EXCEPT ![i] = [Off EXCEPT !.pc = "new"]]
Valid(i) == at[i].pc = "in" /\ <<at[i].token, i>> \in sessions
May(what) == bound[what] > 0
Uses(what) == May(what) /\ bound' = [bound EXCEPT ![what] = @ - 1]
Mishap == [past EXCEPT !.mishap = TRUE]
Stuck(xs) == [past EXCEPT !.stuck = @ \cup xs, !.mishap = TRUE]

----------------------------------------------------------------------------
(* The process of an install *)

\* login_inner: an account is what has identity, DID and device.
Start(i) ==
    /\ i \in bound.who /\ at[i].pc = "off" /\ job[i] = NoJob
    /\ at' = [at EXCEPT ![i].pc = IF store[i].num # 0 THEN "in" ELSE "new"]
    /\ UNCHANGED <<serverVars, otherLogin, bound, plc, attached, store, job, pairing, past>>

\* create_account, finalize_account: every call prepares a new identity key;
\* a bot needs no directory (create_bot_account, login_or_create_bot).
Prepare(i, cred) ==
    LET n == past.attempts + 1 IN
    /\ at[i].pc = "new" /\ cred \in bound.creds /\ Uses("signups")
    /\ past' = [past EXCEPT !.attempts = n]
    /\ at' = [at EXCEPT ![i] = [Off EXCEPT !.op = "register", !.key = n, !.num = 1,
                  !.reg = n, !.cred = cred,
                  !.pc = IF Of[i] \in Bots THEN "register" ELSE "genesis"]]
    /\ UNCHANGED <<serverVars, otherLogin, plc, attached, store, job, pairing>>

\* The genesis is the same for every attempt with one passkey.
SubmitGenesis(i) ==
    /\ at[i].pc = "genesis"
    /\ plc' = [plc EXCEPT ![Of[i]].len = Max({@, 1})]
    /\ at' = Go(i, "update")
    /\ UNCHANGED <<serverVars, otherLogin, bound, attached, store, job, pairing, past>>

\* ensure_op_submitted for the operation that carries the identity key.
SubmitUpdate(i, answered) ==
    LET x == Of[i]
        free == plc[x].len = 1
    IN
    /\ at[i].pc = "update"
    /\ plc' = IF free THEN [plc EXCEPT ![x] = [len |-> 2, key |-> at[i].key]] ELSE plc
    /\ at' = IF free /\ answered THEN Go(i, "register") ELSE Home(i)
    /\ IF answered THEN UNCHANGED <<bound, past>>
       ELSE free /\ Uses("faults") /\ past' = Stuck({x})
    /\ UNCHANGED <<serverVars, otherLogin, attached, store, job, pairing>>

Request(i, step) ==
    /\ job[i] = NoJob
    /\ job' = [job EXCEPT ![i] = [step |-> step, pk |-> 0, sent |-> at[i]]]
    /\ at' = Go(i, "wait")
    /\ UNCHANGED <<serverVars, otherLogin, bound, plc, attached, store, pairing, past>>

Register(i) == at[i].pc = "register" /\ Request(i, "admit")
RequestReplace(i) == at[i].pc = "replace" /\ Request(i, "consume")
RequestLink(i) == at[i].pc = "link" /\ Request(i, "consume")

----------------------------------------------------------------------------
(* What the server does for a request, statement by statement *)

Waits(i) == at[i].pc = "wait"
Then(i, s) == job' = [job EXCEPT ![i].step = s] /\ UNCHANGED <<at, past>>
OnlyServer == UNCHANGED <<bound, plc, attached, store, pairing, otherLogin>>

\* An identity nobody can register again, recover or log in to: its key is in
\* the directory, or its account on the server, and it has no device.
Stranded(i) ==
    LET x == Of[i] IN
    IF job[i].sent.op # "link" /\ RowsOf(x) = {} /\ (x \in Bots => x \in accounts)
    THEN {x} ELSE {}

\* After a request to link fails the handshake is kept and tried again.
Refuse(i) ==
    /\ job' = [job EXCEPT ![i] = NoJob]
    /\ at' = IF ~Waits(i) THEN at ELSE IF at[i].op = "link" THEN Go(i, "pair") ELSE Home(i)
    /\ past' = IF Stranded(i) = {} THEN past ELSE Stuck(Stranded(i))

Invites == {"invite"}
\* try_redeem
Redeemable_Always(cred) == TRUE
Redeemable(cred) == cred \notin admission.spent

\* gate_registration: a token that is presented must be good even where
\* registration is open, except for the shared secret.
GateRegistration(cred) ==
    CASE cred \in Invites -> admission.gatekeeper /\ Redeemable(cred)
      [] cred = "shared" -> ~admission.gatekeeper \/ ~bound.closed
      [] cred = "claim" -> admission.claimed = {}
      [] cred = "none" -> ~bound.closed

\* verify_did_plc: the identity key must be the one in the directory.
VerifyDid(i) == Of[i] \in Bots \/ plc[Of[i]] = [len |-> 2, key |-> job[i].sent.key]

\* register, as far as the gate: an invite is spent whatever comes after.
Admit(i) ==
    LET cred == job[i].sent.cred IN
    /\ job[i].step = "admit"
    /\ IF VerifyDid(i) /\ GateRegistration(cred)
       THEN /\ admission' = [admission EXCEPT !.spent = @ \cup (Invites \cap {cred})]
            /\ job' = [job EXCEPT ![i].step = "account"]
            /\ past' = [past EXCEPT !.by = @ \cup {<<Of[i], cred>>}]
            /\ UNCHANGED at
       ELSE Refuse(i) /\ UNCHANGED admission
    /\ OnlyServer /\ UNCHANGED <<accounts, blob, rows, challenges, sessions>>

\* accounts::create, under UNIQUE (did).
CreateAccount(i) ==
    /\ job[i].step = "account"
    /\ IF Of[i] \in accounts THEN Refuse(i) /\ UNCHANGED accounts
       ELSE /\ accounts' = accounts \cup {Of[i]}
            /\ Then(i, IF job[i].sent.cred = "claim" THEN "claim" ELSE "blob")
    /\ OnlyServer /\ UNCHANGED <<blob, rows, challenges, sessions, admission>>

\* link_bot_if_unclaimed: the second look, when the account is already there.
Unclaimed_Any == TRUE
Unclaimed == admission.claimed = {}
ClaimSuperuser(i) ==
    /\ job[i].step = "claim"
    /\ IF ~Unclaimed THEN Refuse(i) /\ UNCHANGED admission
       ELSE admission' = [admission EXCEPT !.claimed = @ \cup {Of[i]}] /\ Then(i, "blob")
    /\ OnlyServer /\ UNCHANGED <<accounts, blob, rows, challenges, sessions>>

\* update_recovery_blob, and the profile with it.
Escrow_Dropped(i) == blob
Escrow(i) == IF Of[i] \in Bots THEN blob ELSE [blob EXCEPT ![Of[i]] = job[i].sent.key]
StoreBlob(i) ==
    /\ job[i].step = "blob"
    /\ IF Of[i] \notin accounts THEN Refuse(i) /\ UNCHANGED blob
       ELSE blob' = Escrow(i) /\ Then(i, "row")
    /\ OnlyServer /\ UNCHANGED <<accounts, rows, challenges, sessions, admission>>

\* challenges::consume: a nonce is deleted by being found, and must be for the
\* device to be replaced or, to link, for any device of the account.
ConsumeNonce(i) ==
    LET sent == job[i].sent
        target == Find(Of[i], sent.num)
        links == sent.op = "link"
    IN
    /\ job[i].step = "consume"
    /\ IF Of[i] \notin accounts \/ (~links /\ target = {}) \/ sent.nonce \notin challenges
       THEN Refuse(i) /\ UNCHANGED challenges
       ELSE /\ challenges' = challenges \ {sent.nonce}
            /\ IF links THEN Then(i, "row")
               ELSE IF sent.nonce[1] \in target
               THEN /\ job' = [job EXCEPT ![i].step = "purge", ![i].pk = sent.nonce[1]]
                    /\ UNCHANGED <<at, past>>
               ELSE Refuse(i)
    /\ OnlyServer /\ UNCHANGED <<accounts, blob, rows, sessions, admission>>

\* devices::delete: tokens, challenges, prekeys, queue ...
PurgeDevice(i) ==
    LET pk == job[i].pk IN
    /\ job[i].step = "purge"
    /\ sessions' = {s \in sessions : s[1] # pk}
    /\ challenges' = {c \in challenges : c[1] # pk}
    /\ rows' = [rows EXCEPT ![pk].keys = FALSE]
    /\ Then(i, "drop")
    /\ OnlyServer /\ UNCHANGED <<accounts, blob, admission>>

\* ... and the row itself, which a token or a challenge made since holds fast.
DropDevice(i) ==
    LET pk == job[i].pk IN
    /\ job[i].step = "drop"
    /\ IF \E t \in challenges \cup sessions : t[1] = pk THEN Refuse(i) /\ UNCHANGED rows
       ELSE /\ rows' = [rows EXCEPT ![pk].live = FALSE]
            /\ job' = [job EXCEPT ![i].step = "row"]
            /\ past' = [Mishap EXCEPT !.replaced = @ \cup {rows[pk].by}]
            /\ UNCHANGED at
    /\ OnlyServer /\ UNCHANGED <<accounts, blob, challenges, sessions, admission>>

\* devices::create, under UNIQUE (account_id, device_id).
Taken_Never(x, num) == FALSE
Taken(x, num) == Find(x, num) # {}
CreateDevice(i) ==
    LET sent == job[i].sent IN
    /\ job[i].step = "row"
    /\ IF Of[i] \notin accounts \/ Taken(Of[i], sent.num) THEN Refuse(i) /\ UNCHANGED rows
       ELSE /\ rows' = Append(rows, [of |-> Of[i], by |-> i, num |-> sent.num, reg |-> sent.reg,
                                     key |-> sent.key, keys |-> FALSE, live |-> TRUE])
            /\ job' = [job EXCEPT ![i].step = "keys", ![i].pk = Len(rows) + 1]
            /\ UNCHANGED <<at, past>>
    /\ OnlyServer /\ UNCHANGED <<accounts, blob, challenges, sessions, admission>>

StorePrekeys(i) ==
    LET pk == job[i].pk IN
    /\ job[i].step = "keys"
    /\ IF ~Live(pk) THEN Refuse(i) /\ UNCHANGED rows
       ELSE rows' = [rows EXCEPT ![pk].keys = TRUE] /\ Then(i, "session")
    /\ OnlyServer /\ UNCHANGED <<accounts, blob, challenges, sessions, admission>>

\* sessions::create, and the answer, if the client still waits for it.
IssueSession(i) ==
    LET pk == job[i].pk IN
    /\ job[i].step = "session"
    /\ IF ~Live(pk) THEN Refuse(i) /\ UNCHANGED sessions
       ELSE /\ sessions' = sessions \cup {<<pk, i>>}
            /\ job' = [job EXCEPT ![i] = NoJob]
            /\ at' = IF Waits(i) THEN [at EXCEPT ![i].pc = "identity", ![i].token = pk] ELSE at
            /\ UNCHANGED past
    /\ OnlyServer /\ UNCHANGED <<accounts, blob, rows, challenges, admission>>

Serve(i) ==
    \/ Admit(i) \/ CreateAccount(i) \/ ClaimSuperuser(i) \/ StoreBlob(i)
    \/ ConsumeNonce(i) \/ PurgeDevice(i) \/ DropDevice(i)
    \/ CreateDevice(i) \/ StorePrekeys(i) \/ IssueSession(i)

----------------------------------------------------------------------------
(* The answer is saved: identity, then device, then the private prekeys;    *)
(* then the rest of the prekeys is uploaded.                                *)

SaveIdentity(i) ==
    /\ at[i].pc = "identity"
    /\ store' = [store EXCEPT ![i].key = at[i].key]
    /\ at' = Go(i, "device")
    /\ UNCHANGED <<serverVars, otherLogin, bound, plc, attached, job, pairing, past>>

SaveDeviceAccount(i) ==
    /\ at[i].pc = "device"
    /\ store' = [store EXCEPT ![i].num = at[i].num, ![i].reg = at[i].reg]
    /\ at' = Go(i, "prekeys")
    /\ UNCHANGED <<serverVars, otherLogin, bound, plc, attached, job, pairing, past>>

SavePrekeys(i) ==
    /\ at[i].pc = "prekeys"
    /\ store' = [store EXCEPT ![i].priv = at[i].reg]
    /\ at' = Go(i, "upload")
    /\ UNCHANGED <<serverVars, otherLogin, bound, plc, attached, job, pairing, past>>

\* With an expired session the client authenticates once more.  When this
\* fails the call fails, though the account is there: the next launch logs in.
Known(i) == \E pk \in Find(Of[i], store[i].num) : rows[pk].key = store[i].key
UploadOneTimeKyber(i, answered) ==
    /\ at[i].pc = "upload"
    /\ IF answered THEN UNCHANGED bound ELSE Uses("faults")
    /\ IF answered /\ Known(i)
       THEN /\ at' = [at EXCEPT ![i] = [Off EXCEPT !.pc = "in", !.token = at[i].token]]
            /\ UNCHANGED past
       ELSE at' = [at EXCEPT ![i] = Off] /\ past' = Mishap
    /\ UNCHANGED <<serverVars, otherLogin, plc, attached, store, job, pairing>>

Save(i) ==
    SaveIdentity(i) \/ SaveDeviceAccount(i) \/ SavePrekeys(i) \/ UploadOneTimeKyber(i, TRUE)

----------------------------------------------------------------------------
(* Recovery *)

\* recover_from_blob up to the challenge: the lowest number is taken over.
LowestNum(x) == IF Nums(x) = {} THEN 1 ELSE Min(Nums(x))
Recover(i) ==
    LET x == Of[i]
        n == past.attempts + 1
    IN
    /\ at[i].pc = "new" /\ x \in accounts /\ blob[x] # 0 /\ Uses("recoveries")
    /\ \E pk \in Find(x, LowestNum(x)) :
          LET nonce == <<pk, i, "replace">> IN
          /\ challenges' = challenges \cup {nonce}
          /\ at' = [at EXCEPT ![i] = [Off EXCEPT !.pc = "replace", !.op = "replace",
                        !.key = blob[x], !.num = rows[pk].num, !.reg = n, !.nonce = nonce]]
    /\ past' = [past EXCEPT !.attempts = n]
    /\ UNCHANGED <<accounts, blob, rows, sessions, admission, otherLogin, plc, attached,
                   store, job, pairing>>

----------------------------------------------------------------------------
(* Authentication *)

\* issue_challenge: by identity and number, so it finds whoever has the number.
IssueChallenge(i) ==
    /\ at[i].pc = "in" /\ ~Valid(i) /\ at[i].nonce \notin challenges
    /\ \E pk \in Find(Of[i], store[i].num) :
          /\ challenges' = challenges \cup {<<pk, i, "token">>}
          /\ at' = [at EXCEPT ![i].nonce = <<pk, i, "token">>]
    /\ UNCHANGED <<accounts, blob, rows, sessions, admission, otherLogin, bound, plc,
                   attached, store, job, pairing, past>>

\* issue_token: the nonce is spent; it must be for the device, and the
\* signature made with the key of its row.
IssueToken(i) ==
    LET pk == at[i].nonce[1] IN
    /\ at[i].pc = "in" /\ ~Valid(i) /\ at[i].nonce \in challenges
    /\ challenges' = challenges \ {at[i].nonce}
    /\ IF pk \in Find(Of[i], store[i].num) /\ rows[pk].key = store[i].key
       THEN /\ sessions' = sessions \cup {<<pk, i>>}
            /\ at' = [at EXCEPT ![i].token = pk, ![i].nonce = <<>>]
       ELSE at' = [at EXCEPT ![i].nonce = <<>>] /\ UNCHANGED sessions
    /\ UNCHANGED <<accounts, blob, rows, admission, otherLogin, bound, plc, attached, store,
                   job, pairing, past>>

----------------------------------------------------------------------------
(* Linking *)

\* One side creates the session and shows its code, the other scans it and
\* posts its key: create_pairing, accept_pairing and their counterparts.
CreatePairing(n) ==
    /\ at[n].pc = "new" /\ pairing = NoPairing /\ Uses("pairings")
    /\ pairing' = [stage |-> "open", to |-> n]
    /\ at' = Go(n, "pair")
    /\ UNCHANGED <<serverVars, otherLogin, plc, attached, store, job, past>>

AcceptPairing(e) ==
    /\ at[e].pc = "in" /\ pairing.stage = "open" /\ Of[pairing.to] = Of[e]
    /\ pairing' = [stage |-> "accepted", to |-> pairing.to, from |-> e]
    /\ UNCHANGED <<serverVars, otherLogin, bound, plc, attached, store, at, job, past>>

\* link_send_bundle_step: the next number, a nonce for the sender's own
\* device, and the bundle into the mailbox.
NextNum(x) == Max(Nums(x) \cup {0}) + 1
SenderRow_Next(e) == Find(Of[e], NextNum(Of[e]))
SenderRow(e) == Find(Of[e], store[e].num)
SendBundle(e) ==
    LET x == Of[e] IN
    /\ pairing.stage = "accepted" /\ pairing.from = e /\ Valid(e)
    /\ \E pk \in SenderRow(e) :
          LET nonce == <<pk, e, "link">> IN
          /\ challenges' = challenges \cup {nonce}
          /\ pairing' = [stage |-> "sent", to |-> pairing.to, num |-> NextNum(x),
                         key |-> store[e].key, nonce |-> nonce]
    /\ UNCHANGED <<accounts, blob, rows, sessions, admission, otherLogin, bound, plc,
                   attached, store, at, job, past>>

\* await_link_step: the bundle stays in the mailbox, so a request that failed
\* is made again, with the same number and nonce.  provision_linked_device,
\* like link_device, refuses an identity that is not in the directory.
AwaitLink(n) ==
    LET k == past.attempts + 1 IN
    /\ at[n].pc = "pair" /\ pairing.stage = "sent" /\ pairing.to = n /\ job[n] = NoJob
    /\ Of[n] \notin Bots /\ Uses("links")
    /\ past' = [past EXCEPT !.attempts = k]
    /\ at' = [at EXCEPT ![n] = [Off EXCEPT !.pc = "link", !.op = "link", !.key = pairing.key,
                  !.num = pairing.num, !.reg = k, !.nonce = pairing.nonce]]
    /\ UNCHANGED <<serverVars, otherLogin, plc, attached, store, job, pairing>>

\* Five minutes after it was created; the user goes back to the start.
Unpaired(a) == [i \in Installs |-> IF a[i].pc = "pair" THEN [Off EXCEPT !.pc = "new"] ELSE a[i]]
ExpirePairing ==
    /\ pairing # NoPairing /\ Uses("expiries")
    /\ pairing' = NoPairing
    /\ at' = Unpaired(at)
    /\ past' = Mishap
    /\ UNCHANGED <<serverVars, otherLogin, plc, attached, store, job>>

----------------------------------------------------------------------------
(* Leaving *)

Attach(i) ==
    /\ Valid(i) /\ Of[i] \notin attached /\ Uses("attachments")
    /\ attached' = attached \cup {Of[i]}
    /\ UNCHANGED <<serverVars, otherLogin, plc, store, at, job, pairing, past>>

\* delete_expired of attachments, from the hourly task.
SweepAttachments(x) ==
    /\ x \in attached
    /\ attached' = attached \ {x}
    /\ UNCHANGED <<serverVars, otherLogin, bound, plc, store, at, job, pairing, past>>

\* delete_account is one transaction over the tables it names.  Two tables
\* with a reference to accounts are not among them.
Held(x) == x \in attached \/ \E g \in DOMAIN grants : Kept(g) /\ grants[g].who = x
TokensLeft_All(x) == tokens
TokensLeft(x) == [t \in DOMAIN tokens |-> IF tokens[t] = x THEN Nobody ELSE tokens[t]]
DeleteAccount(x) ==
    LET mine == RowsOf(x) IN
    /\ accounts' = accounts \ {x}
    /\ blob' = [blob EXCEPT ![x] = 0]
    /\ rows' = [pk \in DOMAIN rows |-> IF pk \in mine THEN [rows[pk] EXCEPT !.live = FALSE]
                                       ELSE rows[pk]]
    /\ challenges' = {c \in challenges : c[1] \notin mine}
    /\ sessions' = {s \in sessions : s[1] \notin mine}
    /\ admission' = [admission EXCEPT !.claimed = @ \ {x}]
    /\ tokens' = TokensLeft(x)
    /\ UNCHANGED <<grants, call, login>>

\* delete_account_handler; a failed transaction changes nothing.
LeaveServer(i) ==
    /\ Valid(i) /\ ~Held(Of[i]) /\ Uses("deletes")
    /\ DeleteAccount(Of[i])
    /\ past' = [Mishap EXCEPT !.left = @ \cup {Of[i]}]
    /\ UNCHANGED <<plc, attached, store, at, job, pairing>>

\* delete_identity: what becomes of the request, the tombstone follows.
DeleteIdentity(i, answered) ==
    LET x == Of[i]
        done == answered /\ Valid(i) /\ ~Held(x)
    IN
    /\ at[i].pc = "in" /\ x \notin Bots /\ May("deletes")
    /\ Valid(i) \/ Find(x, store[i].num) = {}
    /\ bound' = [bound EXCEPT !.deletes = @ - 1,
                              !.faults = IF answered THEN @ ELSE @ - 1]
    /\ answered \/ May("faults")
    /\ at' = Go(i, "tombstone")
    /\ IF done THEN DeleteAccount(x) /\ past' = [Mishap EXCEPT !.left = @ \cup {x}]
       ELSE /\ past' = [Mishap EXCEPT !.undeleted = @ \cup
                          {<<x, IF ~answered THEN "fault" ELSE
                                IF Held(x) THEN "held" ELSE "no device">>}]
            /\ UNCHANGED <<serverVars, otherLogin>>
    /\ UNCHANGED <<plc, attached, store, job, pairing>>

Tombstone(i) ==
    LET x == Of[i] IN
    /\ at[i].pc = "tombstone"
    /\ plc' = [plc EXCEPT ![x].len = 3]
    /\ at' = Go(i, "wipe")
    /\ UNCHANGED <<serverVars, otherLogin, bound, attached, store, job, pairing, past>>

Wipe(i) ==
    /\ at[i].pc = "wipe"
    /\ store' = [store EXCEPT ![i] = NoStore]
    /\ at' = Home(i)
    /\ UNCHANGED <<serverVars, otherLogin, bound, plc, attached, job, pairing, past>>

----------------------------------------------------------------------------
(* Ends and losses *)

\* The handshake of a link under way is in memory only.
Abandoned(i) ==
    pairing # NoPairing /\ (pairing.to = i \/ (pairing.stage = "accepted" /\ pairing.from = i))

\* Between the request and the last save only the server knows of the device.
Unsaved(i) ==
    IF at[i].pc \in (IF Of[i] \in Bots THEN {"wait", "identity", "device"} ELSE {"register"})
    THEN {Of[i]} ELSE {}

\* The process ends, with or without a warning.
Exit(i) ==
    LET calm == at[i].pc \in {"new", "in"} IN
    /\ at[i].pc # "off"
    /\ Uses(IF calm THEN "quits" ELSE "faults")
    /\ at' = [IF Abandoned(i) THEN Unpaired(at) ELSE at EXCEPT ![i] = Off]
    /\ pairing' = IF Abandoned(i) THEN NoPairing ELSE pairing
    /\ past' = IF calm /\ ~Abandoned(i) THEN past
               ELSE [Stuck(Unsaved(i)) EXCEPT
                        !.torn = IF at[i].pc = "prekeys" THEN @ \cup {i} ELSE @]
    /\ UNCHANGED <<serverVars, otherLogin, plc, attached, store, job>>

\* The device is lost or the app removed, with all it has saved.
Lose(i) ==
    /\ at[i].pc = "off" /\ store[i] # NoStore /\ Uses("losses")
    /\ store' = [store EXCEPT ![i] = NoStore]
    /\ UNCHANGED <<serverVars, otherLogin, plc, attached, at, job, pairing, past>>

\* The request is dropped between two statements, or its answer is lost.
DropRequest(i) ==
    /\ job[i] # NoJob /\ Uses("faults")
    /\ job' = [job EXCEPT ![i] = NoJob]
    /\ at' = IF ~Waits(i) THEN at ELSE IF at[i].op = "link" THEN Go(i, "pair") ELSE Home(i)
    /\ past' = Stuck(Stranded(i))
    /\ UNCHANGED <<serverVars, otherLogin, plc, attached, store, pairing>>

\* The client has its timeout while the server goes on.
TimeOut(i) ==
    /\ Waits(i) /\ job[i] # NoJob /\ Uses("faults")
    /\ at' = IF at[i].op = "link" THEN Go(i, "pair") ELSE Home(i)
    /\ past' = Stuck(IF Of[i] \in Bots THEN {Of[i]} ELSE {})
    /\ UNCHANGED <<serverVars, otherLogin, plc, attached, store, job, pairing>>

InstallGatekeeper ==
    /\ ~admission.gatekeeper /\ Uses("gates")
    /\ admission' = [admission EXCEPT !.gatekeeper = TRUE]
    /\ UNCHANGED <<accounts, blob, rows, challenges, sessions, otherLogin, plc, attached,
                   store, at, job, pairing, past>>

----------------------------------------------------------------------------
(* Logins to Projects, by whoever holds a session *)

Consenting == {Of[i] : i \in {j \in Installs : Valid(j)}}
BeginLogin ==
    /\ Uses("logins")
    /\ \/ DeviceAuthorization
       \/ \E x \in Consenting : AuthorizeCode(x)
    /\ UNCHANGED otherAccount
Consent ==
    /\ Uses("consents")
    /\ \E x \in Consenting, g \in DOMAIN grants : DeviceApprove(x, g)
    /\ UNCHANGED otherAccount
Collect ==
    /\ \E c \in Callers, g \in DOMAIN grants :
          TokenAuthorizationCode(c, g) \/ TokenDeviceCode(c, g)
    /\ UNCHANGED <<bound, otherAccount>>
LoginMishap ==
    /\ Uses("hangups")
    /\ \E c \in Callers \cup People : HangUp(c)
    /\ UNCHANGED otherAccount
LoginGoesOn == (LoginWork \/ LoginTime) /\ UNCHANGED <<bound, otherAccount>>

----------------------------------------------------------------------------
Work(i) ==
    \/ SubmitGenesis(i) \/ SubmitUpdate(i, TRUE)
    \/ Register(i) \/ RequestReplace(i) \/ RequestLink(i)
    \/ Serve(i) \/ Save(i)
    \/ IssueChallenge(i) \/ IssueToken(i)
    \/ SendBundle(i) \/ AwaitLink(i)
    \/ Tombstone(i) \/ Wipe(i)

User(i) ==
    \/ Start(i) \/ Recover(i) \/ CreatePairing(i) \/ AcceptPairing(i)
    \/ \E cred \in bound.creds : Prepare(i, cred)
    \/ Attach(i) \/ LeaveServer(i) \/ DeleteIdentity(i, TRUE)

Mishaps(i) ==
    \/ SubmitUpdate(i, FALSE) \/ UploadOneTimeKyber(i, FALSE) \/ DeleteIdentity(i, FALSE)
    \/ Exit(i) \/ Lose(i) \/ DropRequest(i) \/ TimeOut(i)

Logins == BeginLogin \/ Consent \/ Collect \/ LoginMishap \/ LoginGoesOn

Next ==
    \/ \E i \in Installs : Work(i) \/ User(i) \/ Mishaps(i)
    \/ \E x \in People : SweepAttachments(x)
    \/ ExpirePairing \/ InstallGatekeeper
    \/ Logins

\* An operation goes on while its process and the server run.
AccountsFairness == WF_vars(\E i \in Installs : Work(i))
AccountsSpec == Init /\ [][Next]_vars /\ AccountsFairness

----------------------------------------------------------------------------
(* Properties *)

Busy(x) == \E i \in Installs : Of[i] = x /\
    (job[i] # NoJob \/ at[i].pc \notin {"off", "new", "in", "pair"})

CanSignUp(x) == x \notin accounts /\ (x \in Bots \/ plc[x].len <= 1)
CanLogIn(x) == \E i \in Installs : Of[i] = x /\ Known(i)
CanRecover(x) == x \in accounts /\ blob[x] # 0 /\ RowsOf(x) # {} /\ plc[x].len = 2

\* Whatever is cut short or refused, and in whatever order devices sign up,
\* recover, link and are lost, a person whose operations have ended can sign
\* up, log in or recover, unless the identity was left, or one of two things
\* happened: a signup failed after its key had gone to the directory, or a
\* replacement ended with the old row deleted and the new one not yet there.
\* For a bot it is the first reply: without it the reserved name is taken.
NotLockedOut ==
    \A x \in People : ~Busy(x) =>
        \/ CanSignUp(x) \/ CanLogIn(x) \/ CanRecover(x)
        \/ x \in past.stuck \cup past.left \/ plc[x].len = 3
        \/ x \in Bots /\ \A i \in Installs : Of[i] = x => store[i] = NoStore

\* A number means one device of an account, a session belongs to the install
\* that registered the device, and an install that is in holds the prekeys the
\* server gives out for it.  Excepted are an install whose device was replaced
\* by recovery, which logs in as its successor, and one that ended between
\* saving its device and saving its prekeys.
DevicesFit ==
    /\ \A x \in People : \A pk, qk \in RowsOf(x) : rows[pk].num = rows[qk].num => pk = qk
    /\ \A s \in sessions : Live(s[1]) /\ (rows[s[1]].by = s[2] \/ s[2] \in past.replaced)
    /\ \A i \in Installs : at[i].pc = "in" =>
          \A pk \in Find(Of[i], store[i].num) :
             rows[pk].reg = store[i].reg /\ rows[pk].keys
                => store[i].priv = store[i].reg \/ i \in past.torn

\* One invite admits one identity and one identity claims the superuser's
\* Project, however registrations interleave (try_redeem,
\* link_bot_if_unclaimed).
AdmittedOnce ==
    /\ Cardinality(admission.claimed) <= 1
    /\ \A a, b \in past.by : a[2] \in Invites /\ b[2] = a[2] => a = b

\* An account that is deleted leaves nothing behind, no row, session, nonce,
\* grant or Project token; and an identity that has its tombstone has left the
\* server, unless the request failed, the device was no longer known, or an
\* attachment or grant held the account fast (delete_account).
DeletionIsWhole ==
    /\ \A x \in People \ accounts :
          /\ RowsOf(x) = {}
          /\ \A t \in DOMAIN tokens : tokens[t] # x
          /\ \A g \in DOMAIN grants : Kept(g) => grants[g].who # x
    /\ \A t \in sessions \cup challenges : Live(t[1])
    /\ \A x \in accounts : plc[x].len = 3 => \E why \in past.undeleted : why[1] = x

\* A link that both sides have entered ends with the new device logged in,
\* unless a fault, a recovery, a departure or the end of its time came between.
LinkSettles ==
    <>[](pairing.stage \in {"accepted", "sent"} =>
            past.mishap \/ at[pairing.to].pc = "in")
=============================================================================
