---------------------------- MODULE ProjectLogin ----------------------------
(***************************************************************************)
(* "Sign in with Avalanche": the grants by which a Project comes to hold a  *)
(* token that names an account.  Two ways lead there:                       *)
(*                                                                         *)
(*   - the app mints an approved code, the Project redeems it (auth_code);  *)
(*   - the Project asks for a device code and polls it, a person consents   *)
(*     on the phone by the user code (device_code).                         *)
(*                                                                         *)
(* The handlers of routes/oauth.rs issue one statement after another, each  *)
(* committed alone; a request whose caller hangs up ends between two of     *)
(* them.  What a request has read so far is in call.  The set accounts is   *)
(* the server's, shared with the module Accounts, which extends this one.   *)
(***************************************************************************)
EXTENDS Integers, Sequences, FiniteSets, SequencesExt

CONSTANTS
    People,    \* the identities that may hold an account
    Callers,   \* the requests Projects have under way at once
    Nobody

ASSUME NobodyAssumption == Nobody \notin People /\ People \cap Callers = {}

VARIABLES
    accounts,  \* whose account the server holds
    grants,    \* oauth_grants, in order of creation
    tokens,    \* project_tokens: for whom, Nobody once deleted
    call,      \* per caller, and per person consenting: the request under way
    login      \* bookkeeping for properties: consents, approvals, tokens handed out

loginVars == <<accounts, grants, tokens, call, login>>

Idle == [step |-> "idle"]
NewGrant(kind, x, status) ==
    [kind |-> kind, who |-> x, status |-> status, token |-> 0,
     late |-> FALSE, polled |-> "never"]

LoginInit ==
    /\ grants = <<>> /\ tokens = <<>>
    /\ call = [c \in Callers \cup People |-> Idle]
    /\ login = [consent |-> {}, approved |-> {}, handed |-> {}, minted |-> <<>>]

\* A row that is still there; the sweep deletes those past their time.
Kept(g) == grants[g].status # "gone"
Step(c, s) == call' = [call EXCEPT ![c].step = s]
Ends(c) == call' = [call EXCEPT ![c] = Idle]
Asks(c, request) == call[c] = Idle /\ call' = [call EXCEPT ![c] = request]

----------------------------------------------------------------------------
(* The person's side *)

\* authorize_code: the code is approved as it is minted.
AuthorizeCode(x) ==
    /\ x \in accounts
    /\ grants' = Append(grants, NewGrant("auth_code", x, "approved"))
    /\ login' = [login EXCEPT !.consent = @ \cup {<<Len(grants) + 1, x>>}]
    /\ UNCHANGED <<accounts, tokens, call>>

\* device_approve, as far as the lookup of the pending grant.
DeviceApprove(x, g) ==
    /\ grants[g].kind = "device_code" /\ grants[g].status = "pending" /\ ~grants[g].late
    /\ Asks(x, [step |-> "mint", g |-> g, who |-> x, token |-> 0])
    /\ login' = [login EXCEPT !.consent = @ \cup {<<g, x>>}]
    /\ UNCHANGED <<accounts, grants, tokens>>

\* project_tokens::create; without the account's row it fails.
CreateToken(x) ==
    /\ tokens' = Append(tokens, x)
    /\ login' = [login EXCEPT !.minted = Append(@, x)]

MintForApproval(x) ==
    /\ call[x].step = "mint"
    /\ IF x \in accounts
       THEN /\ CreateToken(x)
            /\ call' = [call EXCEPT ![x].step = "approve", ![x].token = Len(tokens) + 1]
       ELSE Ends(x) /\ UNCHANGED <<tokens, login>>
    /\ UNCHANGED <<accounts, grants>>

\* approve_device: only a pending grant is bound; another consent, the sweep
\* or the end of the account may have come first.
Bindable_Any(g) == Kept(g)
Bindable(g) == grants[g].status = "pending"
ApproveDevice(x) ==
    LET g == call[x].g IN
    /\ call[x].step = "approve"
    /\ Ends(x)
    /\ IF Bindable(g) /\ x \in accounts
       THEN /\ grants' = [grants EXCEPT ![g].status = "approved", ![g].who = x,
                                        ![g].token = call[x].token]
            /\ login' = [login EXCEPT !.approved = @ \cup {<<g, x>>}]
       ELSE UNCHANGED <<grants, login>>
    /\ UNCHANGED <<accounts, tokens>>

----------------------------------------------------------------------------
(* The Project's side *)

DeviceAuthorization ==
    /\ grants' = Append(grants, NewGrant("device_code", Nobody, "pending"))
    /\ UNCHANGED <<accounts, tokens, call, login>>

\* token_authorization_code, as far as the checks on the row it read.
TokenAuthorizationCode(c, g) ==
    /\ grants[g].kind = "auth_code" /\ grants[g].status = "approved" /\ ~grants[g].late
    /\ Asks(c, [step |-> "consume", g |-> g, who |-> grants[g].who, token |-> 0])
    /\ UNCHANGED <<accounts, grants, tokens, login>>

\* token_device_code, as far as the row it read.
TokenDeviceCode(c, g) ==
    /\ grants[g].kind = "device_code" /\ Kept(g) /\ ~grants[g].late
    /\ Asks(c, [step |-> "poll", g |-> g, who |-> grants[g].who, token |-> grants[g].token,
                status |-> grants[g].status, polled |-> grants[g].polled])
    /\ UNCHANGED <<accounts, grants, tokens, login>>

\* mark_polled; what follows is decided by the row as read before.
MarkPolled(c) ==
    LET g == call[c].g IN
    /\ call[c].step = "poll"
    /\ grants' = IF Kept(g) THEN [grants EXCEPT ![g].polled = "just"] ELSE grants
    /\ IF call[c].polled # "just" /\ call[c].status = "approved"
       THEN Step(c, "consume") ELSE Ends(c)
    /\ UNCHANGED <<accounts, tokens, login>>

HandOut(c, t) == login' = [login EXCEPT !.handed = @ \cup {<<call[c].g, t, c>>}]

\* consume: an approved grant is spent before anything is handed out.
Spendable_Any(g) == Kept(g)
Spendable(g) == grants[g].status = "approved"
Consume(c) ==
    LET g == call[c].g IN
    /\ call[c].step = "consume"
    /\ IF ~Spendable(g) THEN Ends(c) /\ UNCHANGED <<grants, login>>
       ELSE /\ grants' = [grants EXCEPT ![g].status = "consumed"]
            /\ IF call[c].token = 0 THEN Step(c, "mint") /\ UNCHANGED login
               ELSE Ends(c) /\ HandOut(c, call[c].token)
    /\ UNCHANGED <<accounts, tokens>>

MintForCode(c) ==
    LET x == call[c].who IN
    /\ c \in Callers /\ call[c].step = "mint"
    /\ Ends(c)
    /\ IF x \notin accounts THEN UNCHANGED <<tokens, login>>
       ELSE /\ tokens' = Append(tokens, x)
            /\ login' = [login EXCEPT !.minted = Append(@, x),
                            !.handed = @ \cup {<<call[c].g, Len(tokens) + 1, c>>}]
    /\ UNCHANGED <<accounts, grants>>

----------------------------------------------------------------------------
(* Time *)

\* The caller hangs up, or the server restarts: no further statement is run.
HangUp(c) ==
    /\ call[c] # Idle /\ Ends(c)
    /\ UNCHANGED <<accounts, grants, tokens, login>>

PollInterval(g) ==
    /\ grants[g].polled = "just"
    /\ grants' = [grants EXCEPT ![g].polled = "earlier"]
    /\ UNCHANGED <<accounts, tokens, call, login>>

ExpireGrant(g) ==
    /\ Kept(g) /\ ~grants[g].late
    /\ grants' = [grants EXCEPT ![g].late = TRUE]
    /\ UNCHANGED <<accounts, tokens, call, login>>

\* oauth_grants::delete_expired, from the hourly task.
SweepGrant(g) ==
    /\ Kept(g) /\ grants[g].late
    /\ grants' = [grants EXCEPT ![g].status = "gone"]
    /\ UNCHANGED <<accounts, tokens, call, login>>

\* A request runs on once it has begun.
LoginWork ==
    \/ \E x \in People : MintForApproval(x) \/ ApproveDevice(x)
    \/ \E c \in Callers : MarkPolled(c) \/ Consume(c) \/ MintForCode(c)
LoginTime ==
    \E g \in DOMAIN grants : PollInterval(g) \/ ExpireGrant(g) \/ SweepGrant(g)

----------------------------------------------------------------------------
(* A grant yields one token to one caller, and it names the account whose   *)
(* consent was answered with success, however consents, polls, redemptions  *)
(* and the sweep interleave (approve_device, consume).                      *)
ConsentedLogins ==
    /\ \A a, b \in login.approved : a[1] = b[1] => a = b
    /\ \A h \in login.handed :
          LET x == login.minted[h[2]] IN
          /\ \A k \in login.handed : h[1] = k[1] \/ h[2] = k[2] => h = k
          /\ <<h[1], x>> \in login.consent
          /\ grants[h[1]].kind = "device_code" => <<h[1], x>> \in login.approved
=============================================================================
