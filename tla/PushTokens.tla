----------------------------- MODULE PushTokens -----------------------------
(***************************************************************************)
(* How a wakeup finds a sleeping device.  The homeserver knows a pseudonym  *)
(* for the device and one for each of its groups; the relay alone knows     *)
(* which platform token a pseudonym stands for.  The device registers both  *)
(* at every launch, draws a new pseudonym when the token has changed or the *)
(* old one is due, and then retires the old one (app-core                   *)
(* register_push_token, store/push.rs, server routes/push.rs and            *)
(* routes/messages.rs, relay/main.rs).                                      *)
(*                                                                         *)
(* The requests of a call are its steps; a call may fail or be cut short at *)
(* any of them, and calls are made one at a time.  Of a wakeup the model    *)
(* keeps the token it is sent to.  The push services, their credentials and *)
(* the relay's rate limit are left out.                                     *)
(***************************************************************************)
EXTENDS Integers, FiniteSets

CONSTANTS
    PushGroups,   \* groups the device may join; their pseudonyms as well
    MaxTokens,    \* bound: tokens the platform issues
    MaxCalls,     \* bound: calls made, and so pseudonyms drawn
    MaxFailures   \* bound: requests lost, calls cut short, relays wiped

ASSUME PushAssumption ==
    /\ IsFiniteSet(PushGroups) /\ PushGroups \cap Nat = {} /\ "device" \notin PushGroups
    /\ MaxTokens \in Nat \ {0} /\ MaxCalls \in Nat /\ MaxFailures \in Nat

VARIABLES
    token,      \* the token the platform has issued last
    pushState,  \* push_state: pseudonym, token, whether it is due; name 0 is none
    joined,     \* groups the device is in: the homeserver routes for them
    relay,      \* push_registrations: per pseudonym its token and age
    known,      \* push_pseudonyms of the device: registered_at, 0 is no row
    pushCall,   \* the call under way
    drawn,      \* pseudonyms drawn
    settled,    \* bookkeeping: what has been registered with the current token
    cut,        \* bookkeeping: pseudonyms whose retirement did not come about
    calls, failures

pushVars == <<token, pushState, joined, relay, known, pushCall, drawn, settled, cut,
              calls, failures>>

NoState == [name |-> 0, token |-> 0, due |-> FALSE]
NoCall == [step |-> "none", name |-> 0, token |-> 0, old |-> 0, spoilt |-> FALSE]
Unknown == [token |-> 0, age |-> "none"]
Drawable == 1..MaxCalls

PushInit ==
    /\ token = 1 /\ pushState = NoState /\ joined = {}
    /\ relay = [n \in Drawable \cup PushGroups |-> Unknown] /\ known = [n \in Drawable |-> 0]
    /\ pushCall = NoCall /\ drawn = 0 /\ settled = {} /\ cut = {}
    /\ calls = 0 /\ failures = 0

Doing(s) == pushCall.step = s
Proceed(s) == pushCall' = [pushCall EXCEPT !.step = s]
Fails == failures < MaxFailures /\ failures' = failures + 1

\* INSERT OR REPLACE, which ends a grace period.
Registered(ns) ==
    [n \in DOMAIN relay |->
        IF n \in ns THEN [token |-> pushCall.token, age |-> "live"] ELSE relay[n]]

\* The relay's unregister: the grace period begins, unless it has before.
Retired(n) ==
    IF relay[n].age = "live" THEN [relay EXCEPT ![n].age = "grace"] ELSE relay

----------------------------------------------------------------------------
(* register_push_token *)

Rotates == pushState.name = 0 \/ pushState.token # token \/ pushState.due

\* A new pseudonym is saved before anyone has heard of it.
RegisterPushToken ==
    /\ Doing("none") /\ calls < MaxCalls
    /\ calls' = calls + 1
    /\ IF Rotates
       THEN /\ drawn' = drawn + 1
            /\ pushState' = [name |-> drawn + 1, token |-> token, due |-> FALSE]
            /\ pushCall' = [NoCall EXCEPT !.step = "relay", !.name = drawn + 1,
                                          !.token = token, !.old = pushState.name]
       ELSE /\ pushCall' = [NoCall EXCEPT !.step = "relay", !.name = pushState.name,
                                          !.token = token]
            /\ UNCHANGED <<drawn, pushState>>
    /\ UNCHANGED <<token, joined, relay, known, settled, cut, failures>>

RelayRegister ==
    /\ Doing("relay") /\ Proceed("groups")
    /\ relay' = Registered({pushCall.name})
    /\ UNCHANGED <<token, pushState, joined, known, drawn, settled, cut, calls, failures>>

\* The pseudonyms of all groups in one request; its failure is only logged.
RelayRegisterGroups ==
    /\ Doing("groups") /\ Proceed("server")
    /\ \/ /\ relay' = Registered(joined)
          /\ settled' = IF pushCall.token = token THEN settled \cup joined ELSE settled
          /\ UNCHANGED failures
       \/ joined # {} /\ Fails /\ UNCHANGED <<relay, settled>>
    /\ UNCHANGED <<token, pushState, joined, known, drawn, cut, calls>>

\* The number of the call stands for registered_at: one row a call.
ServerRegister ==
    /\ Doing("server")
    /\ known' = [known EXCEPT ![pushCall.name] = calls]
    /\ settled' = IF pushCall.token = token /\ ~pushCall.spoilt
                  THEN settled \cup {"device"} ELSE settled
    /\ IF pushCall.old = 0 THEN pushCall' = NoCall ELSE Proceed("retire")
    /\ UNCHANGED <<token, pushState, joined, relay, drawn, cut, calls, failures>>

\* The old pseudonym at the relay, then at the homeserver; whether either
\* request arrives is not looked at.
RetireAtRelay ==
    /\ Doing("retire") /\ Proceed("forget")
    /\ \/ relay' = Retired(pushCall.old) /\ UNCHANGED <<cut, failures>>
       \/ Fails /\ cut' = cut \cup {pushCall.old} /\ UNCHANGED relay
    /\ UNCHANGED <<token, pushState, joined, known, drawn, settled, calls>>

RetireAtServer ==
    /\ Doing("forget") /\ pushCall' = NoCall
    /\ \/ known' = [known EXCEPT ![pushCall.old] = 0] /\ UNCHANGED failures
       \/ Fails /\ UNCHANGED known
    /\ UNCHANGED <<token, pushState, joined, relay, drawn, settled, cut, calls>>

----------------------------------------------------------------------------
(* unregister_push_token *)

UnregisterPushToken ==
    /\ Doing("none") /\ calls < MaxCalls /\ pushState.name # 0
    /\ calls' = calls + 1 /\ settled' = {}
    /\ pushCall' = [NoCall EXCEPT !.step = "leave", !.old = pushState.name]
    /\ UNCHANGED <<token, pushState, joined, relay, known, drawn, cut, failures>>

LeaveRelay ==
    /\ Doing("leave") /\ Proceed("leaveServer")
    /\ \/ relay' = Retired(pushCall.old) /\ UNCHANGED <<cut, failures>>
       \/ Fails /\ cut' = cut \cup {pushCall.old} /\ UNCHANGED relay
    /\ UNCHANGED <<token, pushState, joined, known, drawn, settled, calls>>

LeaveServerRows ==
    /\ Doing("leaveServer") /\ Proceed("clear")
    /\ \/ known' = [known EXCEPT ![pushCall.old] = 0] /\ UNCHANGED failures
       \/ Fails /\ UNCHANGED known
    /\ UNCHANGED <<token, pushState, joined, relay, drawn, settled, cut, calls>>

ClearPushState ==
    /\ Doing("clear")
    /\ pushState' = NoState /\ pushCall' = NoCall
    /\ UNCHANGED <<token, joined, relay, known, drawn, settled, cut, calls, failures>>

----------------------------------------------------------------------------
(* Failures, time, and the platform *)

\* A request that must succeed fails, or the app ends.  The next launch finds
\* the new pseudonym saved and does not rotate, so nobody retires the old one.
CallCut ==
    /\ ~Doing("none") /\ Fails
    /\ pushCall' = NoCall
    /\ cut' = IF Doing("forget") \/ Doing("leave") \/ Doing("leaveServer") \/ Doing("clear")
              THEN cut ELSE cut \cup ({pushCall.old} \ {0})
    /\ UNCHANGED <<token, pushState, joined, relay, known, drawn, settled, calls>>

NewToken ==
    /\ token < MaxTokens /\ token' = token + 1 /\ settled' = {}
    /\ UNCHANGED <<pushState, joined, relay, known, pushCall, drawn, cut, calls, failures>>

\* PUSH_ROTATION_MAX_AGE_SECONDS have passed.
Due ==
    /\ pushState.name # 0 /\ ~pushState.due /\ Doing("none")
    /\ pushState' = [pushState EXCEPT !.due = TRUE]
    /\ UNCHANGED <<token, joined, relay, known, pushCall, drawn, settled, cut, calls, failures>>

Join(g) ==
    /\ g \notin joined /\ joined' = joined \cup {g}
    /\ UNCHANGED <<token, pushState, relay, known, pushCall, drawn, settled, cut, calls, failures>>

\* The relay's database is lost, for the call under way too.
RelayWiped ==
    /\ \E n \in DOMAIN relay : relay[n] # Unknown
    /\ Fails
    /\ relay' = [n \in DOMAIN relay |-> Unknown] /\ settled' = {}
    /\ pushCall' = [pushCall EXCEPT !.spoilt = ~Doing("none")]
    /\ UNCHANGED <<token, pushState, joined, known, drawn, cut, calls>>

GraceEnds(n) ==
    /\ relay[n].age = "grace" /\ relay' = [relay EXCEPT ![n].age = "over"]
    /\ UNCHANGED <<token, pushState, joined, known, pushCall, drawn, settled, cut, calls, failures>>

\* gc_loop
Collectable_None(n) == FALSE
Collectable(n) == relay[n].age = "over"
GcRelay(n) ==
    /\ Collectable(n) /\ relay' = [relay EXCEPT ![n] = Unknown]
    /\ UNCHANGED <<token, pushState, joined, known, pushCall, drawn, settled, cut, calls, failures>>

CallStep ==
    \/ RelayRegister \/ RelayRegisterGroups \/ ServerRegister \/ RetireAtRelay
    \/ RetireAtServer \/ LeaveRelay \/ LeaveServerRows \/ ClearPushState
PushNext ==
    \/ RegisterPushToken \/ UnregisterPushToken \/ CallStep \/ CallCut
    \/ NewToken \/ Due \/ RelayWiped
    \/ \E g \in PushGroups : Join(g)
    \/ \E n \in DOMAIN relay : GraceEnds(n) \/ GcRelay(n)

PushSpec == PushInit /\ [][PushNext]_pushVars

\* A call goes on, the relay's timer runs, and grace periods end.
RelayRuns == CallStep \/ \E n \in DOMAIN relay : GraceEnds(n) \/ GcRelay(n)
PushFairness == WF_pushVars(RelayRuns)

----------------------------------------------------------------------------
(* Waking: the homeserver's pseudonym_for_device and the relay's wakeup *)

PseudonymForDevice_First ==
    {n \in Drawable : known[n] # 0 /\ \A m \in Drawable : known[m] = 0 \/ known[n] <= known[m]}
PseudonymForDevice ==
    {n \in Drawable : known[n] # 0 /\ \A m \in Drawable : known[m] <= known[n]}

\* The token that wakeup sends to, if any.
Wakeup(n) == IF relay[n].age \in {"live", "grace"} THEN {relay[n].token} ELSE {}

\* The types of the state.
CallSteps == {"none", "relay", "groups", "server", "retire", "forget",
              "leave", "leaveServer", "clear"}
PushTypeOK ==
    /\ token \in Nat \ {0} /\ joined \subseteq PushGroups
    /\ pushState \in [name : {0} \cup Drawable, token : Nat, due : BOOLEAN]
    /\ relay \in [Drawable \cup PushGroups ->
                    [token : Nat, age : {"none", "live", "grace", "over"}]]
    /\ known \in [Drawable -> Nat]
    /\ pushCall \in [step : CallSteps, name : {0} \cup Drawable, token : Nat,
                      old : {0} \cup Drawable, spoilt : BOOLEAN]
    /\ settled \subseteq {"device"} \cup PushGroups /\ cut \subseteq Drawable
    /\ drawn \in 0..MaxCalls /\ calls \in 0..MaxCalls /\ failures \in Nat

(* Once the device and its groups have been registered with the platform's  *)
(* current token, a wakeup finds that token, through every later rotation   *)
(* and whichever of its requests fails (register_push_token registers with  *)
(* the relay, then the homeserver, and retires the old pseudonym last).     *)
WakeupsReachDevice ==
    /\ "device" \in settled =>
          /\ PseudonymForDevice # {}
          /\ \A n \in PseudonymForDevice : Wakeup(n) = {token}
    /\ \A g \in settled \cap PushGroups : Wakeup(g) = {token}

\* Live at the relay, though the device has done with it.
Stale(n) ==
    relay[n].age = "live" /\ n \notin {pushState.name, pushCall.name, pushCall.old}

(* Pseudonyms the device no longer uses disappear from the relay, unless    *)
(* a retirement was cut short or lost: then nothing retires that one again  *)
(* (register_push_token, unregister, gc_loop).                              *)
OldPseudonymsFade ==
    <>[](\A n \in Drawable :
            Stale(n) \/ relay[n].age \in {"grace", "over"} => n \in cut)
=============================================================================
