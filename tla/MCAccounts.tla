----------------------------- MODULE MCAccounts -----------------------------
(***************************************************************************)
(* Instances of Accounts: two persons, one with two installs of the app and *)
(* the other with one, and two bots.  Each behaviour has one of the Limits: *)
(* what it is about, with as many faults as the questions need.             *)
(***************************************************************************)
EXTENDS Accounts

CONSTANTS ann, bea, bot, bob, ann1, ann2, bea1, bot1, bob1, c1, c2

OfWhom == (ann1 :> ann) @@ (ann2 :> ann) @@ (bea1 :> bea) @@ (bot1 :> bot) @@ (bob1 :> bob)

None == [who |-> {}, settled |-> <<>>, creds |-> {"none"}, closed |-> FALSE,
         gatekeeper |-> FALSE, gates |-> 0, signups |-> 0, recoveries |-> 0, pairings |-> 0,
         links |-> 0, expiries |-> 0, attachments |-> 0, deletes |-> 0, faults |-> 0,
         quits |-> 0, losses |-> 0, logins |-> 0, consents |-> 0, hangups |-> 0]

\* A person signs up, with a fault and another attempt, and recovers.
Signup == [None EXCEPT !.who = {ann1, ann2}, !.signups = 2, !.recoveries = 1, !.faults = 1]
\* The device is lost, and two installs recover, perhaps at once.
Recovery == [None EXCEPT !.who = {ann1, ann2}, !.settled = <<ann1>>, !.recoveries = 2, !.faults = 1,
                         !.quits = 1, !.losses = 1]
\* A second device is linked, which may fail and be tried again, and the
\* account may be recovered meanwhile.
Linking == [None EXCEPT !.who = {ann1, ann2}, !.settled = <<ann1>>, !.pairings = 2, !.links = 2,
                        !.recoveries = 1, !.expiries = 1, !.faults = 1, !.quits = 1]
\* Two bots register where registration is closed, with one invite and one
\* superuser's token, and before or after there is a gatekeeper.
Admission == [None EXCEPT !.who = {bot1, bob1}, !.signups = 3, !.closed = TRUE, !.gates = 1,
                          !.creds = {"none", "shared", "invite", "claim"}]
\* Two persons consent to one grant while two requests poll or redeem it.
TwoConsents == [None EXCEPT !.who = {ann1, bea1}, !.settled = <<ann1, bea1>>, !.logins = 1,
                           !.consents = 2]
\* A person leaves or deletes the identity with an attachment there, or with
\* a grant under way.
Departure == [None EXCEPT !.who = {ann1}, !.settled = <<ann1>>, !.deletes = 1, !.attachments = 1,
                          !.faults = 1]
GrantLeft == [None EXCEPT !.who = {ann1}, !.settled = <<ann1>>, !.deletes = 1, !.logins = 1,
                          !.consents = 1, !.hangups = 1]

AllLimits ==
    {Signup, Recovery, Linking, Admission, TwoConsents, Departure, GrantLeft}
=============================================================================
