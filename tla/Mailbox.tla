------------------------------ MODULE Mailbox ------------------------------
(***************************************************************************)
(* What the homeserver and a device promise of the device's mailbox,       *)
(* whatever sockets, polls, restarts and retries happen in between: a      *)
(* message accepted stays in the mailbox until the device has opened it    *)
(* (its ratchet has moved past it) or given it up, or until it expires.    *)
(*                                                                         *)
(* MessageDelivery implements this specification.                          *)
(***************************************************************************)
EXTENDS Naturals, Sequences

CONSTANT Ciphertexts   \* messages that can be addressed to the device

VARIABLES
    box,       \* every message ever accepted, in order
    waiting,   \* positions in box still held by the server
    opened,    \* messages the device has decrypted
    givenUp,   \* positions the device could not decrypt and waved through
    expired    \* positions dropped at their expiry

mvars == <<box, waiting, opened, givenUp, expired>>

Init == /\ box = <<>> /\ waiting = {} /\ opened = {}
        /\ givenUp = {} /\ expired = {}

Handled(r) == box[r] \in opened \/ r \in givenUp

\* The server accepts a message, a first or a repeated copy.
Accept(c) ==
    /\ box' = Append(box, c)
    /\ waiting' = waiting \cup {Len(box) + 1}
    /\ UNCHANGED <<opened, givenUp, expired>>

\* The device opens a message the server accepted, once.
Open(r) ==
    /\ box[r] \notin opened
    /\ opened' = opened \cup {box[r]}
    /\ UNCHANGED <<box, waiting, givenUp, expired>>

\* The device gives up an accepted message it has not opened.
GiveUp(r) ==
    /\ box[r] \notin opened
    /\ givenUp' = givenUp \cup {r}
    /\ UNCHANGED <<box, waiting, opened, expired>>

\* The server drops messages the device has handled, one or many at a time.
Release(S) ==
    /\ \A r \in S : Handled(r)
    /\ waiting' = waiting \ S
    /\ UNCHANGED <<box, opened, givenUp, expired>>

\* The server drops a message past its expiry.
Expire(r) ==
    /\ waiting' = waiting \ {r}
    /\ expired' = expired \cup {r}
    /\ UNCHANGED <<box, opened, givenUp>>

Next ==
    \/ \E c \in Ciphertexts : Accept(c)
    \/ \E r \in 1..Len(box) : Open(r) \/ GiveUp(r)
    \/ \E S \in SUBSET waiting : Release(S)
    \/ \E r \in waiting : Expire(r)

Spec == Init /\ [][Next]_mvars
=============================================================================
