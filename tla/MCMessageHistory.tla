-------------------------- MODULE MCMessageHistory --------------------------
(* Small instances of MessageHistory: two devices on one side and one on the *)
(* other, and the bounds of the behaviours explored side by side.            *)
EXTENDS MessageHistory

CONSTANTS a, b, p

Limit(by, on, known, texts, edits, deletes, reacts, reads, hides, timers, faults) ==
    [writers |-> by, timed |-> on, curated |-> known, texts |-> texts, edits |-> edits,
     deletes |-> deletes, reacts |-> reacts, reads |-> reads, hides |-> hides,
     timers |-> timers, faults |-> faults]

\* Two edits against each other, and an edit and a deletion; reactions against
\* a deletion; an edit and a fault anywhere, the message hidden; a timed message
\* read twice, and read with a fault; two messages and a read; a timer that
\* changes.
SideBySide ==
    {Limit({a}, FALSE, TRUE, 1, 2, 0, 0, 0, 0, 0, 0),
     Limit({a}, FALSE, TRUE, 1, 1, 1, 0, 0, 0, 0, 0),
     Limit({p}, FALSE, TRUE, 1, 0, 1, 2, 0, 0, 0, 0),
     Limit({a}, FALSE, TRUE, 1, 1, 0, 0, 0, 1, 0, 1),
     Limit({p}, TRUE, TRUE, 1, 0, 0, 0, 2, 0, 0, 0),
     Limit({p}, TRUE, TRUE, 1, 0, 0, 0, 1, 0, 0, 1),
     Limit({p}, FALSE, FALSE, 2, 0, 0, 0, 1, 0, 0, 0),
     Limit({a}, FALSE, TRUE, 1, 0, 0, 0, 1, 0, 1, 1)}
=============================================================================
