---------------------------- MODULE MCDmDispatch ----------------------------
(* Small instances of DmDispatch: the senders, and the bounds of the         *)
(* behaviours that are explored side by side in one run.                     *)
EXTENDS DmDispatch

CONSTANTS s1, s2

Limit(by, who, texts, replaced, faulty) ==
    [from |-> by, linked |-> who, sends |-> texts, regs |-> replaced, faults |-> faulty]

\* Two senders at one pool; two devices of which one is replaced between or
\* during two messages; one message, one registration and one fault anywhere;
\* two messages and one fault.
SideBySide == {Limit({s1, s2}, {1}, 2, 0, 0), Limit({s1}, {1, 2}, 2, 1, 0),
               Limit({s1}, {1, 2}, 1, 1, 1), Limit({s1}, {1}, 2, 0, 1)}
=============================================================================
