---------------------------- MODULE MCGroupInbox ----------------------------
(* Small instances of GroupInbox: the groups, and the bounds of the          *)
(* behaviours explored side by side in one run.                              *)
EXTENDS GroupInbox

CONSTANTS g1, g2

Limit(written, joins, msgs, texts, gens, upsets, beside) ==
    [written |-> written, joins |-> joins, msgs |-> msgs, texts |-> texts,
     gens |-> gens, upsets |-> upsets, beside |-> beside]

\* Two messages of one group and a direct message, with an upset; two messages
\* with two upsets; two messages, or one and an upset, and the extension once
\* beside the app; one message with a replacement and an upset; two groups
\* joined, with an upset.
Together ==
    {Limit({g1}, {g1}, 2, 1, 1, 1, 0), Limit({g1}, {g1}, 2, 0, 1, 2, 0),
     Limit({g1}, {g1}, 2, 0, 1, 0, 1), Limit({g1}, {g1}, 1, 0, 1, 1, 1),
     Limit({g1}, {g1}, 1, 0, 2, 1, 0),
     Limit({}, {g1, g2}, 0, 0, 1, 1, 0)}

\* A device that is replaced between two messages.
Replaced == {Limit({g1}, {g1}, 2, 0, 2, 0, 0)}
=============================================================================
