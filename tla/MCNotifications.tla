---------------------------- MODULE MCNotifications ----------------------------
\* Small instances of Notifications.
EXTENDS Notifications

CONSTANTS u, v, s1

\* An urgent event that expires (peer_pending) and an ordinary one.
TwoKeys == {u, v}
OnlyU == {u}
OnlyS1 == {s1}

\* What happens in one behaviour: a full list, acknowledgements, a restart,
\* each with time to repeat or to expire.
Zero == [tick |-> 2, occur |-> 2, agent |-> 1, ack |-> 0, restart |-> 0]
Scenarios == {
    [Zero EXCEPT !.occur = 3, !.ack = 1, !.agent = 0],
    [Zero EXCEPT !.tick = 1, !.ack = 1],
    [Zero EXCEPT !.tick = 3, !.ack = 1, !.agent = 0],
    [Zero EXCEPT !.tick = 3, !.restart = 1],
    [Zero EXCEPT !.tick = 3]}
==============================================================================
