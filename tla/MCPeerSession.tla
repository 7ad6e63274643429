---------------------------- MODULE MCPeerSession ----------------------------
\* Small instances of PeerSession.
EXTENDS PeerSession

CONSTANTS a, b, manualB, k1, k2

TwoNodes == {a, b}
AllNames == {a, b, manualB}
TwoKeys == {k1, k2}

Manual == [n \in Node |-> IF n = b THEN manualB ELSE n]
Keys == [n \in Node |-> k1]

\* a dials once, under the manual name, and nobody knows the other yet.
Zero == [dial |-> [n \in Node |-> IF n = a THEN 1 ELSE 0], restart |-> 0, fail |-> 0, file |-> 0,
         manual |-> TRUE, known |-> {}]
Friends2 == {<<a, b>>}

\* a dials a gateway that knows it, twice, with a restart; the two dial each
\* other; a dials twice; a dials once, with a restart and a failure.
Safety == {
    [Zero EXCEPT !.dial[a] = 2, !.restart = 1, !.known = Friends2],
    [Zero EXCEPT !.dial[b] = 1, !.manual = FALSE],
    [Zero EXCEPT !.dial[a] = 2],
    [Zero EXCEPT !.restart = 1, !.fail = 1]}

\* One link, with every disturbance.
Live == {[Zero EXCEPT !.restart = 1, !.fail = 1, !.file = 1],
         [Zero EXCEPT !.restart = 1, !.fail = 1, !.file = 1, !.known = Friends2]}
==============================================================================
