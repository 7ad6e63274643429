------------------------------ MODULE MCRequests ------------------------------
\* Small instances of Requests.
EXTENDS Requests

CONSTANTS a, b, c, r1, c1, c2, f, g

ThreeNodes == {a, b, c}

AB == {{a, b}}
Star == {{a, b}, {a, c}}
OnlyA == {a}
OnlyB == {b}
OneId == {r1}
TwoCaps == {c1, c2}
TwoFiles == {f, g}

\* What happens in one behaviour: requests under the users' ids, advertised
\* capabilities, or file comparisons, each with its disturbances.
Zero == [links |-> AB, connect |-> 2, drop |-> 1, stop |-> 0, advertise |-> 0, ask |-> 0, diff |-> 0]
Scenarios == {
    [Zero EXCEPT !.links = Star, !.drop = 0, !.ask = 2],
    [Zero EXCEPT !.ask = 2],
    [Zero EXCEPT !.drop = 0, !.stop = 1, !.ask = 1],
    [Zero EXCEPT !.connect = 1, !.drop = 0, !.advertise = 3],
    [Zero EXCEPT !.advertise = 1],
    [Zero EXCEPT !.drop = 0, !.stop = 1, !.advertise = 1],
    [Zero EXCEPT !.drop = 0, !.stop = 1, !.diff = 1],
    [Zero EXCEPT !.connect = 1, !.diff = 1]}
==============================================================================
