---------------------------- MODULE MCLargeTransfer ----------------------------
\* Small instances of LargeTransfer.
EXTENDS LargeTransfer

CONSTANTS v1, v2

TwoVersions == {v1, v2}

\* What happens in one behaviour: two versions pushed one after the other or at
\* once, as binary or as text; a lost connection; a pull, and an edit of the
\* receiver; a file that the sender's tables do not know yet.
Zero == [push |-> 1, edit |-> 0, own |-> 0, pull |-> 0, drop |-> 0, text |-> FALSE, known |-> TRUE]
Scenarios == {
    [Zero EXCEPT !.push = 2, !.edit = 1],
    [Zero EXCEPT !.push = 2, !.drop = 1],
    [Zero EXCEPT !.push = 2, !.edit = 1, !.text = TRUE],
    [Zero EXCEPT !.own = 1, !.pull = 1, !.edit = 1],
    [Zero EXCEPT !.own = 1, !.drop = 1],
    [Zero EXCEPT !.push = 2, !.edit = 1, !.known = FALSE]}
OnePatch == {[Zero EXCEPT !.push = 2, !.edit = 1, !.text = TRUE]}
==============================================================================
