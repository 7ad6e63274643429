------------------------------ MODULE MCFileSync ------------------------------
\* Small instances of FileSync.
EXTENDS FileSync

CONSTANTS a, b, c, h1, h2, f

TwoNodes == {a, b}
ThreeNodes == {a, b, c}
OnlyA == {a}
OneFile == {f}
Hashes2 == {h1, h2}

\* Initial directories: nothing anywhere, or one file at a.
Empty == {[n \in Node |-> [p \in Path |-> None]]}
OneAtA == {[n \in Node |-> [p \in Path |-> IF n = a THEN h1 ELSE None]]}
==============================================================================
