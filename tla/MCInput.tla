------------------------------ MODULE MCInput ------------------------------
(* Instances of Input for TLC. *)
EXTENDS Input

CONSTANTS d1, d2

Info(v, min, max) == [value |-> v, minimum |-> min, maximum |-> max]

MCTwoDevices == <<d1, d2>>

\* Symmetric, resting at an end, off centre, and centred away from zero
\* (where map() throws).
MCRanges == {Info(0, -2, 2), Info(2, 0, 2), Info(1, -1, 2), Info(1, 0, 2)}
\* Symmetric about zero, with another neutral value.
MCSymmetric == {Info(1, -2, 2)}
MCPolynomials == {<<2, 0, -1>>}

\* The second device only moves.
MCAbsInfo == [d \in {d1, d2} |-> IF d = d1 THEN MCRanges ELSE {}]
MCSymmetricInfo == [d \in {d1, d2} |-> IF d = d1 THEN MCSymmetric ELSE {}]
MCRaw == [d \in {d1, d2} |-> IF d = d1 THEN {-1, 2} ELSE {1}]
MCEvents == [d \in {d1, d2} |-> IF d = d1 THEN 2 ELSE 1]
=============================================================================
