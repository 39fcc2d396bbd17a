---------------------------- MODULE MCBasicNode -----------------------------
(* Small instances of BasicNode for TLC. *)
EXTENDS BasicNode, TLC
CONSTANTS w1, w2, w3, main, user, none

MCTwoWorkers == {w1, w2}
MCThreeWorkers == {w1, w2, w3}
MCOneCaller == {user}
MCNobody == {}
MCNoErrors == {}
MCAnyError == {"error", "try_again"}
\* The workers are interchangeable; used for safety only.
WorkerSymmetry == Permutations(Workers)
=============================================================================
