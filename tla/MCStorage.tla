----------------------------- MODULE MCStorage -----------------------------
(* Instances of Storage for TLC. *)
EXTENDS Storage, TLC

CONSTANTS x, y, b, c, d1, d2, d3, user, v1, v2, byte, garbage, null

MCArrays == {x, y}
MCBuffers == {b, c}
MCBlocks == {d1, d2, d3}
MCValues == {v1, v2}
MCSymmetry == Permutations(MCArrays) \cup Permutations(MCBuffers)

\* Arrays and buffers only share the heap: arrays live, or buffers, or neither.
MCOneKind == (\A a \in Arrays : ~arr[a].live) \/ (\A a \in Buffers : ~buf[a].live)
=============================================================================
