---------------------------- MODULE MCScheduler ----------------------------
(* Instances of Scheduler for TLC. *)
EXTENDS Scheduler, TLC

CONSTANTS a1, a2, k1, s1, w1, w2, u1, none

MCTwoActions == {a1, a2}
MCOneAction == {a1}
MCOneTimer == {k1}
MCNone == {}
MCSlot == {s1}
MCTwoWorkers == {w1, w2}
MCUser == {u1}
=============================================================================
