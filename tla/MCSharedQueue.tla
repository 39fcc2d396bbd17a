--------------------------- MODULE MCSharedQueue ----------------------------
(* A small instance of SharedQueue for TLC. *)
EXTENDS SharedQueue
CONSTANTS m1, m2, c1, c2, none

MCMessages == {m1, m2}
MCConsumers == {c1, c2}
MCWaiterModulus == 4
MCMaxPushes == 3
=============================================================================
