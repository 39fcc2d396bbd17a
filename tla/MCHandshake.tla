---------------------------- MODULE MCHandshake -----------------------------
(* Two nodes, one of them owned by run(), the other one launched only. *)
EXTENDS Handshake
CONSTANTS left, right
MCProtocols == {"CRISP", "other"}
MCVersions == {1, 2}
MCRunning == {left}
\* Protocols, versions and roles are only compared for equality, so what the
\* left node says of itself may be fixed.
MCInit ==
  /\ Init
  /\ hello[Left] = [type |-> "HANDSHAKE", protocol |-> "CRISP", version |-> 1,
                    role |-> "MASTER"]
MCSpec == MCInit /\ [][Next]_vars /\ Fairness
=============================================================================
