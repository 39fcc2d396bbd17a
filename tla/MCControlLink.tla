--------------------------- MODULE MCControlLink ---------------------------
(* Instances of ControlLink for TLC.                                       *)
EXTENDS ControlLink, TLC

CONSTANTS zero, one, absent

MCNames == {"drive", "arm", "speed", "turn", "joint", "gps"}
MCValues == {zero, one}

Declared(type, width, neutral, minimum) ==
  [type |-> type, width |-> width,
   limit |-> [l \in Limits |-> CASE l = "neutral" -> neutral
                                        [] l = "minimum" -> minimum
                                        [] OTHER -> absent]]

\* An integer with two limits, a wider float with one, a sensor with none.
MCInputsToAdd ==
  {<<"arm", "turn", Declared("INTEGER", 1, one, zero)>>,
   <<"arm", "joint", Declared("FLOAT", 2, absent, zero)>>}
MCSensorsToAdd == {<<"arm", "gps", Declared("FLOAT", 2, absent, absent)>>}
MCModuleNames == {"drive", "arm"}
=============================================================================
