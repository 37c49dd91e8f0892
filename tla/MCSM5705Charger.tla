-------------------------- MODULE MCSM5705Charger ---------------------------
(* Small instances of SM5705Charger for TLC. *)
EXTENDS SM5705Charger

Off      == [online |-> FALSE, uv |-> 0, ua |-> 0, pd |-> FALSE]
TypeC3A  == [online |-> TRUE, uv |-> 5000000, ua |-> 3000000, pd |-> FALSE]
Pd9V     == [online |-> TRUE, uv |-> 9000000, ua |-> 1670000, pd |-> TRUE]

NoCable      == {{}}
AfcCables    == {{}, {"DCP"}, {"FAST", "DCP"}}
\* The MUIC reports SDP before it withdraws DCP.
TornCables   == {{}, {"SDP", "DCP"}, {"FAST", "DCP"}}
NoSupply     == {Off}
OneSupply    == {Off, TypeC3A}
PdSupplies   == {Off, TypeC3A, Pd9V}
SomeTemps    == {-10, 100, 300, 420, 505}
HotTemps     == {300, 505}
RoomTemp     == {300}
=============================================================================
