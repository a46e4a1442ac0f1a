---------------------------- MODULE MCCargoHax ------------------------------
(* A workspace of two packages, the first used by the second, and command   *)
(* lines that differ in the directory, the version, --deps and the command. *)
EXTENDS CargoHax

CONSTANTS lib, app

MCNeeds == [c \in Crates |-> IF c = app THEN {lib} \cap Crates ELSE {}]

Line(v, cmd, deps, primary) ==
    [version |-> v, command |-> cmd, deps |-> deps, primary |-> primary]

InApp    == Line("v1", "into", FALSE, {app})
InLib    == Line("v1", "into", FALSE, {lib})
DepsInto == Line("v1", "into", TRUE, {app})
DepsJson == Line("v1", "json", TRUE, {app})
OtherHax == Line("v2", "into", TRUE, {app})

\* One invocation after the other, or together, of every kind.
MCAllConfigs == {InApp, InLib, DepsInto, DepsJson, OtherHax}
=============================================================================
