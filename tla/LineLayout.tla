----------------------------- MODULE LineLayout -----------------------------
(***************************************************************************)
(* The sensors of the line, the place each one reports, and the state      *)
(* machine the CEP consumer hands its events to (sensor_reader.py,         *)
(* system_manager.py, corner_controller.py, collision_manager.py).         *)
(*                                                                         *)
(* A barrier id such as 'S1_ENTRY', 'CORNER3_EXT' or 'M2_START' is the     *)
(* pair of its kind and its number: <<"ENTRY", 1>>, <<"EXT", 3>>,          *)
(* <<"START", 2>>.                                                         *)
(***************************************************************************)
EXTENDS Integers

Corner   == 1..4
Station  == 1..2
Conveyor == 1..2

StationKind  == {"ENTRY", "PROCESS", "EXIT"}
CornerKind   == {"POS", "RET", "EXT"}
ConveyorKind == {"START"}

StationBarrier  == StationKind \X Station
CornerBarrier   == CornerKind \X Corner
ConveyorBarrier == ConveyorKind \X Conveyor
Barrier         == StationBarrier \cup CornerBarrier \cup ConveyorBarrier

\* BARRIER_TO_LOCATION and MCP_BARRIER_TO_LOCATION: the place a sensor event
\* names in its location_type and location_id.
Location(b) ==
  CASE b[1] \in StationKind  -> <<"station", b[2]>>
    [] b[1] \in CornerKind   -> <<"corner", b[2]>>
    [] b[1] \in ConveyorKind -> <<"conveyor", b[2]>>

\* The keys of SystemManager.fsm_map: six state machines, none of them for a
\* conveyor.
fsm_map == ({"station"} \X Station) \cup ({"corner"} \X Corner)

\* CEPConsumer._is_entry_barrier: these events wait for an NFC read.
IsEntryBarrier(b) == b[1] = "ENTRY"

\* CornerController.confirmation_sensor: the sensor behind the corner, which
\* the pushed part is to reach before the pusher retracts.
confirmation_sensor(c) ==
  CASE c = 1 -> <<"ENTRY", 1>>
    [] c = 2 -> <<"START", 1>>
    [] c = 3 -> <<"ENTRY", 2>>
    [] c = 4 -> <<"START", 2>>

\* Fault: the ring is not closed at corner 4.
AdjacentOpenRing(c) ==
  CASE c = 1 -> {2, 4}
    [] c = 2 -> {1, 3}
    [] c = 3 -> {2, 4}
    [] c = 4 -> {3}

\* CollisionManager._get_adjacent_corners
Adjacent(c) ==
  CASE c = 1 -> {2, 4}
    [] c = 2 -> {1, 3}
    [] c = 3 -> {2, 4}
    [] c = 4 -> {1, 3}

=============================================================================
