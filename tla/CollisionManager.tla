-------------------------- MODULE CollisionManager --------------------------
(***************************************************************************)
(* The table of reserved corners that the four corner controllers share    *)
(* (collision_manager.py).  Every method runs under one lock, so each is   *)
(* one step whichever thread calls it: the CEP thread or a timer thread.   *)
(*                                                                         *)
(* corner_last_used is kept as the time since the last use, which stops at *)
(* MinInterval: request_corner only asks whether it is below MinInterval,  *)
(* so nothing is lost and the state space needs no bound on time.          *)
(***************************************************************************)
EXTENDS LineLayout

CONSTANT MinInterval   \* min_interval, in ticks of the clock

ASSUME CollisionAssumption == MinInterval \in Nat

VARIABLES corners_occupied,           \* [Corner -> BOOLEAN]
          since_last_used,            \* [Corner -> 0..MinInterval]
          corners_waiting_handshake   \* [Corner -> BOOLEAN]

collisionVars == <<corners_occupied, since_last_used, corners_waiting_handshake>>

CollisionTypeOK ==
  /\ corners_occupied \in [Corner -> BOOLEAN]
  /\ since_last_used \in [Corner -> 0..MinInterval]
  /\ corners_waiting_handshake \in [Corner -> BOOLEAN]

\* corner_last_used starts at the epoch, so every corner is long unused.
CollisionInit ==
  /\ corners_occupied = [c \in Corner |-> FALSE]
  /\ since_last_used = [c \in Corner |-> MinInterval]
  /\ corners_waiting_handshake = [c \in Corner |-> FALSE]

\* Fault: request_corner does not look at the neighbours.
CornerFreeAlone(c) ==
  /\ ~corners_occupied[c]
  /\ since_last_used[c] >= MinInterval

\* The three checks of request_corner.
CornerFree(c) ==
  /\ ~corners_occupied[c]
  /\ since_last_used[c] >= MinInterval
  /\ \A a \in Adjacent(c) : ~corners_occupied[a]

\* request_corner returning True; when it returns False nothing changes.
RequestCorner(c) ==
  /\ CornerFree(c)
  /\ corners_occupied' = [corners_occupied EXCEPT ![c] = TRUE]
  /\ UNCHANGED <<since_last_used, corners_waiting_handshake>>

\* release_corner
ReleaseCorner(c) ==
  /\ corners_occupied' = [corners_occupied EXCEPT ![c] = FALSE]
  /\ since_last_used' = [since_last_used EXCEPT ![c] = 0]
  /\ UNCHANGED corners_waiting_handshake

\* set_handshake_wait
SetHandshakeWait(c) ==
  /\ corners_waiting_handshake' = [corners_waiting_handshake EXCEPT ![c] = TRUE]
  /\ UNCHANGED <<corners_occupied, since_last_used>>

\* clear_handshake_wait
ClearHandshakeWait(c) ==
  /\ corners_waiting_handshake' = [corners_waiting_handshake EXCEPT ![c] = FALSE]
  /\ UNCHANGED <<corners_occupied, since_last_used>>

\* is_conveyor_safe_to_stop: conveyor 1 carries the parts of corner 2 and
\* conveyor 2 those of corner 4.
ConveyorSafeToStop(m) ==
  /\ m = 1 => ~corners_waiting_handshake[2]
  /\ m = 2 => ~corners_waiting_handshake[4]

\* The clock that time.time() reads moves on.
Tick ==
  /\ since_last_used' = [c \in Corner |->
        IF since_last_used[c] < MinInterval THEN since_last_used[c] + 1
                                            ELSE MinInterval]
  /\ UNCHANGED <<corners_occupied, corners_waiting_handshake>>

=============================================================================
