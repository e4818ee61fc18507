--------------------------- MODULE PusherExclusion ---------------------------
(***************************************************************************)
(* What the collision manager is for, without saying how: the pushers of   *)
(* two neighbouring corners are never out of their rest positions at the   *)
(* same time ("prevents simultaneous transfers that could collide",        *)
(* collision_manager.py).  CornerController implements it.                 *)
(***************************************************************************)
EXTENDS LineLayout

VARIABLE out   \* the corners whose pusher is away from its rest position

PushInit == out = {}

LeaveRest(c) ==
  /\ c \notin out
  /\ Adjacent(c) \cap out = {}
  /\ out' = out \cup {c}

ComeToRest(c) ==
  /\ c \in out
  /\ out' = out \ {c}

PushNext == \E c \in Corner : LeaveRest(c) \/ ComeToRest(c)

PushSpec == PushInit /\ [][PushNext]_out
=============================================================================
