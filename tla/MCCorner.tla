------------------------------ MODULE MCCorner ------------------------------
(* CornerController for TLC: speeds in tenths, as in config.yaml; one tick
   of the clock is the min_interval of 2 s. *)
EXTENDS CornerController
=============================================================================
