------------------------------ MODULE MCRouting ------------------------------
(* CornerRouting for TLC: speeds in tenths, as in config.yaml. *)
EXTENDS CornerRouting
=============================================================================
