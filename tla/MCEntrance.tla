----------------------------- MODULE MCEntrance -----------------------------
(* StationEntrance for TLC: both stations, two parts; speeds in tenths. *)
EXTENDS StationEntrance
=============================================================================
