------------------------------ MODULE MCLogged ------------------------------
(* LoggedStations for TLC: both stations, two parts. *)
EXTENDS LoggedStations
=============================================================================
