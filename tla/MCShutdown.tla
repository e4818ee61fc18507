----------------------------- MODULE MCShutdown -----------------------------
(* SystemShutdown for TLC: two neighbouring corners, one station and one
   part; speeds in tenths. *)
EXTENDS SystemShutdown
=============================================================================
