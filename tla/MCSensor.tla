------------------------------- MODULE MCSensor -------------------------------
(* SensorReader for TLC: a pin with one barrier and a pin with two, and the
   two end switches of a pusher. *)
EXTENDS SensorReader

MCGpioPin == {<<"ENTRY", 1>>, <<"EXIT", 1>>}
MCMcpPin  == <<<<"RET", 1>>, <<"EXT", 1>>>>
=============================================================================
