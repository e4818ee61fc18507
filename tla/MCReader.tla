------------------------------- MODULE MCReader -------------------------------
(* NFCReader for TLC: parts follow one another at the entrance of station 1. *)
EXTENDS NFCReader

MCGpioBarrier == {<<"ENTRY", 1>>}
=============================================================================
