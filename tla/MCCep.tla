-------------------------------- MODULE MCCep --------------------------------
(* CEPConsumer for TLC: an entry barrier that needs a read, a barrier that
   does not, and a conveyor barrier without a state machine. *)
EXTENDS CEPConsumer

MCGpioBarrier == {<<"ENTRY", 1>>, <<"EXIT", 1>>}
MCMcpBarrier  == {<<"START", 1>>}
=============================================================================
