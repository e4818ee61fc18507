---------------------------- MODULE CornerArrival ----------------------------
(***************************************************************************)
(* The corners together with the parts that reach a corner at the end of a *)
(* main conveyor.  The barrier there reports a part on the edge: a part    *)
(* whose event the corner drops is not reported again.                     *)
(***************************************************************************)
EXTENDS CornerController

VARIABLE overlooked   \* overlooked[c]: a part was reported to the idle corner c
                      \*   and its conveyor could not be stopped

arrivalVars == <<cornerVars, overlooked>>

ArrivalInit == CornerInit /\ overlooked = [c \in FedByConveyor |-> FALSE]

\* process_event with the POS event of a new part, at an idle corner.
PartReported(c) ==
  /\ cep_thread = 0
  /\ corner_state[c] = "idle"
  /\ \/ /\ HandleIdle(c, <<"POS", c>>)
        /\ overlooked' = [overlooked EXCEPT ![c] = FALSE]
     \/ /\ ~ConveyorSafeToStop(FeedMotor(c))
        /\ overlooked' = [overlooked EXCEPT ![c] = TRUE]
        /\ UNCHANGED cornerVars

\* Any other step of the corners.
CornerMoves ==
  /\ \/ \E c \in Corner \ FedByConveyor : SensorEvent(c)
     \/ \E c \in FedByConveyor :
          \E b \in {<<"EXT", c>>, <<"RET", c>>, confirmation_sensor(c)} :
            SensorMayFire(c, b) /\ ProcessEvent(c, b)
     \/ \E c \in Corner : CepStep(c) \/ TimerStep(c)
     \/ ClockTick
  /\ UNCHANGED overlooked

ArrivalNext == (\E c \in FedByConveyor : PartReported(c)) \/ CornerMoves

FairArrivalSpec == ArrivalInit /\ [][ArrivalNext]_arrivalVars /\ CornerFairness

\* A part that finds its conveyor busy is taken later ("Conveyor busy,
\* waiting...", corner_controller.py:156).
WaitingPartTaken == \A c \in FedByConveyor : overlooked[c] ~> ~overlooked[c]
=============================================================================
