-------------------------- MODULE StationController --------------------------
(***************************************************************************)
(* The two station state machines (station_controller.py) and the rows     *)
(* they write to the event log.                                            *)
(*                                                                         *)
(* The CEP thread calls process_event; _processing_complete and            *)
(* _exit_complete run in timer threads.  Both callbacks call log_event, a  *)
(* file and an InfluxDB write, between two changes that the CEP thread can *)
(* see, so each is two steps: a timer is "off", "armed", or "running" its  *)
(* callback.  log_event may raise; the row is then missing and the handler *)
(* or callback ends there, for the CEP thread and the timer threads drop   *)
(* the exception.                                                          *)
(*                                                                         *)
(* An operator marked "Fault:" is a mistake the code does not make; put in *)
(* the place of the operator after it, it breaks one of the properties.    *)
(***************************************************************************)
EXTENDS LineLayout, MotorController

CONSTANTS Part,          \* NFC tags
          NoPart,        \* Python's None
          StationSpeed,  \* motors.station_speed
          LogFaults      \* TRUE: DataLogger.log_event may raise

ASSUME StationAssumption ==
  /\ NoPart \notin Part
  /\ StationSpeed \in Nat \ {0}
  /\ LogFaults \in BOOLEAN

VARIABLES
  station_state,   \* StationController.state
  current_part,    \* StationController.current_part
  process_timer,   \* the timer of _start_processing
  exit_timer,      \* the timer of _handle_advancing_to_exit
  last_row         \* the last row that the station itself has logged

stationVars == <<station_state, current_part, process_timer, exit_timer, last_row, throttle>>

StationState == {"idle", "entering", "processing", "advancing_to_exit", "exiting"}
TimerState   == {"off", "armed", "running"}
Activity     == {"ENTER", "PROCESS_START", "PROCESS_END", "EXIT"}
Row          == [activity : Activity, part : Part]

\* ADVANCING_TO_PROCESS is declared in the code but never entered.  Before the
\* first row the log counts as ended by an EXIT.
StationTypeOK ==
  /\ station_state \in [Station -> StationState]
  /\ current_part \in [Station -> Part \cup {NoPart}]
  /\ process_timer \in [Station -> TimerState]
  /\ exit_timer \in [Station -> TimerState]
  /\ last_row \in [Station -> Row \cup {[activity |-> "EXIT", part |-> NoPart]}]
  /\ MotorTypeOK

StationMotor(s) == 2 + s

\* Station 2 runs in the reverse direction.
MotorSpeed(s) == IF s = 1 THEN StationSpeed ELSE -StationSpeed

StationInit ==
  /\ station_state = [s \in Station |-> "idle"]
  /\ current_part = [s \in Station |-> NoPart]
  /\ process_timer = [s \in Station |-> "off"]
  /\ exit_timer = [s \in Station |-> "off"]
  /\ last_row = [s \in Station |-> [activity |-> "EXIT", part |-> NoPart]]
  /\ throttle = AllStopped

EnterState(s, st) == station_state' = [station_state EXCEPT ![s] = st]

\* DataLogger.log_event(part, station_id, activity) returning.  The rows
\* ERROR_GHOST_NFC that the CEP thread writes under the same station_id
\* (cep_consumer.py:254) are no rows of the station.
LogRow(s, act, p) == last_row' = [last_row EXCEPT ![s] = [activity |-> act, part |-> p]]

-----------------------------------------------------------------------------
(* process_event: barrier b with the part id p that fusion gave it.        *)

\* _handle_idle.  Without a part id the event is logged as an error and
\* nothing else happens; when the ENTER row fails the part is noted but the
\* station stays idle.
HandleIdle(s, b, p) ==
  /\ station_state[s] = "idle"
  /\ b = <<"ENTRY", s>>
  /\ p # NoPart
  /\ current_part' = [current_part EXCEPT ![s] = p]
  /\ \/ /\ LogRow(s, "ENTER", p)
        /\ throttle' \in SetSpeed(throttle, StationMotor(s), MotorSpeed(s))
        /\ EnterState(s, "entering")
     \/ LogFaults /\ UNCHANGED <<last_row, throttle, station_state>>
  /\ UNCHANGED <<process_timer, exit_timer>>

\* Fault: the part is processed on a moving belt.
HandleEnteringNoStop(s, b) ==
  /\ station_state[s] = "entering"
  /\ b = <<"PROCESS", s>>
  /\ LogRow(s, "PROCESS_START", current_part[s])
  /\ EnterState(s, "processing")
  /\ process_timer' = [process_timer EXCEPT ![s] = "armed"]
  /\ UNCHANGED <<throttle, current_part, exit_timer>>

\* _handle_entering and _start_processing.  Jitter on ENTRY is ignored.
HandleEntering(s, b) ==
  /\ station_state[s] = "entering"
  /\ b = <<"PROCESS", s>>
  /\ throttle' \in StopMotor(throttle, StationMotor(s))
  /\ \/ /\ LogRow(s, "PROCESS_START", current_part[s])
        /\ EnterState(s, "processing")
        /\ process_timer' = [process_timer EXCEPT ![s] = "armed"]
     \/ LogFaults /\ UNCHANGED <<last_row, station_state, process_timer>>
  /\ UNCHANGED <<current_part, exit_timer>>

\* Fault: the belt stops and no exit timer is started.
HandleAdvancingToExitNoTimer(s, b) ==
  /\ station_state[s] = "advancing_to_exit"
  /\ b = <<"EXIT", s>>
  /\ throttle' \in StopMotor(throttle, StationMotor(s))
  /\ EnterState(s, "exiting")
  /\ UNCHANGED <<current_part, process_timer, exit_timer, last_row>>

\* _handle_advancing_to_exit: the belt keeps running for the exit timer's
\* second, to clear the sensor.
HandleAdvancingToExit(s, b) ==
  /\ station_state[s] = "advancing_to_exit"
  /\ b = <<"EXIT", s>>
  /\ \E th \in StopMotor(throttle, StationMotor(s)) :
        throttle' \in SetSpeed(th, StationMotor(s), MotorSpeed(s))
  /\ EnterState(s, "exiting")
  /\ exit_timer' = [exit_timer EXCEPT ![s] = "armed"]
  /\ UNCHANGED <<current_part, process_timer, last_row>>

\* PROCESSING and EXITING ignore every event, and so does every state an
\* event it does not name.
ProcessEvent(s, b, p) ==
  \/ HandleIdle(s, b, p)
  \/ HandleEntering(s, b)
  \/ HandleAdvancingToExit(s, b)

-----------------------------------------------------------------------------
(* The timer callbacks.                                                    *)

\* _processing_complete up to its row ...
ProcessingEnds(s) ==
  /\ process_timer[s] = "armed"
  /\ \/ /\ LogRow(s, "PROCESS_END", current_part[s])
        /\ process_timer' = [process_timer EXCEPT ![s] = "running"]
     \/ /\ LogFaults
        /\ process_timer' = [process_timer EXCEPT ![s] = "off"]
        /\ UNCHANGED last_row
  /\ UNCHANGED <<station_state, current_part, exit_timer, throttle>>

\* ... and the rest of it.
ProcessingComplete(s) ==
  /\ process_timer[s] = "running"
  /\ process_timer' = [process_timer EXCEPT ![s] = "off"]
  /\ throttle' \in SetSpeed(throttle, StationMotor(s), MotorSpeed(s))
  /\ EnterState(s, "advancing_to_exit")
  /\ UNCHANGED <<current_part, exit_timer, last_row>>

\* _exit_complete up to its row ...
ExitEnds(s) ==
  /\ exit_timer[s] = "armed"
  /\ exit_timer' = [exit_timer EXCEPT ![s] = "running"]
  /\ throttle' \in StopMotor(throttle, StationMotor(s))
  /\ UNCHANGED <<station_state, current_part, process_timer, last_row>>

\* Fault: the part is forgotten before its row is written.
ExitForgetsFirst(s) ==
  /\ exit_timer[s] = "running"
  /\ exit_timer' = [exit_timer EXCEPT ![s] = "off"]
  /\ current_part' = [current_part EXCEPT ![s] = NoPart]
  /\ EnterState(s, "idle")
  /\ UNCHANGED <<process_timer, throttle, last_row>>

\* ... and the rest of it.  When the row fails the station stays EXITING.
ExitComplete(s) ==
  /\ exit_timer[s] = "running"
  /\ exit_timer' = [exit_timer EXCEPT ![s] = "off"]
  /\ \/ /\ IF current_part[s] # NoPart THEN LogRow(s, "EXIT", current_part[s])
                                       ELSE UNCHANGED last_row
        /\ current_part' = [current_part EXCEPT ![s] = NoPart]
        /\ EnterState(s, "idle")
     \/ LogFaults /\ UNCHANGED <<last_row, current_part, station_state>>
  /\ UNCHANGED <<process_timer, throttle>>

-----------------------------------------------------------------------------
\* A sensor of the station may report at any time; fusion gives an ENTRY
\* event a part and every other event none.
SensorEvent(s) ==
  \/ \E p \in Part : ProcessEvent(s, <<"ENTRY", s>>, p)
  \/ \E k \in {"PROCESS", "EXIT"} : ProcessEvent(s, <<k, s>>, NoPart)

TimerStep(s) ==
  ProcessingEnds(s) \/ ProcessingComplete(s) \/ ExitEnds(s) \/ ExitComplete(s)

StationNext == \E s \in Station : SensorEvent(s) \/ TimerStep(s)

StationSpec == StationInit /\ [][StationNext]_stationVars

\* The timer threads run, and a part on a running belt reaches the next
\* sensor; the CEP thread takes its event from a FIFO queue.
BeltMoves(s) ==
  /\ throttle[StationMotor(s)] # 0
  /\ HandleEntering(s, <<"PROCESS", s>>) \/ HandleAdvancingToExit(s, <<"EXIT", s>>)

StationFairness ==
  \A s \in Station : WF_stationVars(TimerStep(s)) /\ WF_stationVars(BeltMoves(s))

-----------------------------------------------------------------------------
(* Properties.                                                             *)

\* The rows that may follow each other in the log of a station.
Follows == {<<"EXIT", "ENTER">>, <<"ENTER", "PROCESS_START">>,
            <<"PROCESS_START", "PROCESS_END">>, <<"PROCESS_END", "EXIT">>}

\* Traceability: in the rows a station logs every part is entered, processed
\* and let out, in this order and without a gap, before the next part is
\* entered; a row that fails to be written does not lead to a log with a
\* hole in it (log_event of _handle_idle, _handle_entering,
\* _processing_complete, _exit_complete).
TraceHasNoGap ==
  [][\A s \in Station : last_row'[s] # last_row[s] =>
        /\ <<last_row[s].activity, last_row'[s].activity>> \in Follows
        /\ last_row'[s].activity # "ENTER" => last_row'[s].part = last_row[s].part]_stationVars

\* The part a busy station holds is the one its log names, the last row is
\* the one that belongs to the state, and each pending timer belongs to the
\* state that started it: no callback acts on a part other than its own.
StationConsistent ==
  \A s \in Station :
    /\ station_state[s] # "idle" =>
         current_part[s] \in Part /\ last_row[s].part = current_part[s]
    /\ process_timer[s] # "off" => station_state[s] = "processing"
    /\ exit_timer[s] # "off" => station_state[s] = "exiting"
    /\ last_row[s].activity = "EXIT" <=> station_state[s] = "idle"
    /\ last_row[s].activity = "ENTER" <=> station_state[s] = "entering"
    /\ last_row[s].activity = "PROCESS_START" <=>
         station_state[s] = "processing" /\ process_timer[s] # "running"

\* The belt of a station stands still while a part is processed, while the
\* station is empty, and from the moment the exit timer fires (stop in
\* _handle_entering and _exit_complete).
BeltStandsStill ==
  \A s \in Station :
    throttle[StationMotor(s)] # 0 =>
      \/ station_state[s] \in {"entering", "advancing_to_exit"}
      \/ station_state[s] = "exiting" /\ exit_timer[s] = "armed"
=============================================================================
