--------------------------- MODULE SystemShutdown ---------------------------
(***************************************************************************)
(* Start and stop of the whole system: main.py and SystemManager.start and *)
(* stop over the corners, the stations and the motors they share.          *)
(*                                                                         *)
(* The main thread walks through stop() while the CEP thread and the timer *)
(* threads go on.  A signal handler runs in the main thread, calls stop()  *)
(* and exits with SystemExit, so that main's finally clause calls stop()   *)
(* once more; a further signal starts stop() again inside the first call.  *)
(* When the main thread is at its end, the interpreter still waits for     *)
(* every timer thread, none of which is a daemon.                          *)
(*                                                                         *)
(* A row is logged in two steps here: log_event takes the lock of the      *)
(* DataLogger, and gives it back when file and database are written, which *)
(* may take for ever.  What a handler does before its row and after it is  *)
(* the second step.                                                        *)
(*                                                                         *)
(* An operator marked "Fault:" is a mistake the code does not make; put in *)
(* the place of the operator after it, it breaks one of the properties.    *)
(***************************************************************************)
EXTENDS CornerController, Sequences

CONSTANTS Part, NoPart, StationSpeed,   \* as in StationController
          BusyCorners,    \* bound: the corners that parts reach
          BusyStations,   \* bound: the stations that parts reach
          MaxSignals      \* bound: signals received

ASSUME ShutdownAssumption ==
  /\ NoPart \notin Part
  /\ StationSpeed \in Nat \ {0}
  /\ BusyCorners \subseteq Corner
  /\ BusyStations \subseteq Station
  /\ MaxSignals \in Nat

VARIABLES
  station_state, current_part, process_timer, exit_timer, last_row,
  main_pc,       \* where the main thread is
  stop_index,    \* the state machine that stop() comes to next
  stops_left,    \* calls of stop() before the main thread ends
  signals,       \* signals received so far
  cep,           \* the CEP thread: "new", "alive" or "ended"
  cep_running,   \* CEPConsumer.running
  outlived,      \* the CEP thread outlived the last join(timeout=2)
  log_lock       \* DataLogger.lock: who holds it, and for which row

Stations == INSTANCE StationController

partVars     == <<station_state, current_part, process_timer, exit_timer, last_row>>
mainVars     == <<main_pc, stop_index, stops_left, signals, cep, cep_running, outlived>>
shutdownVars == <<cornerVars, partVars, mainVars, log_lock>>

\* The order of stop(): station1, station2, then the corners.
StopOrder == <<<<"station", 1>>, <<"station", 2>>, <<"corner", 1>>,
               <<"corner", 2>>, <<"corner", 3>>, <<"corner", 4>>>>

MainPc == {"ready", "starting", "running", "stop_cep", "join_cep", "stop_fsms",
           "stop_motors", "cleanup", "get_kpis", "print_kpis", "exited"}
MotorsStopped == {"cleanup", "get_kpis", "print_kpis", "exited"}
Stopping == MainPc \ {"ready", "starting", "running", "exited"}

\* The lock is free, or held by main in get_kpis, by the CEP thread for a row
\* of its own or of a handler, or by a timer callback.  It is not reentrant.
Free == <<"free", 0>>
Main == <<"main", 0>>
CepRow == {<<"cep", 0>>} \cup ({"cep_corner"} \X Corner) \cup ({"cep_station"} \X Station)
TimerRow == ({"corner_timer"} \X Corner) \cup ({"station_timer"} \X Station)

ShutdownTypeOK ==
  /\ CornerTypeOK
  /\ Stations!StationTypeOK
  /\ main_pc \in MainPc
  /\ stop_index \in 1..7
  /\ stops_left \in 0..2
  /\ signals \in 0..MaxSignals
  /\ cep \in {"new", "alive", "ended"}
  /\ cep_running \in BOOLEAN
  /\ outlived \in BOOLEAN
  /\ log_lock \in {Free, Main} \cup CepRow \cup TimerRow

\* SystemManager is built and the signal handlers are registered: the
\* conveyors run, the CEP thread does not.
ShutdownInit ==
  /\ CornerInit
  /\ station_state = [s \in Station |-> "idle"]
  /\ current_part = [s \in Station |-> NoPart]
  /\ process_timer = [s \in Station |-> "off"]
  /\ exit_timer = [s \in Station |-> "off"]
  /\ last_row = [s \in Station |-> [activity |-> "EXIT", part |-> NoPart]]
  /\ main_pc = "ready"
  /\ stop_index = 1
  /\ stops_left = 0
  /\ signals = 0
  /\ cep = "new"
  /\ cep_running = FALSE
  /\ outlived = FALSE
  /\ log_lock = Free

-----------------------------------------------------------------------------
(* The main thread up to the call of stop().                               *)

\* main enters its try statement ...
EnterTry ==
  /\ main_pc = "ready"
  /\ main_pc' = "starting"
  /\ UNCHANGED <<cornerVars, partVars, stop_index, stops_left, signals, cep, cep_running, outlived, log_lock>>

\* ... and SystemManager.start starts the readers, which do not matter here,
\* and the CEP consumer, whose run sets the flag.
StartSystem ==
  /\ main_pc = "starting"
  /\ main_pc' = "running"
  /\ cep' = "alive"
  /\ cep_running' = TRUE
  /\ UNCHANGED <<cornerVars, partVars, stop_index, stops_left, signals, outlived, log_lock>>

\* shutdown_handler begins, on top of whatever main was doing: a lock that
\* main holds stays held.  The handler ends in sys.exit, which passes through main's
\* finally clause only if main was inside its try statement.
Signal ==
  /\ signals < MaxSignals
  /\ main_pc # "exited"
  /\ signals' = signals + 1
  /\ stops_left' = CASE main_pc \in Stopping -> stops_left
                     [] main_pc = "ready" -> 1
                     [] OTHER -> 2
  /\ main_pc' = "stop_cep"
  /\ stop_index' = 1
  /\ UNCHANGED <<cornerVars, partVars, cep, cep_running, outlived, log_lock>>

\* An exception in the try statement ends in the finally clause.
FatalError ==
  /\ main_pc \in {"starting", "running"}
  /\ stops_left' = 1
  /\ main_pc' = "stop_cep"
  /\ stop_index' = 1
  /\ UNCHANGED <<cornerVars, partVars, signals, cep, cep_running, outlived, log_lock>>

-----------------------------------------------------------------------------
(* SystemManager.stop.                                                     *)

\* Fault: the finally clause runs once too often.
StopReturnsAgain ==
  /\ stops_left' = stops_left - 1
  /\ main_pc' = IF stops_left >= 0 THEN "stop_cep" ELSE "exited"
  /\ stop_index' = 1

\* One call of stop() is over; the next one, if any, begins.
StopReturns ==
  /\ stops_left' = stops_left - 1
  /\ main_pc' = IF stops_left > 1 THEN "stop_cep" ELSE "exited"
  /\ stop_index' = 1

\* The monitoring thread, which only reads, and cep_consumer.stop
StopCep ==
  /\ main_pc = "stop_cep"
  /\ cep_running' = FALSE
  /\ main_pc' = "join_cep"
  /\ UNCHANGED <<cornerVars, partVars, stop_index, stops_left, signals, cep, outlived, log_lock>>

\* Fault: join has no timeout.
JoinCepForever ==
  /\ main_pc = "join_cep"
  /\ \/ /\ cep = "new"
        /\ StopReturns
     \/ /\ cep = "ended"
        /\ main_pc' = "stop_fsms"
        /\ UNCHANGED <<stop_index, stops_left>>
  /\ outlived' = FALSE
  /\ UNCHANGED <<cornerVars, partVars, signals, cep, cep_running, log_lock>>

\* Fault: nobody waits for the CEP thread.
JoinCepNot ==
  /\ main_pc = "join_cep"
  /\ main_pc' = "stop_fsms"
  /\ UNCHANGED <<cornerVars, partVars, stop_index, stops_left, signals, cep, cep_running, outlived, log_lock>>

\* cep_consumer.join(timeout=2), and the end of the NFC and sensor readers.
\* The CEP thread may take longer, in a database write for instance.  For a
\* thread that was never started join raises RuntimeError: the handler logs
\* it, and the rest of stop() is skipped.
JoinCep ==
  /\ main_pc = "join_cep"
  /\ \/ /\ cep = "new"
        /\ StopReturns
     \/ /\ cep # "new"
        /\ main_pc' = "stop_fsms"
        /\ UNCHANGED <<stop_index, stops_left>>
  /\ outlived' = (cep = "alive")
  /\ UNCHANGED <<cornerVars, partVars, signals, cep, cep_running, log_lock>>

NextFsm ==
  /\ stop_index' = stop_index + 1
  /\ main_pc' = IF stop_index = Len(StopOrder) THEN "stop_motors" ELSE "stop_fsms"

\* StationController.stop: the exit timer is not kept anywhere, and a callback
\* that has begun, the one that is writing its row included, cannot be
\* cancelled.
StopStation(s) ==
  /\ main_pc = "stop_fsms"
  /\ StopOrder[stop_index] = <<"station", s>>
  /\ process_timer' = [process_timer EXCEPT ![s] =
                        IF @ = "armed" /\ log_lock # <<"station_timer", s>> THEN "off" ELSE @]
  /\ throttle' \in StopMotor(throttle, Stations!StationMotor(s))
  /\ NextFsm
  /\ UNCHANGED <<corner_state, timerVars, cep_thread, collisionVars, station_state,
                 current_part, exit_timer, last_row, stops_left, signals, cep, cep_running, outlived, log_lock>>

\* Fault: the corner also gives its reservation back.
StopCornerReleases(c) ==
  /\ main_pc = "stop_fsms"
  /\ StopOrder[stop_index] = <<"corner", c>>
  /\ approach_timer' = [approach_timer EXCEPT ![c] = FALSE]
  /\ handshake_timer' = [handshake_timer EXCEPT ![c] = FALSE]
  /\ throttle' \in StopMotor(throttle, Pusher(c))
  /\ ReleaseCorner(c)
  /\ NextFsm
  /\ UNCHANGED <<corner_state, push_timer, extend_step, timeout_threads, cep_thread,
                 partVars, stops_left, signals, cep, cep_running, outlived, log_lock>>

\* CornerController.stop: the retry timer is not kept anywhere, and a thread
\* inside a callback goes on.
StopCorner(c) ==
  /\ main_pc = "stop_fsms"
  /\ StopOrder[stop_index] = <<"corner", c>>
  /\ approach_timer' = [approach_timer EXCEPT ![c] = FALSE]
  /\ handshake_timer' = [handshake_timer EXCEPT ![c] = FALSE]
  /\ throttle' \in StopMotor(throttle, Pusher(c))
  /\ NextFsm
  /\ UNCHANGED <<corner_state, push_timer, extend_step, timeout_threads, cep_thread,
                 collisionVars, partVars, stops_left, signals, cep, cep_running, outlived, log_lock>>

\* motors.stop_all
StopMotors ==
  /\ main_pc = "stop_motors"
  /\ throttle' \in StopAll(throttle)
  /\ main_pc' = "cleanup"
  /\ UNCHANGED <<corner_state, timerVars, cep_thread, collisionVars, partVars,
                 stop_index, stops_left, signals, cep, cep_running, outlived, log_lock>>

\* The output connections are closed; then print_kpis calls get_kpis, which
\* waits for the logger's lock without a timeout ...
Cleanup ==
  /\ main_pc = "cleanup"
  /\ log_lock = Free
  /\ log_lock' = Main
  /\ main_pc' = "get_kpis"
  /\ UNCHANGED <<cornerVars, partVars, stop_index, stops_left, signals, cep, cep_running, outlived>>

\* ... and gives it back with the copy it has made.
GetKpis ==
  /\ main_pc = "get_kpis"
  /\ log_lock' = Free
  /\ main_pc' = "print_kpis"
  /\ UNCHANGED <<cornerVars, partVars, stop_index, stops_left, signals, cep, cep_running, outlived>>

\* The reports are printed, and stop() is at its end.
PrintKpis ==
  /\ main_pc = "print_kpis"
  /\ StopReturns
  /\ UNCHANGED <<cornerVars, partVars, signals, cep, cep_running, outlived, log_lock>>

-----------------------------------------------------------------------------
(* The other threads.                                                      *)

\* log_event takes the lock and begins to write the row of holder h.
BeginRow(h) ==
  /\ log_lock = Free
  /\ log_lock' = h
  /\ UNCHANGED <<cornerVars, partVars, mainVars>>

\* The row of holder h is written, and log_event returns.
RowWritten(h) ==
  /\ log_lock = h
  /\ log_lock' = Free
  /\ UNCHANGED mainVars

\* The CEP thread begins a row: of an expired event or read, of a pusher at
\* its RET switch, of a part that enters a station or is to be processed ...
CepBeginsRow ==
  /\ cep = "alive"
  /\ cep_thread = 0
  /\ \/ BeginRow(<<"cep", 0>>)
     \/ \E c \in BusyCorners :
          /\ corner_state[c] = "retracting" /\ SensorMayFire(c, <<"RET", c>>)
          /\ BeginRow(<<"cep_corner", c>>)
     \/ \E s \in BusyStations :
          /\ station_state[s] \in {"idle", "entering"}
          /\ BeginRow(<<"cep_station", s>>)

\* ... and goes on, although stop() may have halted the pusher meanwhile.
CepWritesRow ==
  /\ cep = "alive"
  /\ cep_thread = 0
  /\ \/ /\ RowWritten(<<"cep", 0>>)
        /\ UNCHANGED <<cornerVars, partVars>>
     \/ \E c \in BusyCorners :
          /\ RowWritten(<<"cep_corner", c>>)
          /\ HandleRetracting(c, <<"RET", c>>)
          /\ UNCHANGED partVars
     \/ \E s \in BusyStations :
          /\ RowWritten(<<"cep_station", s>>)
          /\ \/ \E p \in Part : Stations!HandleIdle(s, <<"ENTRY", s>>, p)
             \/ Stations!HandleEntering(s, <<"PROCESS", s>>)
          /\ UNCHANGED <<corner_state, timerVars, cep_thread, collisionVars>>

\* Events whose handlers log nothing.
CepDelivers ==
  /\ cep = "alive"
  /\ log_lock \notin CepRow
  /\ \/ /\ \E c \in BusyCorners :
             (corner_state[c] # "retracting" /\ SensorEvent(c)) \/ CepStep(c)
        /\ UNCHANGED partVars
     \/ /\ cep_thread = 0
        /\ \E s \in BusyStations : Stations!HandleAdvancingToExit(s, <<"EXIT", s>>)
        /\ UNCHANGED <<corner_state, timerVars, cep_thread, collisionVars>>
  /\ UNCHANGED <<mainVars, log_lock>>

\* The CEP thread sees the flag at the end of a turn.
CepEnds ==
  /\ cep = "alive"
  /\ cep_thread = 0
  /\ log_lock \notin CepRow
  /\ ~cep_running
  /\ cep' = "ended"
  /\ UNCHANGED <<cornerVars, partVars, main_pc, stop_index, stops_left, signals,
                 cep_running, outlived, log_lock>>

\* The callbacks of a corner; _extend_pusher begins with its row.
CornerTimer(c) ==
  \/ /\ FinalApproachComplete(c) \/ TryPush(c) \/ HandshakeExpires(c) \/ HandshakeTimeout(c)
     /\ UNCHANGED <<partVars, mainVars, log_lock>>
  \/ extend_step[c] /\ BeginRow(<<"corner_timer", c>>)
  \/ /\ RowWritten(<<"corner_timer", c>>)
     /\ ExtendPusher(c)
     /\ UNCHANGED partVars

\* The callbacks of a station, each with a row.
StationTimer(s) ==
  \/ /\ Stations!ProcessingComplete(s) \/ Stations!ExitEnds(s)
     /\ UNCHANGED <<corner_state, timerVars, cep_thread, collisionVars, mainVars, log_lock>>
  \/ /\ process_timer[s] = "armed" \/ exit_timer[s] = "running"
     /\ BeginRow(<<"station_timer", s>>)
  \/ /\ RowWritten(<<"station_timer", s>>)
     /\ Stations!ProcessingEnds(s) \/ Stations!ExitComplete(s)
     /\ UNCHANGED <<corner_state, timerVars, cep_thread, collisionVars>>

TimePasses == ClockTick /\ UNCHANGED <<partVars, mainVars, log_lock>>

MainStep ==
  \/ EnterTry \/ StartSystem
  \/ StopCep \/ JoinCep \/ StopMotors
  \/ Cleanup \/ GetKpis \/ PrintKpis
  \/ \E s \in Station : StopStation(s)
  \/ \E c \in Corner : StopCorner(c)

ShutdownNext ==
  \/ MainStep \/ Signal \/ FatalError
  \/ CepBeginsRow \/ CepWritesRow \/ CepDelivers \/ CepEnds
  \/ \E c \in Corner : CornerTimer(c)
  \/ \E s \in Station : StationTimer(s)
  \/ TimePasses

ShutdownSpec == ShutdownInit /\ [][ShutdownNext]_shutdownVars

\* The main thread runs.  Nothing is said of the CEP thread and the timer
\* threads, which may hang in a write, with the logger's lock or without it.
FairShutdownSpec == ShutdownSpec /\ WF_shutdownVars(MainStep)

-----------------------------------------------------------------------------
(* Properties.                                                             *)

\* After stop_all a motor turns only if a timer thread that stop() cannot
\* cancel has started it: the retry of a refused corner extends a pusher, or
\* a _processing_complete that had begun lets a part out.  The conveyors
\* stand still for good and no pusher moves back, provided that the CEP
\* thread had ended when stop() went on.  main says of its handler "Handle
\* shutdown signals cleanly" (main.py:78).
OnlyLateTimersMove ==
  main_pc \in MotorsStopped /\ cep = "ended" /\ ~outlived =>
    /\ throttle[1] = 0 /\ throttle[2] = 0
    /\ \A c \in Corner : throttle[Pusher(c)] # 0 => corner_state[c] = "extending"
    /\ \A s \in Station :
         throttle[Stations!StationMotor(s)] # 0 => station_state[s] = "advancing_to_exit"

\* Two neighbouring pushers are never out together, also while and after the
\* system is stopped: a pusher that stop() halts half-way keeps its corner
\* reserved, so that no retry timer left behind moves a neighbour into it.
ExclusionSurvivesStop ==
  \A c \in Corner :
    /\ throttle[Pusher(c)] # 0 => InPush(c)
    /\ \A d \in Adjacent(c) : ~(InPush(c) /\ InPush(d))

\* A signal ends the main thread, even if the CEP thread hangs and further
\* signals interrupt stop(): the logger's lock is all that can keep it, when
\* the motors have been stopped already.  Then main waits for ever in
\* get_kpis, for a log_event of another thread that does not return, or for
\* itself, if a signal has interrupted an earlier get_kpis.
SignalEndsMain ==
  signals > 0 ~>
    \/ main_pc = "exited"
    \/ /\ [](main_pc = "cleanup")
       /\ []<>(log_lock # Free)
=============================================================================
