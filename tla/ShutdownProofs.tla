--------------------------- MODULE ShutdownProofs ---------------------------
(***************************************************************************)
(* Theorems about the stop of the whole system, for every set of corners   *)
(* and stations in use and any number of signals.                          *)
(*                                                                         *)
(* A step of ShutdownNext is a step of the corners, the late end of a      *)
(* retraction, a step of a station, one of the three writes that stop()    *)
(* makes to the motors, or a step that only moves the main thread, the CEP *)
(* thread or the logger's lock.  The first kind is left to CornerProofs,   *)
(* whose invariant was stated so that cancelled timers do not break it.    *)
(***************************************************************************)
EXTENDS SystemShutdown, CornerProofs

USE DEF Corner, Station, Motor, Stations!Station, Stations!Motor

-----------------------------------------------------------------------------
(* A station under stop().                                                 *)

\* The stations write the motors through the same set_speed as the corners,
\* each its own belt: neither a conveyor nor a pusher.
LEMMA BeltWrites ==
  /\ \A th, m, speed : Stations!SetSpeed(th, m, speed) = SetSpeed(th, m, speed)
  /\ \A th, m : Stations!StopMotor(th, m) = SetSpeed(th, m, 0)
  /\ \A s \in Station : /\ Stations!StationMotor(s) \in Motor
                        /\ Stations!StationMotor(s) \in 3..4
                        /\ Stations!MotorSpeed(s) \in Int
  /\ \A s, r \in Station : s # r => Stations!StationMotor(s) # Stations!StationMotor(r)
<1>1. \A speed : Stations!Clamp(speed) = Clamp(speed)
  BY DEF Stations!Clamp, Clamp
<1>2. \A th, m, speed : Stations!SetSpeed(th, m, speed) = SetSpeed(th, m, speed)
  BY <1>1 DEF Stations!SetSpeed, SetSpeed
<1>3. \A th, m : Stations!StopMotor(th, m) = SetSpeed(th, m, 0)
  BY <1>2 DEF Stations!StopMotor
<1>4. \A s \in Station : Stations!MotorSpeed(s) \in Int
  BY ShutdownAssumption DEF Stations!MotorSpeed
<1> QED BY <1>2, <1>3, <1>4
        DEF Stations!StationMotor

\* A write to a belt leaves well-formed settings and every other motor alone.
LEMMA BeltEffect ==
  ASSUME NEW th \in [Motor -> -FullSpeed..FullSpeed], NEW s \in Station,
         NEW speed \in Int, NEW t \in SetSpeed(th, Stations!StationMotor(s), speed)
  PROVE  /\ t \in [Motor -> -FullSpeed..FullSpeed]
         /\ \A m \in Motor : m # Stations!StationMotor(s) => t[m] = th[m]
         /\ ~HatFaults /\ speed = 0 => t[Stations!StationMotor(s)] = 0
<1>1. Clamp(0) = 0
  BY MotorAssumption DEF Clamp
<1> QED BY <1>1, BeltWrites, SetSpeedEffect

StationKept == Stations!StationTypeOK /\ Stations!StationConsistent

\* What a handler or callback of station s writes to the motors.
BeltStep(s) ==
  /\ MotorTypeOK'
  /\ \A m \in Motor : m # Stations!StationMotor(s) => throttle'[m] = throttle[m]

\* A handler or callback of a station writes its own belt at most.
LEMMA StationWrites ==
  ASSUME MotorTypeOK, NEW s \in Station, Stations!SensorEvent(s) \/ Stations!TimerStep(s)
  PROVE  BeltStep(s)
<1> USE BeltWrites DEF MotorTypeOK, BeltStep
<1>1. ASSUME NEW b, NEW p, Stations!HandleIdle(s, b, p) PROVE BeltStep(s)
  <2>1. CASE UNCHANGED throttle
    BY <2>1
  <2>2. CASE throttle' \in SetSpeed(throttle, Stations!StationMotor(s), Stations!MotorSpeed(s))
    BY <2>2, BeltEffect
  <2> QED BY <1>1, <2>1, <2>2 DEF Stations!HandleIdle
<1>2. ASSUME NEW b, Stations!HandleEntering(s, b) PROVE BeltStep(s)
  <2>1. throttle' \in SetSpeed(throttle, Stations!StationMotor(s), 0)
    BY <1>2 DEF Stations!HandleEntering
  <2> QED BY <2>1, BeltEffect
<1>3. ASSUME NEW b, Stations!HandleAdvancingToExit(s, b) PROVE BeltStep(s)
  <2>1. PICK th \in SetSpeed(throttle, Stations!StationMotor(s), 0) :
          throttle' \in SetSpeed(th, Stations!StationMotor(s), Stations!MotorSpeed(s))
    BY <1>3 DEF Stations!HandleAdvancingToExit
  <2>2. /\ th \in [Motor -> -FullSpeed..FullSpeed]
        /\ \A m \in Motor : m # Stations!StationMotor(s) => th[m] = throttle[m]
    BY <2>1, BeltEffect
  <2> QED BY <2>1, <2>2, BeltEffect
<1>4. CASE Stations!TimerStep(s)
  <2>1. CASE Stations!ProcessingComplete(s)
    BY <2>1, BeltEffect DEF Stations!ProcessingComplete
  <2>2. CASE Stations!ExitEnds(s)
    <3>1. throttle' \in SetSpeed(throttle, Stations!StationMotor(s), 0)
      BY <2>2 DEF Stations!ExitEnds
    <3> QED BY <3>1, BeltEffect
  <2>3. CASE Stations!ProcessingEnds(s) \/ Stations!ExitComplete(s)
    BY <2>3 DEF Stations!ProcessingEnds, Stations!ExitComplete
  <2> QED BY <1>4, <2>1, <2>2, <2>3 DEF Stations!TimerStep
<1>5. ASSUME NEW b, NEW p, Stations!ProcessEvent(s, b, p) PROVE BeltStep(s)
  BY <1>1, <1>2, <1>3, <1>5 DEF Stations!ProcessEvent
<1> QED BY <1>4, <1>5 DEF Stations!SensorEvent

\* A handler or callback keeps the station, its timers and its log in
\* agreement, also after stop() has cancelled its processing timer.
LEMMA StationStepKept ==
  ASSUME MotorTypeOK, StationKept, NEW s \in Station,
         Stations!SensorEvent(s) \/ Stations!TimerStep(s)
  PROVE  StationKept'
<1>0. Stations!MotorTypeOK'
  BY StationWrites DEF BeltStep, MotorTypeOK, Stations!MotorTypeOK
<1> USE <1>0, ShutdownAssumption
    DEF StationKept, Stations!StationTypeOK, Stations!StationConsistent,
        Stations!StationState, Stations!TimerState, Stations!Activity, Stations!Row,
        Stations!EnterState, Stations!LogRow
<1>1. ASSUME NEW p \in Part, NEW b, Stations!HandleIdle(s, b, p) PROVE StationKept'
  BY <1>1 DEF Stations!HandleIdle
<1>2. ASSUME NEW b, Stations!HandleEntering(s, b) PROVE StationKept'
  BY <1>2 DEF Stations!HandleEntering
<1>3. ASSUME NEW b, Stations!HandleAdvancingToExit(s, b) PROVE StationKept'
  BY <1>3 DEF Stations!HandleAdvancingToExit
<1>4. CASE Stations!ProcessingEnds(s)
  BY <1>4 DEF Stations!ProcessingEnds
<1>5. CASE Stations!ProcessingComplete(s)
  BY <1>5 DEF Stations!ProcessingComplete
<1>6. CASE Stations!ExitEnds(s)
  BY <1>6 DEF Stations!ExitEnds
<1>7. CASE Stations!ExitComplete(s)
  BY <1>7 DEF Stations!ExitComplete
<1>8. ~Stations!HandleIdle(s, <<"PROCESS", s>>, NoPart) /\ ~Stations!HandleIdle(s, <<"EXIT", s>>, NoPart)
  BY DEF Stations!HandleIdle
<1> QED BY <1>1, <1>2, <1>3, <1>4, <1>5, <1>6, <1>7, <1>8
        DEF Stations!SensorEvent, Stations!ProcessEvent, Stations!TimerStep


-----------------------------------------------------------------------------
(* The steps of ShutdownNext by what they touch.                           *)

CornerMoves ==
  /\ CornerNext
  /\ cep = "alive" \/ ClockTick \/ \E c \in Corner : TimerStep(c)
  /\ UNCHANGED <<partVars, mainVars>>

StationMoves(s) ==
  /\ (cep = "alive" /\ Stations!SensorEvent(s)) \/ Stations!TimerStep(s)
  /\ UNCHANGED <<corner_state, timerVars, cep_thread, collisionVars, mainVars>>

Halts ==
  \/ StopMotors
  \/ \E s \in Station : StopStation(s)
  \/ \E c \in Corner : StopCorner(c)

ThreadMoves ==
  \/ EnterTry \/ StartSystem \/ Signal \/ FatalError
  \/ StopCep \/ JoinCep \/ Cleanup \/ GetKpis \/ PrintKpis \/ CepEnds

\* A step that only takes or frees the logger's lock, for a row that is begun
\* or that no handler writes.
RowMoves ==
  /\ log_lock' \in {Free} \cup CepRow \cup TimerRow
  /\ UNCHANGED <<cornerVars, partVars, mainVars>>

\* The CEP thread finishes with a pusher at its RET switch, which stop() may
\* have halted meanwhile.
LateRetract ==
  /\ cep = "alive" /\ cep_thread = 0
  /\ \E c \in Corner : HandleRetracting(c, <<"RET", c>>)
  /\ UNCHANGED <<partVars, mainVars>>

\* Every step is of one of these kinds.
LEMMA StepKinds ==
  ShutdownNext => \/ CornerMoves \/ (\E s \in Station : StationMoves(s))
                  \/ LateRetract \/ Halts \/ ThreadMoves \/ RowMoves
<1>1. CepDelivers => CornerMoves \/ \E s \in Station : StationMoves(s)
  <2>1. ASSUME CepDelivers, NEW c \in BusyCorners, SensorEvent(c) \/ CepStep(c), UNCHANGED partVars
        PROVE  CornerMoves
    BY <2>1, ShutdownAssumption DEF CepDelivers, CornerMoves, CornerNext
  <2>2. ASSUME CepDelivers, NEW s \in BusyStations,
               Stations!HandleAdvancingToExit(s, <<"EXIT", s>>),
               UNCHANGED <<corner_state, timerVars, cep_thread, collisionVars>>
        PROVE  StationMoves(s)
    BY <2>2 DEF CepDelivers, StationMoves, Stations!SensorEvent, Stations!ProcessEvent
  <2> QED BY <2>1, <2>2, ShutdownAssumption DEF CepDelivers
<1>2. CepBeginsRow => RowMoves
  <2>1. /\ <<"cep", 0>> \in CepRow
        /\ \A c \in Corner : <<"cep_corner", c>> \in CepRow
        /\ \A s \in Station : <<"cep_station", s>> \in CepRow
    BY DEF CepRow
  <2>2. \A h \in CepRow : BeginRow(h) => RowMoves
    BY DEF BeginRow, RowMoves
  <2> QED BY <2>1, <2>2, ShutdownAssumption DEF CepBeginsRow
<1>3. CepWritesRow => LateRetract \/ RowMoves \/ \E s \in Station : StationMoves(s)
  BY ShutdownAssumption
  DEF CepWritesRow, RowWritten, RowMoves, LateRetract, StationMoves, Stations!SensorEvent,
      Stations!ProcessEvent
<1>4. \A c \in Corner : CornerTimer(c) => CornerMoves \/ RowMoves
  BY DEF CornerTimer, CornerMoves, CornerNext, TimerStep, BeginRow, RowWritten, RowMoves, TimerRow
<1>5. \A s \in Station : StationTimer(s) => StationMoves(s) \/ RowMoves
  BY DEF StationTimer, StationMoves, Stations!TimerStep, BeginRow, RowWritten, RowMoves, TimerRow
<1>6. TimePasses => CornerMoves
  BY DEF TimePasses, CornerMoves, CornerNext
<1> QED BY <1>1, <1>2, <1>3, <1>4, <1>5, <1>6 DEF ShutdownNext, MainStep, Halts, ThreadMoves

\* The threads' own steps touch neither the corners nor the stations.
LEMMA ThreadsAlone == ThreadMoves => UNCHANGED <<cornerVars, partVars>>
BY DEF ThreadMoves, EnterTry, StartSystem, Signal, FatalError, StopCep, JoinCep, Cleanup,
       GetKpis, PrintKpis, CepEnds

LockTypeOK == log_lock \in {Free, Main} \cup CepRow \cup TimerRow

\* The logger's lock is always held for one of the rows, by main, or by nobody.
LEMMA LockTyped == LockTypeOK /\ [ShutdownNext]_shutdownVars => LockTypeOK'
<1> SUFFICES ASSUME LockTypeOK, [ShutdownNext]_shutdownVars PROVE LockTypeOK'
  OBVIOUS
<1> DEFINE Rows == {Free, Main} \cup CepRow \cup TimerRow
<1>a. /\ \A c \in Corner : <<"cep_corner", c>> \in Rows /\ <<"corner_timer", c>> \in Rows
      /\ \A s \in Station : <<"cep_station", s>> \in Rows /\ <<"station_timer", s>> \in Rows
      /\ <<"cep", 0>> \in Rows /\ Free \in Rows /\ Main \in Rows
  BY DEF CepRow, TimerRow
<1> HIDE DEF Rows
<1>1. CASE MainStep \/ Signal \/ FatalError
  <2>1. log_lock' \in {log_lock, Free, Main}
    BY <1>1 DEF MainStep, Signal, FatalError, EnterTry, StartSystem, StopCep, JoinCep, StopMotors,
                Cleanup, GetKpis, PrintKpis, StopStation, StopCorner
  <2> QED BY <2>1, <1>a DEF LockTypeOK, Rows
<1>2. CASE CepBeginsRow \/ CepWritesRow \/ CepDelivers \/ CepEnds \/ TimePasses
  <2>1. log_lock' = log_lock \/ log_lock' \in Rows
    BY <1>2, <1>a, ShutdownAssumption
    DEF CepBeginsRow, CepWritesRow, CepDelivers, CepEnds, TimePasses, BeginRow, RowWritten
  <2> QED BY <2>1 DEF LockTypeOK, Rows
<1>3. ASSUME NEW c \in Corner, CornerTimer(c) PROVE LockTypeOK'
  <2>1. log_lock' = log_lock \/ log_lock' \in Rows
    BY <1>3, <1>a DEF CornerTimer, BeginRow, RowWritten
  <2> QED BY <2>1 DEF LockTypeOK, Rows
<1>4. ASSUME NEW s \in Station, StationTimer(s) PROVE LockTypeOK'
  <2>1. log_lock' = log_lock \/ log_lock' \in Rows
    BY <1>4, <1>a DEF StationTimer, BeginRow, RowWritten
  <2> QED BY <2>1 DEF LockTypeOK, Rows
<1>5. CASE UNCHANGED shutdownVars
  BY <1>5 DEF shutdownVars, LockTypeOK
<1> QED BY <1>1, <1>2, <1>3, <1>4, <1>5 DEF ShutdownNext

-----------------------------------------------------------------------------
(* What holds whatever fails.                                              *)

\* stop() is called once or twice, and while it goes through the state
\* machines there is one to come.
MainInv ==
  /\ main_pc \in {"stop_cep", "join_cep", "stop_fsms"} => stop_index \in 1..6
  /\ main_pc \in Stopping => stops_left \in 1..2

ShutdownInv ==
  /\ ShutdownTypeOK
  /\ CornerInv
  /\ Stations!StationConsistent
  /\ MainInv

\* Cancelling timers and writing motors do not break what holds of the corners.
LEMMA CornersUndisturbed ==
  ASSUME CornerInv, MotorTypeOK',
         UNCHANGED <<corner_state, push_timer, extend_step, timeout_threads,
                     cep_thread, collisionVars>>,
         approach_timer' \in [Corner -> BOOLEAN], handshake_timer' \in [Corner -> BOOLEAN],
         \A c \in Corner : /\ approach_timer'[c] => approach_timer[c]
                           /\ handshake_timer'[c] => handshake_timer[c]
  PROVE  CornerInv'
BY DEF CornerInv, CornerTypeOK, CollisionTypeOK, collisionVars, NeighboursNotBothReserved,
       ReservedWhilePushing, InPush, TimersBelong

\* What stop() does to the motors: it stops the belt of a station, the pusher
\* of a corner, or all of them; a write that fails changes nothing.
LEMMA HaltWrites ==
  ASSUME MotorTypeOK, Halts
  PROVE  /\ MotorTypeOK'
         /\ ~HatFaults => \A m \in Motor : throttle'[m] = throttle[m] \/ throttle'[m] = 0
         /\ ~HatFaults /\ StopMotors => \A m \in Motor : throttle'[m] = 0
<1> USE DEF MotorTypeOK
<1>1. CASE StopMotors
  <2>1. PICK done \in IF HatFaults THEN SUBSET Motor ELSE {Motor} :
          throttle' = [m \in Motor |-> IF m \in done THEN 0 ELSE throttle[m]]
    BY <1>1 DEF StopMotors, StopAll
  <2> QED BY <2>1, MotorAssumption
<1>2. ASSUME NEW s \in Station, StopStation(s) PROVE
        /\ MotorTypeOK' /\ ~StopMotors
        /\ ~HatFaults => \A m \in Motor : throttle'[m] = throttle[m] \/ throttle'[m] = 0
  <2>1. throttle' \in SetSpeed(throttle, Stations!StationMotor(s), 0) /\ ~StopMotors
    BY <1>2 DEF StopStation, StopMotor, StopMotors
  <2> QED BY <2>1, BeltEffect
<1>3. ASSUME NEW c \in Corner, StopCorner(c) PROVE
        /\ MotorTypeOK' /\ ~StopMotors
        /\ ~HatFaults => \A m \in Motor : throttle'[m] = throttle[m] \/ throttle'[m] = 0
  <2>1. throttle' \in SetSpeed(throttle, Pusher(c), 0) /\ ~StopMotors
    BY <1>3 DEF StopCorner, StopMotor, StopMotors
  <2>2. Clamp(0) = 0
    BY MotorAssumption DEF Clamp
  <2> QED BY <2>1, <2>2, SetSpeedEffect, PusherMotor
<1> QED BY <1>1, <1>2, <1>3 DEF Halts

\* stop() leaves the states and the reservations alone, and keeps what holds
\* of the corners and the stations.
LEMMA HaltKeeps ==
  ASSUME CornerInv, StationKept, Halts
  PROVE  /\ CornerInv' /\ StationKept'
         /\ UNCHANGED <<corner_state, extend_step, cep_thread, station_state>>
<1>1. MotorTypeOK' /\ Stations!MotorTypeOK'
  BY HaltWrites DEF CornerInv, CornerTypeOK, MotorTypeOK, Stations!MotorTypeOK
<1>a. /\ approach_timer \in [Corner -> BOOLEAN] /\ handshake_timer \in [Corner -> BOOLEAN]
  BY DEF CornerInv, CornerTypeOK
<1>2. CASE StopMotors
  <2>1. CornerInv'
    BY <1>1, <1>2, <1>a, CornersUndisturbed DEF StopMotors, timerVars
  <2>2. StationKept'
    BY <1>1, <1>2 DEF StopMotors, partVars, StationKept, Stations!StationTypeOK,
                      Stations!StationConsistent
  <2> QED BY <1>2, <2>1, <2>2 DEF StopMotors, timerVars, partVars
<1>3. ASSUME NEW s \in Station, StopStation(s)
      PROVE  CornerInv' /\ StationKept' /\ UNCHANGED <<corner_state, extend_step, cep_thread, station_state>>
  <2>1. CornerInv'
    BY <1>1, <1>3, <1>a, CornersUndisturbed DEF StopStation, timerVars
  <2>2. StationKept'
    BY <1>1, <1>3 DEF StopStation, StationKept, Stations!StationTypeOK, Stations!TimerState,
                      Stations!StationConsistent
  <2> QED BY <1>3, <2>1, <2>2 DEF StopStation, timerVars
<1>4. ASSUME NEW c \in Corner, StopCorner(c)
      PROVE  CornerInv' /\ StationKept' /\ UNCHANGED <<corner_state, extend_step, cep_thread, station_state>>
  <2>1. CornerInv'
    BY <1>1, <1>4, <1>a, CornersUndisturbed DEF StopCorner
  <2>2. StationKept'
    BY <1>1, <1>4 DEF StopCorner, partVars, StationKept, Stations!StationTypeOK,
                      Stations!StationConsistent
  <2> QED BY <1>4, <2>1, <2>2 DEF StopCorner, partVars
<1> QED BY <1>2, <1>3, <1>4 DEF Halts

\* The variables of the main thread and of the CEP thread.
MainTypeOK ==
  /\ main_pc \in MainPc /\ stop_index \in 1..7 /\ stops_left \in 0..2
  /\ signals \in 0..MaxSignals
  /\ cep \in {"new", "alive", "ended"} /\ cep_running \in BOOLEAN /\ outlived \in BOOLEAN

\* The main thread keeps its bounds: no signal or error makes stop() run past
\* its last state machine, and stop() is never called more often than counted.
LEMMA MainStepInv ==
  ASSUME MainTypeOK, MainInv, Halts \/ ThreadMoves
  PROVE  MainTypeOK' /\ MainInv'
<1> USE ShutdownAssumption DEF MainTypeOK, MainInv, MainPc, Stopping
<1>1. CASE \/ EnterTry \/ StartSystem \/ StopCep \/ CepEnds \/ StopMotors
           \/ Cleanup \/ GetKpis
  BY <1>1 DEF EnterTry, StartSystem, StopCep, CepEnds, StopMotors, Cleanup, GetKpis
<1>2. CASE Signal \/ FatalError
  BY <1>2 DEF Signal, FatalError
<1>3. CASE JoinCep \/ PrintKpis
  <2>1. outlived' \in BOOLEAN
    BY <1>3, Zenon DEF JoinCep, PrintKpis
  <2>2. /\ \/ main_pc = "join_cep" /\ main_pc' = "stop_fsms" /\ UNCHANGED <<stop_index, stops_left>>
           \/ main_pc \in {"join_cep", "print_kpis"} /\ StopReturns
        /\ UNCHANGED <<signals, cep, cep_running>>
    BY <1>3 DEF JoinCep, PrintKpis
  <2> QED BY <2>1, <2>2 DEF StopReturns
<1>4. ASSUME main_pc = "stop_fsms", NextFsm,
             UNCHANGED <<stops_left, signals, cep, cep_running, outlived>>
      PROVE  MainTypeOK' /\ MainInv'
  <2>1. Len(StopOrder) = 6
    BY DEF StopOrder
  <2> QED BY <1>4, <2>1 DEF NextFsm
<1> QED BY <1>1, <1>2, <1>3, <1>4 DEF Halts, ThreadMoves, StopStation, StopCorner

\* Every step keeps ShutdownInv, one case for each kind of step.
LEMMA ShutdownStepInv == ShutdownInv /\ [ShutdownNext]_shutdownVars => ShutdownInv'
<1> SUFFICES ASSUME ShutdownInv, [ShutdownNext]_shutdownVars PROVE ShutdownInv'
  OBVIOUS
<1>a. /\ CornerInv /\ StationKept /\ MainTypeOK /\ MainInv /\ MotorTypeOK
  BY DEF ShutdownInv, ShutdownTypeOK, StationKept, MainTypeOK, CornerTypeOK
<1>b. SUFFICES CornerInv' /\ StationKept' /\ MainTypeOK' /\ MainInv'
  <2>1. LockTypeOK'
    BY LockTyped DEF ShutdownInv, ShutdownTypeOK, LockTypeOK
  <2> QED BY <2>1 DEF ShutdownInv, ShutdownTypeOK, LockTypeOK, StationKept, MainTypeOK, CornerInv
<1>1. CASE CornerMoves
  <2>1. CornerInv'
    BY <1>a, <1>1, CornerStepInv DEF CornerMoves
  <2>2. Stations!MotorTypeOK'
    BY <2>1 DEF CornerInv, CornerTypeOK, MotorTypeOK, Stations!MotorTypeOK
  <2>3. StationKept'
    BY <1>a, <1>1, <2>2 DEF CornerMoves, partVars, StationKept, Stations!StationTypeOK,
                            Stations!StationConsistent
  <2> QED BY <1>a, <1>1, <2>1, <2>3 DEF CornerMoves, mainVars, MainTypeOK, MainInv
<1>2. ASSUME NEW s \in Station, StationMoves(s)
      PROVE  CornerInv' /\ StationKept' /\ MainTypeOK' /\ MainInv'
  <2>1. StationKept' /\ MotorTypeOK'
    BY <1>a, <1>2, StationStepKept, StationWrites DEF StationMoves, BeltStep
  <2>2. CornerInv'
    BY <1>a, <1>2, <2>1, CornersUndisturbed
    DEF StationMoves, timerVars, CornerInv, CornerTypeOK
  <2> QED BY <1>a, <1>2, <2>1, <2>2 DEF StationMoves, mainVars, MainTypeOK, MainInv
<1>3. CASE Halts
  BY <1>a, <1>3, HaltKeeps, MainStepInv
<1>7. CASE LateRetract
  <2>1. CornerStep
    BY <1>7 DEF LateRetract, CornerStep, ProcessEvent
  <2>2. CornerInv'
    BY <1>a, <2>1, CornerInvKept
  <2>3. Stations!MotorTypeOK'
    BY <2>2 DEF CornerInv, CornerTypeOK, MotorTypeOK, Stations!MotorTypeOK
  <2>4. StationKept'
    BY <1>a, <1>7, <2>3 DEF LateRetract, partVars, StationKept, Stations!StationTypeOK,
                            Stations!StationConsistent
  <2> QED BY <1>a, <1>7, <2>2, <2>4 DEF LateRetract, mainVars, MainTypeOK, MainInv
<1>4. ASSUME UNCHANGED <<cornerVars, partVars>> PROVE CornerInv' /\ StationKept'
  <2>1. CornerInv'
    BY <1>a, <1>4, CornerStepInv
  <2>2. StationKept'
    BY <1>a, <1>4 DEF cornerVars, partVars, StationKept, Stations!StationTypeOK,
                      Stations!StationConsistent, Stations!MotorTypeOK
  <2> QED BY <2>1, <2>2
<1>5. CASE ThreadMoves
  BY <1>a, <1>4, <1>5, ThreadsAlone, MainStepInv
<1>6. CASE RowMoves \/ UNCHANGED shutdownVars
  BY <1>a, <1>4, <1>6 DEF RowMoves, shutdownVars, mainVars, MainTypeOK, MainInv
<1> QED BY <1>1, <1>2, <1>3, <1>5, <1>6, <1>7, StepKinds

\* The constructors establish ShutdownInv.
LEMMA ShutdownInitInv == ShutdownInit => ShutdownInv
<1> SUFFICES ASSUME ShutdownInit PROVE ShutdownInv
  OBVIOUS
<1>1. CornerInv
  BY CornerInitInv DEF ShutdownInit
<1>2. Stations!StationTypeOK
  <2>1. Stations!MotorTypeOK
    BY <1>1 DEF CornerInv, CornerTypeOK, MotorTypeOK, Stations!MotorTypeOK
  <2> QED BY <2>1 DEF ShutdownInit, Stations!StationTypeOK, Stations!StationState,
                      Stations!TimerState
<1>3. Stations!StationConsistent
  BY DEF ShutdownInit, Stations!StationConsistent
<1>4. MainTypeOK /\ MainInv
  <2>1. cep_running \in BOOLEAN /\ outlived \in BOOLEAN
    BY Zenon DEF ShutdownInit
  <2>2. main_pc = "ready" /\ stop_index = 1 /\ stops_left = 0 /\ signals = 0 /\ cep = "new"
    BY DEF ShutdownInit
  <2> QED BY <2>1, <2>2, ShutdownAssumption DEF MainTypeOK, MainInv, MainPc, Stopping
<1>5. LockTypeOK
  BY DEF ShutdownInit, LockTypeOK
<1> QED BY <1>1, <1>2, <1>3, <1>4, <1>5
        DEF ShutdownInv, ShutdownTypeOK, LockTypeOK, MainTypeOK, CornerInv

\* What holds of the corners and the stations goes on to hold while and after
\* the system is stopped, whatever fails.
THEOREM ShutdownInvariant == ShutdownSpec => []ShutdownInv
BY ShutdownInitInv, ShutdownStepInv, PTL DEF ShutdownSpec

\* The state of the whole system is well formed: stop() never runs past its
\* last state machine, and it is never called more often than main and its
\* handler do.
THEOREM ShutdownTypeCorrect == ShutdownSpec => []ShutdownTypeOK
<1>1. ShutdownInv => ShutdownTypeOK
  BY DEF ShutdownInv
<1> QED BY <1>1, ShutdownInvariant, PTL

-----------------------------------------------------------------------------
(* The motors, when every write to a HAT succeeds.                         *)

StoppingInv == ShutdownInv /\ PusherFollowsState

\* Every step keeps PusherFollowsState: a pusher that stop() halts in the
\* middle has its corner in the same state as before.
LEMMA StoppingStepInv ==
  ASSUME ~HatFaults, StoppingInv, [ShutdownNext]_shutdownVars
  PROVE  PusherFollowsState'
<1>a. /\ PusherInv /\ StationKept /\ MotorTypeOK
      /\ corner_state \in [Corner -> CornerState]
      /\ \A c \in Corner : throttle[Pusher(c)] \in Int /\ Pusher(c) \in Motor /\ Pusher(c) \in 5..8
  BY MotorAssumption DEF StoppingInv, ShutdownInv, ShutdownTypeOK, PusherInv, StationKept,
                         CornerTypeOK, MotorTypeOK, Pusher
<1>1. CASE CornerMoves
  BY <1>a, <1>1, PusherStepInv DEF CornerMoves
<1>2. ASSUME NEW s \in Station, StationMoves(s) PROVE PusherFollowsState'
  <2>1. \A c \in Corner : throttle'[Pusher(c)] = throttle[Pusher(c)]
    BY <1>a, <1>2, StationWrites, BeltWrites DEF StationMoves, BeltStep
  <2> QED BY <1>a, <1>2, <2>1 DEF StationMoves, timerVars, PusherInv, PusherFollowsState
<1>3. CASE Halts
  <2>1. \A c \in Corner : throttle'[Pusher(c)] = throttle[Pusher(c)] \/ throttle'[Pusher(c)] = 0
    BY <1>a, <1>3, HaltWrites
  <2>2. UNCHANGED <<corner_state, extend_step, cep_thread>>
    BY <1>a, <1>3, HaltKeeps DEF PusherInv
  <2> QED BY <1>a, <2>1, <2>2 DEF PusherInv, PusherFollowsState
<1>4. CASE ThreadMoves \/ RowMoves \/ UNCHANGED shutdownVars
  <2>1. UNCHANGED cornerVars
    BY <1>4, ThreadsAlone DEF RowMoves, shutdownVars
  <2> QED BY <1>a, <2>1, PusherStepInv
<1>5. CASE LateRetract
  <2>1. PICK c \in Corner : cep_thread = 0 /\ HandleRetracting(c, <<"RET", c>>)
    BY <1>5 DEF LateRetract
  <2>2. /\ throttle'[Pusher(c)] = 0
        /\ \A d \in Corner : d # c => throttle'[Pusher(d)] = throttle[Pusher(d)]
    BY <1>a, <2>1, PusherWrite, ClampSign DEF HandleRetracting, StopMotor
  <2>3. /\ UNCHANGED <<corner_state, extend_step>>
        /\ cep_thread' \in {0, c}
    BY <2>1 DEF HandleRetracting, timerVars
  <2> QED BY <1>a, <2>1, <2>2, <2>3 DEF PusherInv, PusherFollowsState
<1> QED BY <1>1, <1>2, <1>3, <1>4, <1>5, StepKinds

\* StoppingInv holds throughout when no motor write fails.
LEMMA StoppingInvariant ==
  ASSUME ~HatFaults
  PROVE  ShutdownSpec => []StoppingInv
<1>1. ShutdownInit => StoppingInv
  BY ShutdownInitInv, PusherInit DEF StoppingInv, PusherFollowsState, ShutdownInit, CornerInit
<1>2. StoppingInv /\ [ShutdownNext]_shutdownVars => StoppingInv'
  BY ShutdownStepInv, StoppingStepInv DEF StoppingInv
<1> QED BY <1>1, <1>2, PTL DEF ShutdownSpec

\* Neighbouring pushers exclude each other while and after the system is
\* stopped, for any number of signals and whether or not the CEP thread ends:
\* a corner that stop() halts half-way keeps its reservation.
THEOREM ExclusionOutlivesStop ==
  ASSUME ~HatFaults
  PROVE  ShutdownSpec => []ExclusionSurvivesStop
<1>1. StoppingInv => ExclusionSurvivesStop
  <2> SUFFICES ASSUME StoppingInv, NEW c \in Corner
               PROVE  /\ throttle[Pusher(c)] # 0 => InPush(c)
                      /\ \A d \in Adjacent(c) : ~(InPush(c) /\ InPush(d))
    BY DEF ExclusionSurvivesStop
  <2>1. PusherInv
    BY DEF StoppingInv, ShutdownInv, PusherInv
  <2>2. throttle[Pusher(c)] # 0 => InPush(c)
    BY <2>1, OutIsReserved
    DEF PusherOut, PusherInv, CornerInv, ReservedWhilePushing
  <2>3. \A d \in Adjacent(c) : ~(InPush(c) /\ InPush(d))
    BY <2>1, AdjacentSymmetric
    DEF PusherInv, CornerInv, ReservedWhilePushing, NeighboursNotBothReserved
  <2> QED BY <2>2, <2>3
<1> QED BY <1>1, StoppingInvariant, PTL

-----------------------------------------------------------------------------
(* After stop_all.                                                         *)

\* Once join has returned, a CEP thread that is still alive has outlived it.
JoinNoted ==
  main_pc \in {"stop_fsms", "stop_motors"} \cup MotorsStopped /\ cep = "alive" => outlived

\* The motors when only timer threads are left to move one.
LateMotors ==
  /\ throttle[1] = 0 /\ throttle[2] = 0
  /\ \A c \in Corner : throttle[Pusher(c)] # 0 => corner_state[c] = "extending"
  /\ \A s \in Station :
       throttle[Stations!StationMotor(s)] # 0 => station_state[s] = "advancing_to_exit"

\* A timer callback of a corner starts no conveyor, and a pusher only forward.
LEMMA LateCornerTimer ==
  ASSUME ~HatFaults, StoppingInv, LateMotors, NEW c \in Corner, TimerStep(c),
         UNCHANGED station_state
  PROVE  LateMotors'
<1>a. /\ MotorTypeOK /\ throttle \in [Motor -> -FullSpeed..FullSpeed]
      /\ corner_state \in [Corner -> CornerState]
      /\ TimersBelong /\ PusherFollowsState
  BY DEF StoppingInv, ShutdownInv, CornerInv, CornerTypeOK, MotorTypeOK
<1>b. /\ \A s \in Station : Stations!StationMotor(s) \in {3, 4}
      /\ \A d \in Corner : Pusher(d) \in 5..8
  BY DEF Stations!StationMotor, Pusher
<1>1. CASE ExtendPusher(c)
  <2>1. corner_state[c] = "extending" /\ UNCHANGED corner_state
    BY <1>a, <1>1 DEF ExtendPusher, PusherFollowsState
  <2>2. CASE throttle' \in SetSpeed(throttle, Pusher(c), PushSpeed)
    <3>1. \A m \in Motor : m # Pusher(c) => throttle'[m] = throttle[m]
      BY <1>a, <2>2, SetSpeedEffect, PusherMotor, CornerAssumption
    <3>2. throttle'[1] = 0 /\ throttle'[2] = 0
      BY <1>b, <3>1 DEF LateMotors
    <3>3. \A s \in Station :
            throttle'[Stations!StationMotor(s)] = throttle[Stations!StationMotor(s)]
      BY <1>b, <3>1
    <3>4. \A d \in Corner : d # c => throttle'[Pusher(d)] = throttle[Pusher(d)]
      BY <3>1, PusherMotor
    <3> QED BY <2>1, <3>2, <3>3, <3>4 DEF LateMotors
  <2>3. CASE UNCHANGED throttle
    BY <2>1, <2>3 DEF LateMotors
  <2> QED BY <1>1, <2>2, <2>3 DEF ExtendPusher
<1>2. CASE ~ExtendPusher(c)
  <2>1. UNCHANGED throttle
    BY <1>2 DEF TimerStep, FinalApproachComplete, TryPush, HandshakeExpires, HandshakeTimeout
  <2>2. \A d \in Corner : corner_state[d] = "extending" => corner_state'[d] = "extending"
    BY <1>a, <1>2 DEF TimerStep, FinalApproachComplete, TryPush, HandshakeExpires,
                      HandshakeTimeout, TransitionTo, TimersBelong
  <2> QED BY <2>1, <2>2 DEF LateMotors
<1> QED BY <1>1, <1>2

\* A timer callback of a station starts its belt only to let a part out.
LEMMA LateStationTimer ==
  ASSUME ~HatFaults, StoppingInv, LateMotors, NEW s \in Station, Stations!TimerStep(s),
         UNCHANGED corner_state
  PROVE  LateMotors'
<1>a. /\ MotorTypeOK /\ throttle \in [Motor -> -FullSpeed..FullSpeed] /\ StationKept
      /\ station_state \in [Station -> Stations!StationState]
      /\ Stations!StationConsistent
  BY DEF StoppingInv, ShutdownInv, ShutdownTypeOK, CornerTypeOK, MotorTypeOK, StationKept,
         Stations!StationTypeOK
<1>1. \A m \in Motor : m # Stations!StationMotor(s) => throttle'[m] = throttle[m]
  BY <1>a, StationWrites DEF BeltStep
<1>2. throttle'[1] = 0 /\ throttle'[2] = 0
  BY <1>1 DEF LateMotors, Stations!StationMotor
<1>3. \A c \in Corner : throttle'[Pusher(c)] = throttle[Pusher(c)]
  BY <1>1 DEF Pusher, Stations!StationMotor
<1>4. \A r \in Station : r # s =>
        /\ throttle'[Stations!StationMotor(r)] = throttle[Stations!StationMotor(r)]
        /\ station_state'[r] = station_state[r]
  <2>1. \A r \in Station : r # s => station_state'[r] = station_state[r]
    BY <1>a DEF Stations!TimerStep, Stations!ProcessingEnds, Stations!ProcessingComplete,
                Stations!ExitEnds, Stations!ExitComplete, Stations!EnterState
  <2> QED BY <1>1, <2>1, BeltWrites
<1>5. throttle'[Stations!StationMotor(s)] # 0 => station_state'[s] = "advancing_to_exit"
  <2>1. CASE Stations!ProcessingComplete(s)
    BY <1>a, <2>1 DEF Stations!ProcessingComplete, Stations!EnterState
  <2>2. CASE Stations!ExitEnds(s)
    <3>1. throttle' \in SetSpeed(throttle, Stations!StationMotor(s), 0)
      BY <2>2, BeltWrites DEF Stations!ExitEnds
    <3> QED BY <1>a, <3>1, BeltEffect
  <2>3. CASE Stations!ProcessingEnds(s)
    BY <2>3 DEF Stations!ProcessingEnds, LateMotors
  <2>4. CASE Stations!ExitComplete(s)
    <3>1. station_state[s] = "exiting" /\ UNCHANGED throttle
      BY <1>a, <2>4 DEF Stations!ExitComplete, Stations!StationConsistent
    <3> QED BY <3>1 DEF LateMotors
  <2> QED BY <2>1, <2>2, <2>3, <2>4 DEF Stations!TimerStep
<1> QED BY <1>2, <1>3, <1>4, <1>5 DEF LateMotors

\* Every step keeps JoinNoted and OnlyLateTimersMove.
LEMMA LateStepInv ==
  ASSUME ~HatFaults, StoppingInv, JoinNoted, OnlyLateTimersMove, [ShutdownNext]_shutdownVars
  PROVE  JoinNoted' /\ OnlyLateTimersMove'
<1> DEFINE Late == main_pc \in MotorsStopped /\ cep = "ended" /\ ~outlived
<1>a. Late => LateMotors
  BY DEF OnlyLateTimersMove, LateMotors
<1>b. SUFFICES JoinNoted' /\ (Late' => LateMotors')
  BY DEF OnlyLateTimersMove, LateMotors
<1>1. CASE CornerMoves
  <2>1. JoinNoted' /\ (Late' => Late) /\ UNCHANGED <<cep, station_state>>
    BY <1>1 DEF CornerMoves, mainVars, partVars, JoinNoted
  <2>2. ASSUME Late PROVE LateMotors'
    <3>1. CASE ClockTick
      BY <1>a, <2>1, <2>2, <3>1 DEF ClockTick, LateMotors
    <3>2. ASSUME NEW c \in Corner, TimerStep(c) PROVE LateMotors'
      BY <1>a, <2>1, <2>2, <3>2, LateCornerTimer
    <3> QED BY <1>1, <2>2, <3>1, <3>2 DEF CornerMoves
  <2> QED BY <2>1, <2>2
<1>2. ASSUME NEW s \in Station, StationMoves(s) PROVE JoinNoted' /\ (Late' => LateMotors')
  <2>1. JoinNoted' /\ (Late' => Late) /\ UNCHANGED <<cep, corner_state>>
    BY <1>2 DEF StationMoves, mainVars, JoinNoted
  <2>2. ASSUME Late PROVE LateMotors'
    BY <1>2, <1>a, <2>1, <2>2, LateStationTimer DEF StationMoves
  <2> QED BY <2>1, <2>2
<1>3. CASE StopMotors
  <2>1. \A m \in Motor : throttle'[m] = 0
    BY <1>3, HaltWrites DEF Halts, StoppingInv, ShutdownInv, ShutdownTypeOK, CornerTypeOK
  <2>2. LateMotors'
    BY <2>1, BeltWrites, PusherMotor DEF LateMotors
  <2>3. JoinNoted'
    BY <1>3 DEF StopMotors, JoinNoted, MotorsStopped
  <2> QED BY <2>2, <2>3
<1>4. CASE Halts /\ ~StopMotors
  BY <1>4 DEF Halts, StopStation, StopCorner, NextFsm, JoinNoted, MotorsStopped
<1>5. CASE ThreadMoves
  <2>1. LateMotors => LateMotors'
    BY <1>5, ThreadsAlone DEF cornerVars, partVars, LateMotors
  <2>2. JoinNoted' /\ (Late' => Late)
    BY <1>5 DEF ThreadMoves, EnterTry, StartSystem, Signal, FatalError, StopCep, JoinCep,
                Cleanup, GetKpis, PrintKpis, CepEnds, StopReturns, JoinNoted, MotorsStopped
  <2> QED BY <1>a, <2>1, <2>2
<1>6. CASE RowMoves \/ UNCHANGED shutdownVars
  BY <1>a, <1>6 DEF RowMoves, shutdownVars, cornerVars, partVars, mainVars, JoinNoted, LateMotors
<1>7. CASE LateRetract
  BY <1>7 DEF LateRetract, mainVars, JoinNoted
<1> QED BY <1>1, <1>2, <1>3, <1>4, <1>5, <1>6, <1>7, StepKinds

\* After stop_all, with the CEP thread ended in time, the conveyors stand
\* still for good, no pusher moves back, and only a retry or a processing
\* callback that stop() could not cancel moves anything.
THEOREM OnlyLateTimersMoveMotors ==
  ASSUME ~HatFaults
  PROVE  ShutdownSpec => []OnlyLateTimersMove
<1>1. ShutdownInit => JoinNoted /\ OnlyLateTimersMove
  BY DEF ShutdownInit, JoinNoted, OnlyLateTimersMove, MotorsStopped
<1>2. StoppingInv /\ (JoinNoted /\ OnlyLateTimersMove) /\ [ShutdownNext]_shutdownVars =>
        (JoinNoted /\ OnlyLateTimersMove)'
  BY LateStepInv
<1> QED BY <1>1, <1>2, StoppingInvariant, PTL DEF ShutdownSpec

=============================================================================
