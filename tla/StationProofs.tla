---------------------------- MODULE StationProofs ----------------------------
(***************************************************************************)
(* Theorems about the stations, for every set of parts and every speed.    *)
(* The log and the states are proved consistent with failing log rows and  *)
(* failing motor writes; that the belt stands still needs the writes to    *)
(* succeed.                                                                *)
(***************************************************************************)
EXTENDS StationController, TLAPS

USE DEF Station, Motor

\* What an operation on the belt of a station leaves behind (set_speed).
LEMMA BeltWrite ==
  ASSUME NEW th \in [Motor -> -FullSpeed..FullSpeed],
         NEW s \in Station, NEW speed \in Int,
         NEW t \in SetSpeed(th, StationMotor(s), speed)
  PROVE  /\ t \in [Motor -> -FullSpeed..FullSpeed]
         /\ \A r \in Station : r # s => t[StationMotor(r)] = th[StationMotor(r)]
         /\ ~HatFaults => t[StationMotor(s)] = Clamp(speed)
<1>1. Clamp(speed) \in -FullSpeed..FullSpeed
  BY MotorAssumption DEF Clamp
<1>2. \A r \in Station : StationMotor(r) \in Motor /\ (r # s => StationMotor(r) # StationMotor(s))
  BY DEF StationMotor
<1>3. \/ t = [th EXCEPT ![StationMotor(s)] = Clamp(speed)]
      \/ HatFaults /\ t = th
  BY MotorAssumption DEF SetSpeed
<1>4. CASE t = [th EXCEPT ![StationMotor(s)] = Clamp(speed)]
  BY <1>1, <1>2, <1>4
<1>5. CASE HatFaults /\ t = th
  BY <1>5
<1> QED BY <1>3, <1>4, <1>5

\* The speeds the stations ask for are integers, and stopping means 0.
LEMMA StationSpeeds ==
  /\ 0 \in Int
  /\ \A s \in Station : MotorSpeed(s) \in Int
  /\ Clamp(0) = 0
BY StationAssumption, MotorAssumption DEF MotorSpeed, Clamp

StationInv == StationTypeOK /\ StationConsistent

\* The constructors establish the invariants.
LEMMA StationInitInv == StationInit => StationInv /\ BeltStandsStill
<1> SUFFICES ASSUME StationInit PROVE StationInv /\ BeltStandsStill
  OBVIOUS
<1>1. \A s \in Station : StationMotor(s) \in Motor
  BY DEF StationMotor
<1> QED BY <1>1, MotorAssumption, StationAssumption
        DEF StationInit, StationInv, StationTypeOK, StationConsistent, BeltStandsStill,
            MotorTypeOK, AllStopped, StationState, TimerState

\* A step of station s: an event handler or a timer callback.
StationStep(s) ==
  \/ \E p \in Part \cup {NoPart}, b \in StationBarrier : ProcessEvent(s, b, p)
  \/ TimerStep(s)

\* Every step is a step of one station.
LEMMA NextIsStationStep == StationNext => \E s \in Station : StationStep(s)
<1> SUFFICES ASSUME NEW s \in Station, SensorEvent(s) \/ TimerStep(s)
             PROVE  StationStep(s)
  BY DEF StationNext
<1>1. \A k \in StationKind : <<k, s>> \in StationBarrier
  BY DEF StationBarrier
<1> QED BY <1>1 DEF StationStep, SensorEvent, StationKind

\* A step of one station keeps StationInv, extends the log without a gap, and
\* keeps the belts still where they have to be; one case for each action.
LEMMA StationStepInv ==
  ASSUME StationInv, NEW s \in Station, StationStep(s)
  PROVE  /\ StationInv'
         /\ \A r \in Station : last_row'[r] # last_row[r] =>
              /\ <<last_row[r].activity, last_row'[r].activity>> \in Follows
              /\ last_row'[r].activity # "ENTER" => last_row'[r].part = last_row[r].part
         /\ ~HatFaults /\ BeltStandsStill => BeltStandsStill'
<1> DEFINE Goal ==
      /\ StationInv'
      /\ \A r \in Station : last_row'[r] # last_row[r] =>
           /\ <<last_row[r].activity, last_row'[r].activity>> \in Follows
           /\ last_row'[r].activity # "ENTER" => last_row'[r].part = last_row[r].part
      /\ ~HatFaults /\ BeltStandsStill => BeltStandsStill'
<1> USE StationAssumption, StationSpeeds
    DEF StationInv, StationTypeOK, StationConsistent, BeltStandsStill, MotorTypeOK,
        StationState, TimerState, Activity, Row, Follows, EnterState, LogRow
<1>1. ASSUME NEW p \in Part \cup {NoPart}, NEW b, HandleIdle(s, b, p) PROVE Goal
  <2>1. CASE LogFaults /\ UNCHANGED <<last_row, throttle, station_state>>
    BY <1>1, <2>1 DEF HandleIdle
  <2>2. CASE throttle' \in SetSpeed(throttle, StationMotor(s), MotorSpeed(s))
    BY <1>1, <2>2, BeltWrite DEF HandleIdle
  <2> QED BY <1>1, <2>1, <2>2 DEF HandleIdle
<1>2. ASSUME NEW b, HandleEntering(s, b) PROVE Goal
  BY <1>2, BeltWrite DEF HandleEntering, StopMotor
<1>3. ASSUME NEW b, HandleAdvancingToExit(s, b) PROVE Goal
  <2>1. PICK th \in SetSpeed(throttle, StationMotor(s), 0) :
          throttle' \in SetSpeed(th, StationMotor(s), MotorSpeed(s))
    BY <1>3 DEF HandleAdvancingToExit, StopMotor
  <2>2. /\ th \in [Motor -> -FullSpeed..FullSpeed]
        /\ \A r \in Station : r # s => th[StationMotor(r)] = throttle[StationMotor(r)]
    BY <2>1, BeltWrite
  <2>3. /\ MotorTypeOK'
        /\ \A r \in Station : r # s => throttle'[StationMotor(r)] = throttle[StationMotor(r)]
    BY <2>1, <2>2, BeltWrite
  <2> QED BY <1>3, <2>3 DEF HandleAdvancingToExit
<1>4. ASSUME ProcessingEnds(s) PROVE Goal
  BY <1>4 DEF ProcessingEnds
<1>5. ASSUME ProcessingComplete(s) PROVE Goal
  BY <1>5, BeltWrite DEF ProcessingComplete
<1>6. ASSUME ExitEnds(s) PROVE Goal
  BY <1>6, BeltWrite DEF ExitEnds, StopMotor
<1>7. ASSUME ExitComplete(s) PROVE Goal
  BY <1>7 DEF ExitComplete
<1> QED BY <1>1, <1>2, <1>3, <1>4, <1>5, <1>6, <1>7 DEF StationStep, ProcessEvent, TimerStep

\* For every instance: the state is well formed and the log, the states and
\* the timers of a station agree, also after failed rows and motor writes.
THEOREM StationInvariant == StationSpec => []StationInv
<1>1. StationInv /\ [StationNext]_stationVars => StationInv'
  <2> SUFFICES ASSUME StationInv, [StationNext]_stationVars PROVE StationInv'
    OBVIOUS
  <2>1. CASE StationNext
    BY <2>1, NextIsStationStep, StationStepInv
  <2>2. CASE UNCHANGED stationVars
    BY <2>2 DEF stationVars, StationInv, StationTypeOK, StationConsistent, MotorTypeOK
  <2> QED BY <2>1, <2>2
<1> QED BY <1>1, StationInitInv, PTL DEF StationSpec

\* The state of the stations is well formed.
THEOREM StationTypeCorrect == StationSpec => []StationTypeOK
<1>1. StationInv => StationTypeOK
  BY DEF StationInv
<1> QED BY <1>1, StationInvariant, PTL

\* A busy station, its timers and its log speak of the same part.
THEOREM StationsConsistent == StationSpec => []StationConsistent
<1>1. StationInv => StationConsistent
  BY DEF StationInv
<1> QED BY <1>1, StationInvariant, PTL

\* The log of a station has no gap, whichever rows fail.
THEOREM LogHasNoGap == StationSpec => TraceHasNoGap
<1>1. StationInv /\ [StationNext]_stationVars =>
        [\A s \in Station : last_row'[s] # last_row[s] =>
           /\ <<last_row[s].activity, last_row'[s].activity>> \in Follows
           /\ last_row'[s].activity # "ENTER" => last_row'[s].part = last_row[s].part]_stationVars
  BY NextIsStationStep, StationStepInv
<1> QED BY <1>1, StationInvariant, PTL DEF StationSpec, TraceHasNoGap

\* When every write to a HAT succeeds, the belt stands still while a part is
\* processed and while the station is empty.
THEOREM BeltsStandStill ==
  ASSUME ~HatFaults
  PROVE  StationSpec => []BeltStandsStill
<1>1. StationInv /\ BeltStandsStill /\ [StationNext]_stationVars => BeltStandsStill'
  <2> SUFFICES ASSUME StationInv, BeltStandsStill, [StationNext]_stationVars
               PROVE  BeltStandsStill'
    OBVIOUS
  <2>1. CASE StationNext
    BY <2>1, NextIsStationStep, StationStepInv
  <2>2. CASE UNCHANGED stationVars
    BY <2>2 DEF stationVars, BeltStandsStill
  <2> QED BY <2>1, <2>2
<1> QED BY <1>1, StationInitInv, StationInvariant, PTL DEF StationSpec
=============================================================================
