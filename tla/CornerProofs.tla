---------------------------- MODULE CornerProofs ----------------------------
(***************************************************************************)
(* Theorems about the corner controllers, for every speed, interval and    *)
(* bound the assumptions of the modules allow.                             *)
(*                                                                         *)
(* The first part holds with failing motor writes and a failing log_event: *)
(* CornerInv ties the reservation table and the timers to the states.  The *)
(* second part takes HatFaults = FALSE as an assumption and adds what the  *)
(* pusher motors and the feed conveyors do.                                *)
(***************************************************************************)
EXTENDS CornerController, TLAPS

USE DEF Corner, Motor

\* A motor setting that an operation may leave is well formed, differs from
\* the old one at its motor only, and is what was asked for unless the write
\* failed (set_speed).
LEMMA SetSpeedEffect ==
  ASSUME NEW th \in [Motor -> -FullSpeed..FullSpeed],
         NEW m \in Motor, NEW speed \in Int,
         NEW t \in SetSpeed(th, m, speed)
  PROVE  /\ t \in [Motor -> -FullSpeed..FullSpeed]
         /\ \A n \in Motor : n # m => t[n] = th[n]
         /\ ~HatFaults => t[m] = Clamp(speed)
<1>1. Clamp(speed) \in -FullSpeed..FullSpeed
  BY MotorAssumption DEF Clamp
<1>2. t = [th EXCEPT ![m] = Clamp(speed)] \/ (HatFaults /\ t = th)
  BY MotorAssumption DEF SetSpeed
<1>3. CASE t = [th EXCEPT ![m] = Clamp(speed)]
  BY <1>1, <1>3
<1>4. CASE HatFaults /\ t = th
  BY <1>4
<1> QED BY <1>2, <1>3, <1>4

\* The feed conveyor operations write the motor of a conveyor, 1 or 2, and
\* no other (_start_feed_conveyor, _stop_feed_conveyor).
LEMMA FeedConveyorEffect ==
  ASSUME NEW th \in [Motor -> -FullSpeed..FullSpeed],
         NEW c \in Corner,
         NEW t \in StartFeedConveyor(th, c) \cup StopFeedConveyor(th, c)
  PROVE  /\ t \in [Motor -> -FullSpeed..FullSpeed]
         /\ \A n \in 3..8 : t[n] = th[n]
<1>1. FeedMotor(c) \in Motor /\ FeedMotor(c) \in 1..2 /\ ConveyorSpeed \in Int /\ 0 \in Int
  BY CornerAssumption DEF FeedMotor
<1>2. \/ t = th
      \/ t \in SetSpeed(th, FeedMotor(c), ConveyorSpeed)
      \/ t \in SetSpeed(th, FeedMotor(c), 0)
  BY DEF StartFeedConveyor, StopFeedConveyor, StopMotor
<1>3. CASE t = th
  BY <1>3
<1>4. CASE t \in SetSpeed(th, FeedMotor(c), ConveyorSpeed)
  BY <1>1, <1>4, SetSpeedEffect
<1>5. CASE t \in SetSpeed(th, FeedMotor(c), 0)
  BY <1>1, <1>5, SetSpeedEffect
<1> QED BY <1>2, <1>3, <1>4, <1>5

\* Being neighbours is symmetric and irreflexive (_get_adjacent_corners).
LEMMA AdjacentSymmetric ==
  ASSUME NEW c \in Corner, NEW d \in Adjacent(c)
  PROVE  d \in Corner /\ d # c /\ c \in Adjacent(d)
BY DEF Adjacent

\* A motor is a pusher of one corner and no conveyor (motor_num = 4 + corner_num).
LEMMA PusherMotor ==
  /\ \A c \in Corner : Pusher(c) \in Motor /\ Pusher(c) \in 3..8
  /\ \A c, d \in Corner : c # d => Pusher(c) # Pusher(d)
BY DEF Pusher

-----------------------------------------------------------------------------
(* The reservation table, the timers and the states.                       *)

\* The half of TimersMatchState that also holds when stop() has cancelled a
\* timer and left the state as it is: nothing is pending in another state.
TimersBelong ==
  \A c \in Corner :
    /\ approach_timer[c] => corner_state[c] = "final_approach"
    /\ push_timer[c] => corner_state[c] = "ready_to_push"
    /\ handshake_timer[c] => corner_state[c] = "waiting_for_confirmation"
    /\ corners_waiting_handshake[c] => corner_state[c] = "waiting_for_confirmation"

CornerInv ==
  /\ CornerTypeOK
  /\ NeighboursNotBothReserved
  /\ ReservedWhilePushing
  /\ TimersBelong

\* The constructors establish CornerInv.
LEMMA CornerInitInv == CornerInit => CornerInv
<1> SUFFICES ASSUME CornerInit PROVE CornerInv
  OBVIOUS
<1> USE DEF CornerInit, CollisionInit
<1>1. throttle \in [Motor -> -FullSpeed..FullSpeed]
  <2>1. AllStopped \in [Motor -> -FullSpeed..FullSpeed]
    BY MotorAssumption DEF AllStopped
  <2>2. PICK th \in StartFeedConveyor(AllStopped, 1) : throttle \in StartFeedConveyor(th, 3)
    OBVIOUS
  <2>3. th \in [Motor -> -FullSpeed..FullSpeed]
    BY <2>1, <2>2, FeedConveyorEffect
  <2> QED BY <2>2, <2>3, FeedConveyorEffect
<1>2. CornerTypeOK
  BY <1>1, CornerAssumption, CollisionAssumption
  DEF CornerTypeOK, CollisionTypeOK, MotorTypeOK, CornerState
<1>3. NeighboursNotBothReserved
  BY AdjacentSymmetric DEF NeighboursNotBothReserved
<1>4. ReservedWhilePushing
  BY DEF ReservedWhilePushing, InPush
<1>5. TimersBelong
  BY DEF TimersBelong
<1> QED BY <1>2, <1>3, <1>4, <1>5 DEF CornerInv

\* A step of the corners in which a switch may also be reported late, when
\* its pusher no longer moves.
CornerStep ==
  \/ \E c \in Corner : (\E b : ProcessEvent(c, b)) \/ CepStep(c) \/ TimerStep(c)
  \/ ClockTick

\* The throttle settings stay well formed in every step (set_speed).
LEMMA ThrottleStep ==
  ASSUME CornerTypeOK, CornerStep
  PROVE  MotorTypeOK'
<1> USE DEF MotorTypeOK
<1>0. throttle \in [Motor -> -FullSpeed..FullSpeed]
  BY DEF CornerTypeOK
<1>1. ASSUME NEW c \in Corner, NEW b, ProcessEvent(c, b) PROVE MotorTypeOK'
  <2>1. Pusher(c) \in Motor /\ -PushSpeed \in Int /\ 0 \in Int
    BY PusherMotor, CornerAssumption
  <2>2. CASE HandleIdle(c, b)
    BY <1>0, <2>2, FeedConveyorEffect DEF HandleIdle
  <2>3. CASE HandleExtending(c, b)
    BY <1>0, <2>1, <2>3, SetSpeedEffect DEF HandleExtending, StopMotor
  <2>4. CASE HandleWaitingForConfirmation(c, b)
    BY <1>0, <2>1, <2>4, SetSpeedEffect DEF HandleWaitingForConfirmation
  <2>5. CASE HandleRetracting(c, b)
    BY <1>0, <2>1, <2>5, SetSpeedEffect DEF HandleRetracting, StopMotor
  <2> QED BY <1>1, <2>2, <2>3, <2>4, <2>5 DEF ProcessEvent
<1>2. ASSUME NEW c \in Corner, CepStep(c) PROVE MotorTypeOK'
  <2>1. CASE ArmHandshake(c)
    BY <1>0, <2>1 DEF ArmHandshake
  <2>2. CASE ReturnToIdle(c)
    BY <1>0, <2>2, FeedConveyorEffect DEF ReturnToIdle
  <2> QED BY <1>2, <2>1, <2>2 DEF CepStep
<1>3. ASSUME NEW c \in Corner, TimerStep(c) PROVE MotorTypeOK'
  <2>1. Pusher(c) \in Motor /\ PushSpeed \in Int
    BY PusherMotor, CornerAssumption
  <2>2. CASE ExtendPusher(c)
    BY <1>0, <2>1, <2>2, SetSpeedEffect DEF ExtendPusher
  <2>3. CASE ~ExtendPusher(c)
    BY <1>0, <1>3, <2>3
    DEF TimerStep, FinalApproachComplete, TryPush, HandshakeExpires, HandshakeTimeout
  <2> QED BY <2>2, <2>3
<1>4. CASE ClockTick
  BY <1>0, <1>4 DEF ClockTick
<1> QED BY <1>1, <1>2, <1>3, <1>4 DEF CornerStep

\* Every step keeps CornerInv, one case for each action.
LEMMA CornerInvKept == CornerInv /\ [CornerStep]_cornerVars => CornerInv'
<1> SUFFICES ASSUME CornerInv, [CornerStep]_cornerVars PROVE CornerInv'
  OBVIOUS
<1> USE DEF CornerInv, CornerTypeOK, CollisionTypeOK, CornerState,
            NeighboursNotBothReserved, ReservedWhilePushing, InPush, TimersBelong
<1>a. CornerStep => MotorTypeOK'
  BY ThrottleStep
<1>b. \A c \in Corner : Adjacent(c) \subseteq Corner
  BY AdjacentSymmetric
<1>1. ASSUME NEW c \in Corner, NEW b, ProcessEvent(c, b), MotorTypeOK' PROVE CornerInv'
  <2>1. CASE HandleIdle(c, b)
    BY <1>1, <1>b, <2>1 DEF HandleIdle, TransitionTo, collisionVars
  <2>2. CASE HandleExtending(c, b)
    BY <1>1, <1>b, <2>2 DEF ProcessEvent, HandleExtending, TransitionTo, collisionVars, timerVars
  <2>3. CASE HandleWaitingForConfirmation(c, b)
    BY <1>1, <1>b, <2>3 DEF ProcessEvent, HandleWaitingForConfirmation, TransitionTo, ClearHandshakeWait
  <2>4. CASE HandleRetracting(c, b)
    <3> USE DEF ProcessEvent, HandleRetracting
    <3>1. UNCHANGED <<corner_state, timerVars>> /\ cep_thread = 0
      BY <1>1, <2>4
    <3>2. CASE ReleaseCorner(c) /\ cep_thread' = c
      BY <1>1, <1>b, <2>4, <3>1, <3>2, CollisionAssumption DEF ReleaseCorner, timerVars
    <3>3. CASE UNCHANGED <<collisionVars, cep_thread>>
      BY <1>1, <1>b, <2>4, <3>1, <3>3 DEF timerVars, collisionVars
    <3> QED BY <2>4, <3>2, <3>3
  <2> QED BY <1>1, <2>1, <2>2, <2>3, <2>4 DEF ProcessEvent
<1>2. ASSUME NEW c \in Corner, CepStep(c), MotorTypeOK' PROVE CornerInv'
  <2>1. CASE ArmHandshake(c)
    BY <1>2, <1>b, <2>1 DEF ArmHandshake, SetHandshakeWait, TransitionTo
  <2>2. CASE ReturnToIdle(c)
    BY <1>2, <1>b, <2>2 DEF ReturnToIdle, TransitionTo, timerVars, collisionVars
  <2> QED BY <1>2, <2>1, <2>2 DEF CepStep
<1>3. ASSUME NEW c \in Corner, TimerStep(c), MotorTypeOK' PROVE CornerInv'
  <2>1. CASE FinalApproachComplete(c)
    BY <1>3, <1>b, <2>1 DEF FinalApproachComplete, TransitionTo, collisionVars
  <2>2. CASE TryPush(c)
    BY <1>3, <1>b, <2>2, AdjacentSymmetric DEF TryPush, RequestCorner, CornerFree, TransitionTo
  <2>3. CASE ExtendPusher(c)
    BY <1>3, <1>b, <2>3 DEF ExtendPusher, collisionVars
  <2>4. CASE HandshakeExpires(c)
    BY <1>3, <1>b, <2>4, CornerAssumption DEF HandshakeExpires, collisionVars
  <2>5. CASE HandshakeTimeout(c)
    BY <1>3, <1>b, <2>5, CornerAssumption DEF HandshakeTimeout, ClearHandshakeWait
  <2> QED BY <1>3, <2>1, <2>2, <2>3, <2>4, <2>5 DEF TimerStep
<1>4. CASE ClockTick /\ MotorTypeOK'
  BY <1>4, <1>b, CollisionAssumption DEF ClockTick, Tick, timerVars
<1>5. CASE UNCHANGED cornerVars
  BY <1>5, <1>b DEF cornerVars, timerVars, collisionVars, MotorTypeOK
<1> QED BY <1>a, <1>1, <1>2, <1>3, <1>4, <1>5 DEF CornerStep

LEMMA CornerStepInv == CornerInv /\ [CornerNext]_cornerVars => CornerInv'
<1>1. CornerNext => CornerStep
  BY DEF CornerNext, CornerStep, SensorEvent
<1> QED BY <1>1, CornerInvKept

\* For every instance, with or without failing motor writes and log_event:
\* the variables stay in their types, and CornerInv holds throughout.
THEOREM CornerInvariant == CornerSpec => []CornerInv
BY CornerInitInv, CornerStepInv, PTL DEF CornerSpec

\* The state of the corner controllers is well formed: throttles stay in
\* [-1.0, 1.0] and no more timeout threads are in flight than are allowed for.
THEOREM CornerTypeCorrect == CornerSpec => []CornerTypeOK
<1>1. CornerInv => CornerTypeOK
  BY DEF CornerInv
<1> QED BY <1>1, CornerInvariant, PTL

\* request_corner never reserves two neighbouring corners, whatever fails.
THEOREM NeighboursNeverReserved == CornerSpec => []NeighboursNotBothReserved
<1>1. CornerInv => NeighboursNotBothReserved
  BY DEF CornerInv
<1> QED BY <1>1, CornerInvariant, PTL

\* A corner holds its reservation exactly from the grant to release_corner,
\* through the jam timeout and through a failing log_event.
THEOREM ReservationMatchesPush == CornerSpec => []ReservedWhilePushing
<1>1. CornerInv => ReservedWhilePushing
  BY DEF CornerInv
<1> QED BY <1>1, CornerInvariant, PTL

\* The two parts of TimersMatchState that stop() breaks when it cancels timers.
StatesHaveTimers ==
  \A c \in Corner :
    /\ corner_state[c] = "final_approach" => approach_timer[c]
    /\ corner_state[c] = "ready_to_push" => push_timer[c]

FlagsTakenDown ==
  \A c \in Corner : corners_waiting_handshake[c] => handshake_timer[c] \/ timeout_threads[c] > 0

\* A corner in FINAL_APPROACH or READY_TO_PUSH has the timer that takes it
\* further, and no step takes it away.
LEMMA StatesStepInv ==
  ASSUME CornerInv, StatesHaveTimers, [CornerNext]_cornerVars
  PROVE  StatesHaveTimers'
<1> USE DEF StatesHaveTimers, TransitionTo, timerVars
<1>a. /\ corner_state \in [Corner -> CornerState]
      /\ approach_timer \in [Corner -> BOOLEAN] /\ push_timer \in [Corner -> BOOLEAN]
      /\ TimersBelong
  BY DEF CornerInv, CornerTypeOK
<1>1. ASSUME NEW c \in Corner, NEW b, ProcessEvent(c, b) PROVE StatesHaveTimers'
  BY <1>a, <1>1 DEF ProcessEvent, HandleIdle, HandleExtending,
                    HandleWaitingForConfirmation, HandleRetracting
<1>2. ASSUME NEW c \in Corner, CepStep(c) PROVE StatesHaveTimers'
  BY <1>a, <1>2 DEF CepStep, ArmHandshake, ReturnToIdle
<1>3. ASSUME NEW c \in Corner, TimerStep(c) PROVE StatesHaveTimers'
  BY <1>a, <1>3 DEF TimerStep, FinalApproachComplete, TryPush, ExtendPusher,
                    HandshakeExpires, HandshakeTimeout, TimersBelong
<1>4. CASE ClockTick \/ UNCHANGED cornerVars
  BY <1>a, <1>4 DEF ClockTick, cornerVars
<1> QED BY <1>1, <1>2, <1>3, <1>4 DEF CornerNext, SensorEvent

\* The timer that is cancelled or expires takes the flag with it, or leaves a
\* callback that does; a callback that ends has taken the flag down.
LEMMA FlagsStepInv ==
  ASSUME CornerInv, FlagsTakenDown, [CornerNext]_cornerVars
  PROVE  FlagsTakenDown'
<1> USE DEF FlagsTakenDown
<1>a. /\ handshake_timer \in [Corner -> BOOLEAN]
      /\ corners_waiting_handshake \in [Corner -> BOOLEAN]
      /\ timeout_threads \in [Corner -> 0..MaxTimeoutThreads] /\ MaxTimeoutThreads \in Nat
  BY CornerAssumption DEF CornerInv, CornerTypeOK, CollisionTypeOK
<1>1. ASSUME NEW c \in Corner, NEW b, HandleWaitingForConfirmation(c, b) PROVE FlagsTakenDown'
  BY <1>a, <1>1 DEF HandleWaitingForConfirmation, ClearHandshakeWait
<1>2. ASSUME NEW c \in Corner, ArmHandshake(c) PROVE FlagsTakenDown'
  BY <1>a, <1>2 DEF ArmHandshake, SetHandshakeWait
<1>3. ASSUME NEW c \in Corner, HandshakeExpires(c) PROVE FlagsTakenDown'
  BY <1>a, <1>3 DEF HandshakeExpires, collisionVars
<1>4. ASSUME NEW c \in Corner, HandshakeTimeout(c) PROVE FlagsTakenDown'
  BY <1>a, <1>4 DEF HandshakeTimeout, ClearHandshakeWait
<1>5. ASSUME UNCHANGED <<handshake_timer, timeout_threads, corners_waiting_handshake>>
      PROVE  FlagsTakenDown'
  BY <1>a, <1>5
<1>6. ASSUME NEW c \in Corner, NEW b, HandleIdle(c, b) \/ HandleExtending(c, b) \/ HandleRetracting(c, b)
      PROVE  UNCHANGED <<handshake_timer, timeout_threads, corners_waiting_handshake>>
  BY <1>6 DEF HandleIdle, HandleExtending, HandleRetracting, ReleaseCorner, collisionVars, timerVars
<1>7. ASSUME NEW c \in Corner,
             ReturnToIdle(c) \/ FinalApproachComplete(c) \/ TryPush(c) \/ ExtendPusher(c)
      PROVE  UNCHANGED <<handshake_timer, timeout_threads, corners_waiting_handshake>>
  BY <1>7 DEF ReturnToIdle, FinalApproachComplete, TryPush, ExtendPusher, RequestCorner,
              collisionVars, timerVars
<1>8. CASE ClockTick \/ UNCHANGED cornerVars
  BY <1>5, <1>8 DEF ClockTick, Tick, cornerVars, collisionVars, timerVars
<1> QED BY <1>1, <1>2, <1>3, <1>4, <1>5, <1>6, <1>7, <1>8
        DEF CornerNext, SensorEvent, ProcessEvent, CepStep, TimerStep

\* No timer and no handshake flag outlives the state that started it, no
\* corner waits for a timer that is not running, and a handshake flag that is
\* up has a timer or a callback that takes it down.
THEOREM TimersNeverStale == CornerSpec => []TimersMatchState
<1>1. CornerInit => StatesHaveTimers /\ FlagsTakenDown
  BY DEF CornerInit, CollisionInit, StatesHaveTimers, FlagsTakenDown
<1>2. CornerInv /\ (StatesHaveTimers /\ FlagsTakenDown) /\ [CornerNext]_cornerVars =>
        (StatesHaveTimers /\ FlagsTakenDown)'
  BY StatesStepInv, FlagsStepInv
<1>3. CornerInv /\ StatesHaveTimers /\ FlagsTakenDown => TimersMatchState
  BY DEF CornerInv, TimersBelong, StatesHaveTimers, FlagsTakenDown, TimersMatchState
<1> QED BY <1>1, <1>2, <1>3, CornerInvariant, PTL DEF CornerSpec

-----------------------------------------------------------------------------
(* The pusher motors, when every write to a HAT succeeds.                  *)

\* An operation on a feed conveyor leaves the pushers alone.
LEMMA FeedLeavesPushers ==
  ASSUME MotorTypeOK, NEW c \in Corner,
         throttle' \in StartFeedConveyor(throttle, c) \cup StopFeedConveyor(throttle, c)
  PROVE  \A d \in Corner : throttle'[Pusher(d)] = throttle[Pusher(d)]
BY FeedConveyorEffect, PusherMotor DEF MotorTypeOK

\* An operation on one pusher sets it, and leaves the others alone.
LEMMA PusherWrite ==
  ASSUME ~HatFaults, MotorTypeOK, NEW c \in Corner, NEW speed \in Int,
         throttle' \in SetSpeed(throttle, Pusher(c), speed)
  PROVE  /\ throttle'[Pusher(c)] = Clamp(speed)
         /\ \A d \in Corner : d # c => throttle'[Pusher(d)] = throttle[Pusher(d)]
BY SetSpeedEffect, PusherMotor DEF MotorTypeOK

\* The clamp keeps the sign of a speed, so a started motor does move.
LEMMA ClampSign ==
  /\ Clamp(0) = 0
  /\ Clamp(PushSpeed) \in Int /\ Clamp(PushSpeed) > 0
  /\ Clamp(-PushSpeed) \in Int /\ Clamp(-PushSpeed) < 0
BY MotorAssumption, CornerAssumption DEF Clamp

\* The constructors start no pusher.
LEMMA PusherInit ==
  ASSUME ~HatFaults, CornerInit
  PROVE  \A c \in Corner : throttle[Pusher(c)] = 0
<1>1. AllStopped \in [Motor -> -FullSpeed..FullSpeed]
  BY MotorAssumption DEF AllStopped
<1>2. PICK th \in StartFeedConveyor(AllStopped, 1) : throttle \in StartFeedConveyor(th, 3)
  BY DEF CornerInit
<1>3. /\ th \in [Motor -> -FullSpeed..FullSpeed]
      /\ \A n \in 3..8 : th[n] = AllStopped[n]
  BY <1>1, <1>2, FeedConveyorEffect
<1>4. \A n \in 3..8 : throttle[n] = th[n]
  BY <1>2, <1>3, FeedConveyorEffect
<1>5. \A n \in 3..8 : throttle[n] = 0
  BY <1>3, <1>4 DEF AllStopped
<1> QED BY <1>5, PusherMotor

PusherInv == CornerInv /\ PusherFollowsState

\* What a step may do to the pushers: nothing, or start one forward, stop
\* it at the EXT switch, send it back, or stop it at the RET switch.
PusherStep ==
  \/ \A d \in Corner :
        /\ throttle'[Pusher(d)] = throttle[Pusher(d)]
        /\ PusherOut(d)' <=> PusherOut(d)
  \/ \E c \in Corner :
        /\ \A d \in Corner : d # c =>
              /\ throttle'[Pusher(d)] = throttle[Pusher(d)]
              /\ PusherOut(d)' <=> PusherOut(d)
        /\ \/ /\ throttle[Pusher(c)] = 0 /\ throttle'[Pusher(c)] > 0
              /\ InPush(c) /\ ~PusherOut(c) /\ PusherOut(c)'
           \/ /\ throttle[Pusher(c)] > 0 /\ throttle'[Pusher(c)] = 0
              /\ PusherOut(c) /\ PusherOut(c)'
           \/ /\ throttle[Pusher(c)] = 0 /\ throttle'[Pusher(c)] < 0
              /\ PusherOut(c) /\ PusherOut(c)'
           \/ /\ throttle[Pusher(c)] < 0 /\ throttle'[Pusher(c)] = 0
              /\ PusherOut(c) /\ ~PusherOut(c)'

\* Every step keeps PusherFollowsState and is a PusherStep, one case for each
\* action.
LEMMA PusherStepInv ==
  ASSUME ~HatFaults, PusherInv, [CornerNext]_cornerVars
  PROVE  PusherFollowsState' /\ PusherStep
<1> USE DEF PusherFollowsState, PusherOut
<1>a. MotorTypeOK /\ \A c \in Corner : throttle[Pusher(c)] \in Int
  BY PusherMotor, MotorAssumption DEF PusherInv, CornerInv, CornerTypeOK, MotorTypeOK
<1>b. /\ corner_state \in [Corner -> CornerState]
      /\ extend_step \in [Corner -> BOOLEAN]
  BY DEF PusherInv, CornerInv, CornerTypeOK
<1>c. PusherFollowsState
  BY DEF PusherInv
<1>1. ASSUME NEW c \in Corner, NEW b, SensorMayFire(c, b), ProcessEvent(c, b)
      PROVE  PusherFollowsState' /\ PusherStep
  <2>0. 0 \in Int /\ -PushSpeed \in Int /\ cep_thread = 0 /\ c # 0
    BY <1>1, CornerAssumption DEF ProcessEvent
  <2>1. CASE HandleIdle(c, b)
    <3>1. \A d \in Corner : throttle'[Pusher(d)] = throttle[Pusher(d)]
      BY <1>a, <2>1, FeedLeavesPushers DEF HandleIdle
    <3> QED BY <1>b, <1>c, <2>1, <3>1 DEF HandleIdle, TransitionTo, PusherStep
  <2>2. CASE HandleExtending(c, b)
    <3>1. /\ throttle'[Pusher(c)] = 0
          /\ \A d \in Corner : d # c => throttle'[Pusher(d)] = throttle[Pusher(d)]
      BY <1>a, <2>0, <2>2, PusherWrite, ClampSign DEF HandleExtending, StopMotor
    <3>2. throttle[Pusher(c)] > 0
      BY <1>1, <2>2 DEF SensorMayFire, HandleExtending
    <3> QED BY <1>a, <1>b, <1>c, <2>0, <2>2, <3>1, <3>2
            DEF HandleExtending, TransitionTo, timerVars, PusherStep
  <2>3. CASE HandleWaitingForConfirmation(c, b)
    <3>1. /\ throttle'[Pusher(c)] \in Int /\ throttle'[Pusher(c)] < 0
          /\ \A d \in Corner : d # c => throttle'[Pusher(d)] = throttle[Pusher(d)]
      BY <1>a, <2>0, <2>3, PusherWrite, ClampSign DEF HandleWaitingForConfirmation
    <3>2. throttle[Pusher(c)] = 0
      BY <1>a, <1>c, <2>3 DEF HandleWaitingForConfirmation
    <3> QED BY <1>a, <1>b, <1>c, <2>0, <2>3, <3>1, <3>2
            DEF HandleWaitingForConfirmation, TransitionTo, PusherStep
  <2>4. CASE HandleRetracting(c, b)
    <3>1. /\ throttle'[Pusher(c)] = 0
          /\ \A d \in Corner : d # c => throttle'[Pusher(d)] = throttle[Pusher(d)]
      BY <1>a, <2>0, <2>4, PusherWrite, ClampSign DEF HandleRetracting, StopMotor
    <3>2. throttle[Pusher(c)] < 0
      BY <1>1, <2>4 DEF SensorMayFire, HandleRetracting
    <3>3. cep_thread' = c \/ cep_thread' = cep_thread
      BY <2>4 DEF HandleRetracting
    <3> QED BY <1>a, <1>b, <1>c, <2>0, <2>4, <3>1, <3>2, <3>3
            DEF HandleRetracting, timerVars, PusherStep
  <2> QED BY <1>1, <2>1, <2>2, <2>3, <2>4 DEF ProcessEvent
<1>2. ASSUME NEW c \in Corner, CepStep(c) PROVE PusherFollowsState' /\ PusherStep
  <2>1. CASE ArmHandshake(c)
    BY <1>b, <1>c, <2>1 DEF ArmHandshake, TransitionTo, PusherStep
  <2>2. CASE ReturnToIdle(c)
    <3>1. \A d \in Corner : throttle'[Pusher(d)] = throttle[Pusher(d)]
      BY <1>a, <2>2, FeedLeavesPushers DEF ReturnToIdle
    <3> QED BY <1>b, <1>c, <2>2, <3>1 DEF ReturnToIdle, TransitionTo, timerVars, PusherStep
  <2> QED BY <1>2, <2>1, <2>2 DEF CepStep
<1>3. ASSUME NEW c \in Corner, TimerStep(c) PROVE PusherFollowsState' /\ PusherStep
  <2>0. TimersBelong
    BY DEF PusherInv, CornerInv
  <2>1. CASE FinalApproachComplete(c)
    BY <1>b, <1>c, <2>0, <2>1
    DEF FinalApproachComplete, TransitionTo, TimersBelong, PusherStep
  <2>2. CASE TryPush(c)
    <3>1. throttle[Pusher(c)] = 0
      BY <1>a, <1>c, <2>0, <2>2 DEF TryPush, TimersBelong
    <3> QED BY <1>b, <1>c, <2>0, <2>2, <3>1
            DEF TryPush, TransitionTo, TimersBelong, PusherStep
  <2>3. CASE ExtendPusher(c)
    <3>1. corner_state[c] = "extending" /\ throttle[Pusher(c)] = 0
      BY <1>a, <1>c, <2>3 DEF ExtendPusher
    <3>2. CASE throttle' \in SetSpeed(throttle, Pusher(c), PushSpeed)
      <4>1. /\ throttle'[Pusher(c)] \in Int /\ throttle'[Pusher(c)] > 0
            /\ \A d \in Corner : d # c => throttle'[Pusher(d)] = throttle[Pusher(d)]
        BY <1>a, <3>2, PusherWrite, ClampSign, CornerAssumption
      <4> QED BY <1>a, <1>b, <1>c, <2>3, <3>1, <4>1 DEF ExtendPusher, PusherStep, InPush
    <3>3. CASE UNCHANGED throttle
      BY <1>b, <1>c, <2>3, <3>1, <3>3 DEF ExtendPusher, PusherStep
    <3> QED BY <2>3, <3>2, <3>3 DEF ExtendPusher
  <2>4. CASE HandshakeExpires(c) \/ HandshakeTimeout(c)
    BY <1>b, <1>c, <2>4 DEF HandshakeExpires, HandshakeTimeout, PusherStep
  <2> QED BY <1>3, <2>1, <2>2, <2>3, <2>4 DEF TimerStep
<1>4. CASE ClockTick \/ UNCHANGED cornerVars
  BY <1>b, <1>c, <1>4 DEF ClockTick, cornerVars, timerVars, PusherStep
<1> QED BY <1>1, <1>2, <1>3, <1>4 DEF CornerNext, SensorEvent

\* PusherInv holds throughout when no motor write fails.
LEMMA PusherInvariant ==
  ASSUME ~HatFaults
  PROVE  CornerSpec => []PusherInv
<1>1. CornerInit => PusherInv
  BY CornerInitInv, PusherInit DEF PusherInv, PusherFollowsState, CornerInit
<1>2. PusherInv /\ [CornerNext]_cornerVars => PusherInv'
  BY CornerStepInv, PusherStepInv DEF PusherInv
<1> QED BY <1>1, <1>2, PTL DEF CornerSpec

\* Out of its rest position, a pusher's corner is reserved.
LEMMA OutIsReserved ==
  ASSUME PusherInv, NEW c \in Corner, PusherOut(c)
  PROVE  corners_occupied[c]
<1>1. throttle[Pusher(c)] \in Int
  BY PusherMotor, MotorAssumption DEF PusherInv, CornerInv, CornerTypeOK, MotorTypeOK
<1>2. InPush(c)
  BY <1>1 DEF PusherInv, PusherFollowsState, PusherOut, InPush
<1> QED BY <1>2 DEF PusherInv, CornerInv, ReservedWhilePushing

\* Motors follow the states: a pusher runs only while its corner extends or
\* retracts under a reservation (_extend_pusher, _retract_pusher).
THEOREM PushersFollowStates ==
  ASSUME ~HatFaults
  PROVE  CornerSpec => []PusherFollowsState
<1>1. PusherInv => PusherFollowsState
  BY DEF PusherInv
<1> QED BY <1>1, PusherInvariant, PTL

\* Two neighbouring pushers are never out together, for every interleaving
\* of the CEP thread and the timer threads.
THEOREM NeighboursNeverBothOut ==
  ASSUME ~HatFaults
  PROVE  CornerSpec => []NeighboursNotBothOut
<1>1. PusherInv => NeighboursNotBothOut
  BY OutIsReserved, AdjacentSymmetric
  DEF NeighboursNotBothOut, PusherInv, CornerInv, NeighboursNotBothReserved
<1> QED BY <1>1, PusherInvariant, PTL

\* No handler or callback reverses a pusher that is still moving.
THEOREM PusherNeverReversed ==
  ASSUME ~HatFaults
  PROVE  CornerSpec => NeverReversedUnderWay
<1>1. PusherInv /\ PusherInv' /\ [CornerNext]_cornerVars =>
        [\A c \in Corner : throttle[Pusher(c)] * throttle'[Pusher(c)] >= 0]_cornerVars
  <2> SUFFICES ASSUME PusherInv, PusherInv', [CornerNext]_cornerVars, NEW c \in Corner
               PROVE  throttle[Pusher(c)] * throttle'[Pusher(c)] >= 0
    OBVIOUS
  <2>1. throttle[Pusher(c)] \in Int /\ throttle'[Pusher(c)] \in Int
    BY PusherMotor, MotorAssumption DEF PusherInv, CornerInv, CornerTypeOK, MotorTypeOK
  <2>2. \/ throttle'[Pusher(c)] = throttle[Pusher(c)]
        \/ throttle[Pusher(c)] = 0
        \/ throttle'[Pusher(c)] = 0
    BY PusherStepInv DEF PusherStep
  <2>3. \A x \in Int : x * x >= 0 /\ 0 * x >= 0 /\ x * 0 >= 0
    OBVIOUS
  <2> QED BY <2>1, <2>2, <2>3
<1> QED BY <1>1, PusherInvariant, PTL DEF CornerSpec, NeverReversedUnderWay

\* The controllers implement PusherExclusion.
THEOREM CornersImplementExclusion ==
  ASSUME ~HatFaults
  PROVE  CornerSpec => ImplementsPusherExclusion
<1> DEFINE out == {c \in Corner : PusherOut(c)}
<1>1. CornerInit => Exclusion!PushInit
  BY PusherInit DEF PusherOut, CornerInit, Exclusion!PushInit
<1>2. PusherInv /\ [CornerNext]_cornerVars => [Exclusion!PushNext]_out
  <2> SUFFICES ASSUME PusherInv, [CornerNext]_cornerVars
               PROVE  Exclusion!PushNext \/ out' = out
    OBVIOUS
  <2> USE DEF Exclusion!PushNext, Exclusion!Corner
  <2>1. PusherStep
    BY PusherStepInv
  <2>2. CASE \A d \in Corner : PusherOut(d)' <=> PusherOut(d)
    BY <2>2
  <2>3. ASSUME NEW c \in Corner,
               \A d \in Corner : d # c => (PusherOut(d)' <=> PusherOut(d)),
               InPush(c), ~PusherOut(c), PusherOut(c)'
        PROVE  Exclusion!LeaveRest(c)
    <3>1. corners_occupied[c]
      BY <2>3 DEF PusherInv, CornerInv, ReservedWhilePushing
    <3>2. \A d \in Adjacent(c) : ~PusherOut(d)
      BY <3>1, OutIsReserved, AdjacentSymmetric
      DEF PusherInv, CornerInv, NeighboursNotBothReserved
    <3>3. out' = out \cup {c}
      BY <2>3
    <3> QED BY <2>3, <3>2, <3>3 DEF Exclusion!LeaveRest, Exclusion!Adjacent, Adjacent
  <2>4. ASSUME NEW c \in Corner,
               \A d \in Corner : d # c => (PusherOut(d)' <=> PusherOut(d)),
               PusherOut(c), ~PusherOut(c)'
        PROVE  Exclusion!ComeToRest(c)
    <3>1. out' = out \ {c}
      BY <2>4
    <3> QED BY <2>4, <3>1 DEF Exclusion!ComeToRest
  <2> QED BY <2>1, <2>2, <2>3, <2>4 DEF PusherStep
<1> QED BY <1>1, <1>2, PusherInvariant, PTL
        DEF CornerSpec, ImplementsPusherExclusion, Exclusion!PushSpec

-----------------------------------------------------------------------------
(* The feed conveyors, when every write to a HAT succeeds.                 *)

\* The two feed conveyors have motors of their own, none of them a pusher.
LEMMA FeedMotors ==
  /\ FedByConveyor \subseteq Corner
  /\ \A c \in FedByConveyor : FeedMotor(c) \in Motor
  /\ \A c, d \in FedByConveyor : c # d => FeedMotor(c) # FeedMotor(d)
  /\ \A c \in FedByConveyor, d \in Corner : FeedMotor(c) # Pusher(d)
BY DEF FedByConveyor, FeedMotor, Pusher

\* Starting or stopping the conveyor of a corner does it, and leaves the
\* other conveyor alone (_start_feed_conveyor, _stop_feed_conveyor).
LEMMA FeedConveyorWrite ==
  ASSUME ~HatFaults,
         NEW th \in [Motor -> -FullSpeed..FullSpeed], NEW c \in Corner, NEW t
  PROVE  /\ t \in StartFeedConveyor(th, c) => \A d \in FedByConveyor :
              IF d = c THEN t[FeedMotor(d)] # 0 ELSE t[FeedMotor(d)] = th[FeedMotor(d)]
         /\ t \in StopFeedConveyor(th, c) => \A d \in FedByConveyor :
              IF d = c THEN t[FeedMotor(d)] = 0 ELSE t[FeedMotor(d)] = th[FeedMotor(d)]
<1>1. Clamp(0) = 0 /\ Clamp(ConveyorSpeed) # 0 /\ ConveyorSpeed \in Int /\ 0 \in Int
  BY MotorAssumption, CornerAssumption DEF Clamp
<1>2. CASE c \notin FedByConveyor
  BY <1>2 DEF StartFeedConveyor, StopFeedConveyor
<1>3. CASE c \in FedByConveyor
  BY <1>1, <1>3, FeedMotors, SetSpeedEffect DEF StartFeedConveyor, StopFeedConveyor, StopMotor
<1> QED BY <1>2, <1>3

\* A write to a pusher leaves the conveyors alone.
LEMMA PusherLeavesConveyors ==
  ASSUME MotorTypeOK, NEW c \in Corner, NEW speed \in Int,
         throttle' \in SetSpeed(throttle, Pusher(c), speed)
  PROVE  \A d \in FedByConveyor : throttle'[FeedMotor(d)] = throttle[FeedMotor(d)]
BY SetSpeedEffect, PusherMotor, FeedMotors DEF MotorTypeOK

\* Every step keeps ConveyorRunsWhenIdle, one case for each action.  A timer
\* callback finds its corner in the state that started it, so none of them
\* takes a corner out of idle behind the back of its conveyor.
LEMMA ConveyorStepInv ==
  ASSUME ~HatFaults, CornerInv, ConveyorRunsWhenIdle, [CornerNext]_cornerVars
  PROVE  ConveyorRunsWhenIdle'
<1> USE FeedMotors DEF ConveyorRunsWhenIdle
<1>a. /\ MotorTypeOK /\ throttle \in [Motor -> -FullSpeed..FullSpeed]
      /\ corner_state \in [Corner -> CornerState]
      /\ TimersBelong
  BY DEF CornerInv, CornerTypeOK, MotorTypeOK
<1>b. 0 \in Int /\ PushSpeed \in Int /\ -PushSpeed \in Int
  BY CornerAssumption
<1>1. ASSUME NEW c \in Corner, NEW b, ProcessEvent(c, b) PROVE ConveyorRunsWhenIdle'
  <2>1. CASE HandleIdle(c, b)
    BY <1>a, <2>1, FeedConveyorWrite DEF HandleIdle, TransitionTo
  <2>2. CASE HandleExtending(c, b)
    BY <1>a, <1>b, <2>2, PusherLeavesConveyors DEF HandleExtending, StopMotor, TransitionTo
  <2>3. CASE HandleWaitingForConfirmation(c, b)
    BY <1>a, <1>b, <2>3, PusherLeavesConveyors DEF HandleWaitingForConfirmation, TransitionTo
  <2>4. CASE HandleRetracting(c, b)
    BY <1>a, <1>b, <2>4, PusherLeavesConveyors DEF HandleRetracting, StopMotor
  <2> QED BY <1>1, <2>1, <2>2, <2>3, <2>4 DEF ProcessEvent
<1>2. ASSUME NEW c \in Corner, CepStep(c) PROVE ConveyorRunsWhenIdle'
  <2>1. CASE ArmHandshake(c)
    BY <1>a, <2>1 DEF ArmHandshake, TransitionTo
  <2>2. CASE ReturnToIdle(c)
    BY <1>a, <2>2, FeedConveyorWrite DEF ReturnToIdle, TransitionTo
  <2> QED BY <1>2, <2>1, <2>2 DEF CepStep
<1>3. ASSUME NEW c \in Corner, TimerStep(c) PROVE ConveyorRunsWhenIdle'
  <2>1. CASE ExtendPusher(c)
    BY <1>a, <1>b, <2>1, PusherLeavesConveyors DEF ExtendPusher
  <2>2. CASE FinalApproachComplete(c) \/ TryPush(c)
    BY <1>a, <2>2 DEF FinalApproachComplete, TryPush, TransitionTo, TimersBelong
  <2>3. CASE HandshakeExpires(c) \/ HandshakeTimeout(c)
    BY <2>3 DEF HandshakeExpires, HandshakeTimeout
  <2> QED BY <1>3, <2>1, <2>2, <2>3 DEF TimerStep
<1>4. CASE ClockTick \/ UNCHANGED cornerVars
  BY <1>4 DEF ClockTick, cornerVars
<1> QED BY <1>1, <1>2, <1>3, <1>4 DEF CornerNext, SensorEvent

\* A main conveyor runs exactly while the corner at its end is idle, for
\* every interleaving: no transfer, jam or late callback leaves it standing
\* in front of an idle corner or running into a busy one.
THEOREM ConveyorsRunWhenIdle ==
  ASSUME ~HatFaults
  PROVE  CornerSpec => []ConveyorRunsWhenIdle
<1>1. CornerInit => ConveyorRunsWhenIdle
  <2> SUFFICES ASSUME CornerInit PROVE ConveyorRunsWhenIdle
    OBVIOUS
  <2>1. AllStopped \in [Motor -> -FullSpeed..FullSpeed]
    BY MotorAssumption DEF AllStopped
  <2>2. PICK th \in StartFeedConveyor(AllStopped, 1) : throttle \in StartFeedConveyor(th, 3)
    BY DEF CornerInit
  <2>3. th \in [Motor -> -FullSpeed..FullSpeed] /\ th[FeedMotor(1)] # 0
    BY <2>1, <2>2, FeedConveyorEffect, FeedConveyorWrite DEF FedByConveyor
  <2>4. throttle[FeedMotor(1)] # 0 /\ throttle[FeedMotor(3)] # 0
    BY <2>2, <2>3, FeedConveyorWrite DEF FedByConveyor
  <2> QED BY <2>4 DEF CornerInit, ConveyorRunsWhenIdle, FedByConveyor
<1>2. CornerInv /\ ConveyorRunsWhenIdle /\ [CornerNext]_cornerVars => ConveyorRunsWhenIdle'
  BY ConveyorStepInv
<1> QED BY <1>1, <1>2, CornerInvariant, PTL DEF CornerSpec

=============================================================================
