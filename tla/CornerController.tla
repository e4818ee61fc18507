-------------------------- MODULE CornerController --------------------------
(***************************************************************************)
(* The four corner state machines (corner_controller.py) with the          *)
(* CollisionManager and the motors they share.                             *)
(*                                                                         *)
(* Two kinds of thread run this code.  The single CEP thread calls         *)
(* process_event; each threading.Timer calls its callback in a thread of   *)
(* its own.  A handler is one step, except where it calls something slow   *)
(* between two changes that another thread can see (log_event, an InfluxDB *)
(* write): there it is split, and the thread's position is kept in         *)
(* extend_step or cep_thread.                                              *)
(*                                                                         *)
(* An operator marked "Fault:" is a mistake the code does not make; put in *)
(* the place of the operator after it, it breaks one of the properties.    *)
(***************************************************************************)
EXTENDS CollisionManager, MotorController

CONSTANTS PushSpeed,          \* motors.corner_speed
          ConveyorSpeed,      \* motors.conveyor_speed
          LogFaults,          \* TRUE: DataLogger.log_event may raise
          MaxTimeoutThreads   \* bound: expired handshake callbacks in flight

ASSUME CornerAssumption ==
  /\ PushSpeed \in Nat \ {0}
  /\ ConveyorSpeed \in Nat \ {0}
  /\ LogFaults \in BOOLEAN
  /\ MaxTimeoutThreads \in Nat

VARIABLES
  corner_state,     \* CornerController.state
  approach_timer,   \* approach_timer[c]: the final-approach timer is running
  push_timer,       \* push_timer[c]: a thread will call _try_push
  extend_step,      \* extend_step[c]: a thread is between EXTENDING and set_speed
  handshake_timer,  \* handshake_timer[c]: the handshake timer is running
  timeout_threads,  \* timeout_threads[c]: timer threads past their cancel check
                    \*   that have yet to run _handshake_timeout
  cep_thread        \* 0, or the corner whose handler the CEP thread is inside

timerVars  == <<approach_timer, push_timer, extend_step, handshake_timer,
                timeout_threads>>
cornerVars == <<corner_state, timerVars, cep_thread, throttle, collisionVars>>

CornerState == {"idle", "final_approach", "ready_to_push", "extending",
                "pushing", "waiting_for_confirmation", "retracting"}

CornerTypeOK ==
  /\ corner_state \in [Corner -> CornerState]
  /\ approach_timer \in [Corner -> BOOLEAN]
  /\ push_timer \in [Corner -> BOOLEAN]
  /\ extend_step \in [Corner -> BOOLEAN]
  /\ handshake_timer \in [Corner -> BOOLEAN]
  /\ timeout_threads \in [Corner -> 0..MaxTimeoutThreads]
  /\ cep_thread \in 0..4
  /\ CollisionTypeOK
  /\ MotorTypeOK

-----------------------------------------------------------------------------
(* The wiring of __init__.                                                 *)

Pusher(c)       == 4 + c
FedByConveyor   == {1, 3}
FeedMotor(c)    == IF c = 1 THEN 1 ELSE 2

\* _start_feed_conveyor and _stop_feed_conveyor: nothing at corners 2 and 4.
StartFeedConveyor(th, c) ==
  IF c \in FedByConveyor THEN SetSpeed(th, FeedMotor(c), ConveyorSpeed) ELSE {th}

StopFeedConveyor(th, c) ==
  IF c \in FedByConveyor THEN StopMotor(th, FeedMotor(c)) ELSE {th}

\* _transition_to
TransitionTo(c, s) == corner_state' = [corner_state EXCEPT ![c] = s]

CornerInit ==
  /\ corner_state = [c \in Corner |-> "idle"]
  /\ approach_timer = [c \in Corner |-> FALSE]
  /\ push_timer = [c \in Corner |-> FALSE]
  /\ extend_step = [c \in Corner |-> FALSE]
  /\ handshake_timer = [c \in Corner |-> FALSE]
  /\ timeout_threads = [c \in Corner |-> 0]
  /\ cep_thread = 0
  /\ CollisionInit
  \* The constructors of corners 1 and 3 start their conveyors.
  /\ \E th \in StartFeedConveyor(AllStopped, 1) :
        throttle \in StartFeedConveyor(th, 3)

-----------------------------------------------------------------------------
(* process_event, called by the CEP thread.  An event that the handler of  *)
(* the current state does not name changes nothing: it is lost.            *)

\* _handle_idle: a conveyor that another corner needs is not stopped, and
\* the event is dropped.
HandleIdle(c, b) ==
  /\ corner_state[c] = "idle"
  /\ b = <<"POS", c>>
  /\ c \in FedByConveyor => ConveyorSafeToStop(FeedMotor(c))
  /\ throttle' \in StopFeedConveyor(throttle, c)
  /\ approach_timer' = [approach_timer EXCEPT ![c] = TRUE]
  /\ TransitionTo(c, "final_approach")
  /\ UNCHANGED <<push_timer, extend_step, handshake_timer, timeout_threads,
                 cep_thread, collisionVars>>

\* Fault: the motor keeps running against the extended limit switch.
HandleExtendingNoStop(c, b) ==
  /\ corner_state[c] = "extending"
  /\ b = <<"EXT", c>>
  /\ TransitionTo(c, "pushing")
  /\ cep_thread' = c
  /\ UNCHANGED <<throttle, timerVars, collisionVars>>

\* _handle_extending up to the slow state write of PUSHING ...
HandleExtending(c, b) ==
  /\ corner_state[c] = "extending"
  /\ b = <<"EXT", c>>
  /\ throttle' \in StopMotor(throttle, Pusher(c))
  /\ TransitionTo(c, "pushing")
  /\ cep_thread' = c
  /\ UNCHANGED <<timerVars, collisionVars>>

\* ... and the rest of it: flag the wait, start the timer, wait.
ArmHandshake(c) ==
  /\ cep_thread = c
  /\ corner_state[c] = "pushing"
  /\ SetHandshakeWait(c)
  /\ handshake_timer' = [handshake_timer EXCEPT ![c] = TRUE]
  /\ TransitionTo(c, "waiting_for_confirmation")
  /\ cep_thread' = 0
  /\ UNCHANGED <<approach_timer, push_timer, extend_step, timeout_threads, throttle>>

\* Fault: the confirmation does not cancel the handshake timer.
ConfirmWithoutCancel(c, b) ==
  /\ corner_state[c] = "waiting_for_confirmation"
  /\ b = confirmation_sensor(c)
  /\ ClearHandshakeWait(c)
  /\ TransitionTo(c, "retracting")
  /\ throttle' \in SetSpeed(throttle, Pusher(c), -PushSpeed)
  /\ UNCHANGED <<timerVars, cep_thread>>

\* _handle_waiting_for_confirmation and _retract_pusher
HandleWaitingForConfirmation(c, b) ==
  /\ corner_state[c] = "waiting_for_confirmation"
  /\ b = confirmation_sensor(c)
  /\ handshake_timer' = [handshake_timer EXCEPT ![c] = FALSE]
  /\ ClearHandshakeWait(c)
  /\ TransitionTo(c, "retracting")
  /\ throttle' \in SetSpeed(throttle, Pusher(c), -PushSpeed)
  /\ UNCHANGED <<approach_timer, push_timer, extend_step, timeout_threads, cep_thread>>

\* Fault: the corner is released with the pusher motor still running.
HandleRetractingNoStop(c, b) ==
  /\ corner_state[c] = "retracting"
  /\ b = <<"RET", c>>
  /\ ReleaseCorner(c)
  /\ cep_thread' = c
  /\ UNCHANGED <<throttle, corner_state, timerVars>>

\* _handle_retracting up to release_corner.  log_event comes before it: when
\* that raises, _deliver_event swallows the exception and the corner keeps
\* its reservation.
HandleRetracting(c, b) ==
  /\ corner_state[c] = "retracting"
  /\ b = <<"RET", c>>
  /\ throttle' \in StopMotor(throttle, Pusher(c))
  /\ \/ ReleaseCorner(c) /\ cep_thread' = c
     \/ LogFaults /\ UNCHANGED <<collisionVars, cep_thread>>
  /\ UNCHANGED <<corner_state, timerVars>>

\* Fault: the conveyor that feeds the corner is not started again.
ReturnToIdleNoRestart(c) ==
  /\ cep_thread = c
  /\ corner_state[c] = "retracting"
  /\ TransitionTo(c, "idle")
  /\ cep_thread' = 0
  /\ UNCHANGED <<throttle, timerVars, collisionVars>>

\* The rest of _handle_retracting.
ReturnToIdle(c) ==
  /\ cep_thread = c
  /\ corner_state[c] = "retracting"
  /\ throttle' \in StartFeedConveyor(throttle, c)
  /\ TransitionTo(c, "idle")
  /\ cep_thread' = 0
  /\ UNCHANGED <<timerVars, collisionVars>>

\* FINAL_APPROACH, READY_TO_PUSH and PUSHING ignore every event.
ProcessEvent(c, b) ==
  /\ cep_thread = 0
  /\ \/ HandleIdle(c, b)
     \/ HandleExtending(c, b)
     \/ HandleWaitingForConfirmation(c, b)
     \/ HandleRetracting(c, b)

-----------------------------------------------------------------------------
(* The timer callbacks, each in a thread of its own.                       *)

\* _final_approach_complete, up to its call of _try_push
FinalApproachComplete(c) ==
  /\ approach_timer[c]
  /\ approach_timer' = [approach_timer EXCEPT ![c] = FALSE]
  /\ push_timer' = [push_timer EXCEPT ![c] = TRUE]
  /\ TransitionTo(c, "ready_to_push")
  /\ UNCHANGED <<extend_step, handshake_timer, timeout_threads, cep_thread,
                 throttle, collisionVars>>

\* _try_push with the corner granted.  When it is refused, another 0.2 s
\* timer takes the place of this thread and nothing changes.
TryPush(c) ==
  /\ push_timer[c]
  /\ RequestCorner(c)
  /\ push_timer' = [push_timer EXCEPT ![c] = FALSE]
  /\ extend_step' = [extend_step EXCEPT ![c] = TRUE]
  /\ TransitionTo(c, "extending")
  /\ UNCHANGED <<approach_timer, handshake_timer, timeout_threads, cep_thread, throttle>>

\* _extend_pusher.  log_event comes first: when it raises, the thread ends
\* with the motor never started.
ExtendPusher(c) ==
  /\ extend_step[c]
  /\ extend_step' = [extend_step EXCEPT ![c] = FALSE]
  /\ \/ throttle' \in SetSpeed(throttle, Pusher(c), PushSpeed)
     \/ LogFaults /\ UNCHANGED throttle
  /\ UNCHANGED <<corner_state, approach_timer, push_timer, handshake_timer,
                 timeout_threads, cep_thread, collisionVars>>

\* The handshake timer finds that it was not cancelled.  From here on
\* cancel() comes too late.
HandshakeExpires(c) ==
  /\ handshake_timer[c]
  /\ timeout_threads[c] < MaxTimeoutThreads
  /\ handshake_timer' = [handshake_timer EXCEPT ![c] = FALSE]
  /\ timeout_threads' = [timeout_threads EXCEPT ![c] = @ + 1]
  /\ UNCHANGED <<corner_state, approach_timer, push_timer, extend_step,
                 cep_thread, throttle, collisionVars>>

\* Fault: the timeout gives the corner back with the pusher still out.
HandshakeTimeoutReleases(c) ==
  /\ timeout_threads[c] > 0
  /\ timeout_threads' = [timeout_threads EXCEPT ![c] = @ - 1]
  /\ ReleaseCorner(c)
  /\ UNCHANGED <<corner_state, approach_timer, push_timer, extend_step,
                 handshake_timer, cep_thread, throttle>>

\* Fault: the timeout leaves the handshake flag up.
HandshakeTimeoutKeepsFlag(c) ==
  /\ timeout_threads[c] > 0
  /\ timeout_threads' = [timeout_threads EXCEPT ![c] = @ - 1]
  /\ UNCHANGED <<corner_state, approach_timer, push_timer, extend_step,
                 handshake_timer, cep_thread, throttle, collisionVars>>

\* _handshake_timeout: the jam is logged and the corner stays locked.
HandshakeTimeout(c) ==
  /\ timeout_threads[c] > 0
  /\ timeout_threads' = [timeout_threads EXCEPT ![c] = @ - 1]
  /\ ClearHandshakeWait(c)
  /\ UNCHANGED <<corner_state, approach_timer, push_timer, extend_step,
                 handshake_timer, cep_thread, throttle>>

-----------------------------------------------------------------------------
\* A limit switch closes only when the pusher is moving towards it; every
\* other sensor may report at any time.  The event is taken to be handled
\* while the pusher is still moving: nothing but the handler stops it, as
\* long as the system is not being stopped.
SensorMayFire(c, b) ==
  /\ b = <<"EXT", c>> => throttle[Pusher(c)] > 0
  /\ b = <<"RET", c>> => throttle[Pusher(c)] < 0

SensorEvent(c) ==
  \E b \in CornerBarrier \cup {confirmation_sensor(c)} :
    SensorMayFire(c, b) /\ ProcessEvent(c, b)

ClockTick == Tick /\ UNCHANGED <<corner_state, timerVars, cep_thread, throttle>>

TimerStep(c) ==
  \/ FinalApproachComplete(c)
  \/ TryPush(c)
  \/ ExtendPusher(c)
  \/ HandshakeExpires(c)
  \/ HandshakeTimeout(c)

CepStep(c) == ArmHandshake(c) \/ ReturnToIdle(c)

CornerNext ==
  \/ \E c \in Corner : SensorEvent(c) \/ CepStep(c) \/ TimerStep(c)
  \/ ClockTick

CornerSpec == CornerInit /\ [][CornerNext]_cornerVars

\* Threads keep running, a moving pusher reaches its switch, and the CEP
\* thread takes events from a FIFO queue, so that a switch event is handled
\* although other corners keep the thread busy (hence strong fairness).
\* Nothing says that a part arrives, that it is confirmed, or that a corner
\* is ever granted.
LimitSwitch(c) ==
  \E b \in {<<"EXT", c>>, <<"RET", c>>} : SensorMayFire(c, b) /\ ProcessEvent(c, b)

CornerFairness ==
  \A c \in Corner :
    /\ WF_cornerVars(CepStep(c))
    /\ WF_cornerVars(FinalApproachComplete(c))
    /\ WF_cornerVars(TryPush(c))
    /\ WF_cornerVars(ExtendPusher(c))
    /\ WF_cornerVars(HandshakeExpires(c))
    /\ WF_cornerVars(HandshakeTimeout(c))
    /\ SF_cornerVars(LimitSwitch(c))

FairCornerSpec == CornerSpec /\ CornerFairness

-----------------------------------------------------------------------------
(* Properties.                                                             *)

\* A pusher is out from the moment its motor starts until it is back at rest.
PusherOut(c) ==
  \/ throttle[Pusher(c)] # 0
  \/ corner_state[c] \in {"pushing", "waiting_for_confirmation"}

\* Two neighbouring pushers are never out together, whatever the order in
\* which sensor events, retry timers and timeouts run (request_corner before
\* _extend_pusher, release_corner only after the RET switch).
NeighboursNotBothOut ==
  \A c \in Corner : \A d \in Adjacent(c) : ~(PusherOut(c) /\ PusherOut(d))

\* No two neighbouring corners are reserved, not even after a failed write
\* to a HAT has left a motor in the wrong state (request_corner).
NeighboursNotBothReserved ==
  \A c \in Corner : \A d \in Adjacent(c) : ~(corners_occupied[c] /\ corners_occupied[d])

\* A corner is between the grant of its push and its release.
InPush(c) ==
  \/ corner_state[c] \in {"extending", "pushing", "waiting_for_confirmation"}
  \/ corner_state[c] = "retracting" /\ cep_thread # c

\* A corner is reserved exactly while it pushes: no path, the jam timeout
\* and a failing log_event included, leaks a reservation to an idle corner
\* or gives one up with the pusher still out.
ReservedWhilePushing ==
  \A c \in Corner : corners_occupied[c] <=> InPush(c)

\* A pending timer belongs to the state that started it, and no corner is
\* left in a state whose timer is gone.  The handshake flag, which keeps a
\* conveyor from being stopped, is up only while its corner waits, and never
\* without something that will take it down: the running timer, or a callback
\* that is past its cancel check.  Such a callback may be a late one of an
\* earlier push, which then ends this wait before its time; what is excluded
\* is a flag that nobody takes down and a timer that is still to expire for a
\* push that is over (cancel in _handle_waiting_for_confirmation).
TimersMatchState ==
  \A c \in Corner :
    /\ approach_timer[c] <=> corner_state[c] = "final_approach"
    /\ push_timer[c] <=> corner_state[c] = "ready_to_push"
    /\ handshake_timer[c] => corner_state[c] = "waiting_for_confirmation"
    /\ corners_waiting_handshake[c] =>
         /\ corner_state[c] = "waiting_for_confirmation"
         /\ handshake_timer[c] \/ timeout_threads[c] > 0

\* A pusher motor runs forward only while its corner extends, backward only
\* while it retracts and still holds its reservation, and a thread about to
\* start the motor finds its corner still extending.
PusherFollowsState ==
  \A c \in Corner :
    /\ extend_step[c] => corner_state[c] = "extending"
    /\ throttle[Pusher(c)] > 0 => corner_state[c] = "extending" /\ ~extend_step[c]
    /\ throttle[Pusher(c)] < 0 => corner_state[c] = "retracting" /\ cep_thread # c

\* A main conveyor runs exactly while the corner at its end is idle: it is
\* stopped for the whole transfer and never left standing afterwards.
ConveyorRunsWhenIdle ==
  \A c \in FedByConveyor : throttle[FeedMotor(c)] # 0 <=> corner_state[c] = "idle"

\* A pusher motor is stopped between the two directions.
NeverReversedUnderWay ==
  [][\A c \in Corner : throttle[Pusher(c)] * throttle'[Pusher(c)] >= 0]_cornerVars

\* Whenever a corner waits for its handshake, the wait ends: by the
\* confirmation or by the timeout, also when both race.
HandshakeWaitEnds ==
  \A c \in Corner : corners_waiting_handshake[c] ~> ~corners_waiting_handshake[c]

\* A pusher motor that was started is stopped again.
PusherStops ==
  \A c \in Corner : throttle[Pusher(c)] # 0 ~> throttle[Pusher(c)] = 0

\* The transfers as PusherExclusion describes them.
Exclusion == INSTANCE PusherExclusion WITH out <- {c \in Corner : PusherOut(c)}

\* The controllers implement PusherExclusion: every step moves at most one
\* pusher off or back to its rest position, off only next to resting ones.
ImplementsPusherExclusion == Exclusion!PushSpec

\* The conveyor a corner pushes onto moves while the corner waits for the
\* part to reach its start ("Can't consider safe if another corner is
\* waiting for a part from it", is_conveyor_safe_to_stop).
ReceivingConveyorMoves ==
  /\ corners_waiting_handshake[2] => throttle[1] # 0
  /\ corners_waiting_handshake[4] => throttle[2] # 0
=============================================================================
