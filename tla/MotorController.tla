--------------------------- MODULE MotorController ---------------------------
(***************************************************************************)
(* The eight motors behind two Motor HATs (motor_controller.py).           *)
(*                                                                         *)
(* Any thread may write a motor, and an I2C error in the write is caught   *)
(* and logged: the motor keeps its old throttle and the caller is not      *)
(* told.  An operation is therefore the SET of throttle settings it may    *)
(* leave behind.  Speeds are integers, FullSpeed standing for 1.0.         *)
(***************************************************************************)
EXTENDS Integers

CONSTANTS FullSpeed,  \* the throttle 1.0
          HatFaults   \* TRUE: a write to a HAT may fail

ASSUME MotorAssumption ==
  /\ FullSpeed \in Nat \ {0}
  /\ HatFaults \in BOOLEAN

VARIABLE throttle     \* throttle[m]: what motor m is running at

Motor == 1..8

MotorTypeOK == throttle \in [Motor -> -FullSpeed..FullSpeed]

\* Fault: only the upper limit is enforced.
ClampAboveOnly(speed) == IF speed > FullSpeed THEN FullSpeed ELSE speed

\* The clamp to [-1.0, 1.0] at the head of set_speed.
Clamp(speed) ==
  IF speed > FullSpeed THEN FullSpeed
  ELSE IF speed < -FullSpeed THEN -FullSpeed ELSE speed

\* set_speed(motor_num, speed), for the motor numbers 1..8 its callers use.
SetSpeed(th, m, speed) ==
  {[th EXCEPT ![m] = Clamp(speed)]} \cup (IF HatFaults THEN {th} ELSE {})

\* stop(motor_num)
StopMotor(th, m) == SetSpeed(th, m, 0)

\* stop_all, also called by cleanup: eight writes, each of which may fail.
StopAll(th) ==
  {[m \in Motor |-> IF m \in done THEN 0 ELSE th[m]] :
     done \in IF HatFaults THEN SUBSET Motor ELSE {Motor}}

\* The constructor stops all motors; one that fails there is not modelled.
AllStopped == [m \in Motor |-> 0]

=============================================================================
