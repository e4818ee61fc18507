---------------------------- MODULE CornerRouting ----------------------------
(***************************************************************************)
(* The corner controllers behind the routing of sensor events: an event    *)
(* reaches the state machine of the place its barrier names                *)
(* (CEPConsumer._deliver_event, SystemManager.fsm_map), where              *)
(* CornerController lets a corner see its confirmation sensor directly.    *)
(***************************************************************************)
EXTENDS CornerController

VARIABLE arrived   \* arrived[c]: during the present wait of corner c, its
                   \*   confirmation sensor has reported the part

routingVars == <<cornerVars, arrived>>

Waiting(c) == corner_state[c] = "waiting_for_confirmation"

RoutingInit == CornerInit /\ arrived = [c \in Corner |-> FALSE]

\* _deliver_event: only a state machine in fsm_map is called, and only the
\* one of the event's location.  What a station does is not described here.
DeliverEvent(b) ==
  /\ cep_thread = 0
  /\ \A c \in Corner : SensorMayFire(c, b)
  /\ \/ \E c \in Corner :
          Location(b) = <<"corner", c>> /\ Location(b) \in fsm_map /\ ProcessEvent(c, b)
     \/ b \notin CornerBarrier /\ UNCHANGED cornerVars
  /\ arrived' = [c \in Corner |->
        Waiting(c)' /\ (arrived[c] \/ (Waiting(c) /\ b = confirmation_sensor(c)))]

\* A step of a timer thread, of the rest of a handler, or of the clock.
OtherStep ==
  /\ (\E c \in Corner : CepStep(c) \/ TimerStep(c)) \/ ClockTick
  /\ arrived' = [c \in Corner |-> Waiting(c)' /\ arrived[c]]

RoutingNext == (\E b \in Barrier : DeliverEvent(b)) \/ OtherStep

RoutingSpec == RoutingInit /\ [][RoutingNext]_routingVars

\* When _handshake_timeout reports a jam, the sensor behind the corner has
\* indeed not seen the part ("JAM DETECTED! Part never arrived at next
\* sensor", corner_controller.py:257).
JamMeansNoArrival ==
  [][\A c \in Corner : timeout_threads'[c] < timeout_threads[c] => ~arrived[c]]_routingVars
=============================================================================
