---------------------------- MODULE SensorReader ----------------------------
(***************************************************************************)
(* The producer of sensor events (sensor_reader.py): the GPIO interrupt    *)
(* callback with its debounce and its dual-purpose pins, and the thread    *)
(* that polls the MCP23017, with the two queues and their consumer.        *)
(*                                                                         *)
(* A GPIO pin is named by its primary barrier.  RPi.GPIO runs callbacks    *)
(* one after the other in one thread; a callback puts one event after the  *)
(* other, and the CEP thread may take events in between.  The polling      *)
(* thread reads one pin after the other.  Times are kept as ages; the age  *)
(* of last_trigger_time stops at the debounce time, for only "less than"   *)
(* is asked of it.                                                         *)
(*                                                                         *)
(* An operator marked "Fault:" is a mistake the code does not make; put in *)
(* the place of the operator after it, it breaks one of the properties.    *)
(***************************************************************************)
EXTENDS LineLayout, SequencesExt

CONSTANTS GpioPin,        \* pins read by interrupt
          McpPin,         \* pins of the expander, in the order of the poll
          DebounceTime,   \* debounce_time, in ticks
          QueueSize,      \* maxsize of each queue
          ReadFaults,     \* TRUE: reading the expander may raise
          MaxAge,         \* bound: no GPIO event waits longer than this
          MaxClosings     \* bound: closings of a switch

\* _setup_gpio_interrupts: corners 2 and 4 have no pin of their own.
ASSUME SensorAssumption ==
  /\ GpioPin \subseteq StationBarrier \cup {<<"POS", 1>>, <<"POS", 3>>}
  /\ McpPin \in Seq(Barrier) /\ McpPin # <<>>
  /\ QueueSize \in Nat \ {0}
  /\ {DebounceTime, MaxAge, MaxClosings} \subseteq Nat
  /\ ReadFaults \in BOOLEAN

VARIABLES
  gpio_queue,       \* events [barrier, age]
  since_trigger,    \* age of last_trigger_time, up to DebounceTime
  callback,         \* events the running callback has yet to put
  gpio_active,      \* no GPIO.cleanup() yet
  mcp_queue,        \* barriers
  mcp_prev_state,   \* "unknown" (None), "open" or "closed"
  poll_index,       \* the pin the polling thread reads next
  mcp_running,
  detections,       \* how often the poll saw a switch close
  reports,          \* how many events of a switch were put into mcp_queue
  closed,           \* a switch of the expander is closed
  closings          \* how often it has closed

gpioVars   == <<gpio_queue, since_trigger, callback, gpio_active>>
pollVars   == <<mcp_prev_state, poll_index, detections, reports>>
switchVars == <<closed, closings>>
sensorVars == <<gpioVars, mcp_queue, pollVars, mcp_running, switchVars>>

McpPins   == Range(McpPin)
GpioEvent == [barrier : Barrier, age : 0..MaxAge]

SensorTypeOK ==
  /\ gpio_queue \in Seq(GpioEvent) /\ Len(gpio_queue) <= QueueSize
  /\ since_trigger \in [GpioPin -> 0..DebounceTime]
  /\ callback \in Seq(GpioEvent)
  /\ gpio_active \in BOOLEAN
  /\ mcp_queue \in Seq(McpPins) /\ Len(mcp_queue) <= QueueSize
  /\ mcp_prev_state \in [McpPins -> {"unknown", "open", "closed"}]
  /\ poll_index \in 1..Len(McpPin)
  /\ mcp_running \in BOOLEAN
  /\ detections \in [McpPins -> Nat]
  /\ reports \in [McpPins -> Nat]
  /\ closed \in [McpPins -> BOOLEAN]
  /\ closings \in [McpPins -> 0..MaxClosings]

\* _setup_gpio_interrupts and _setup_mcp_polling; a pusher at rest has its
\* switch closed from the start.
SensorInit ==
  /\ gpio_queue = <<>> /\ mcp_queue = <<>>
  /\ since_trigger = [b \in GpioPin |-> DebounceTime]
  /\ callback = <<>>
  /\ gpio_active = TRUE
  /\ mcp_prev_state = [b \in McpPins |-> "unknown"]
  /\ poll_index = 1
  /\ mcp_running = TRUE
  /\ detections = [b \in McpPins |-> 0]
  /\ reports = [b \in McpPins |-> 0]
  /\ closed \in [McpPins -> BOOLEAN]
  /\ closings = [b \in McpPins |-> 0]

\* Fault: the queue has no limit.
PutUnbounded(q, e) == Append(q, e)

\* put_nowait; an event that finds the queue full is dropped.
PutNowait(q, e) == IF Len(q) < QueueSize THEN Append(q, e) ELSE q

-----------------------------------------------------------------------------
(* The GPIO pins.                                                          *)

\* _get_barriers_for_pin: the exits of the stations are corner arrivals too.
BarriersForPin(b) ==
  CASE b = <<"EXIT", 1>> -> <<b, <<"POS", 4>>>>
    [] b = <<"EXIT", 2>> -> <<b, <<"POS", 2>>>>
    [] OTHER             -> <<b>>

\* Fault: an edge is compared with the last one of any other pin.
BouncingOther(b) == \E c \in GpioPin \ {b} : since_trigger[c] < DebounceTime

Bouncing(b) == since_trigger[b] < DebounceTime

\* _gpio_callback up to its loop.  An edge that bounces changes nothing.
GpioCallback(b) ==
  /\ gpio_active
  /\ callback = <<>>
  /\ ~Bouncing(b)
  /\ since_trigger' = [since_trigger EXCEPT ![b] = 0]
  /\ callback' = [i \in DOMAIN BarriersForPin(b) |->
                    [barrier |-> BarriersForPin(b)[i], age |-> 0]]
  /\ UNCHANGED <<gpio_queue, gpio_active, mcp_queue, pollVars, mcp_running, switchVars>>

\* One turn of its loop.
GpioPut ==
  /\ callback # <<>>
  /\ gpio_queue' = PutNowait(gpio_queue, Head(callback))
  /\ callback' = Tail(callback)
  /\ UNCHANGED <<since_trigger, gpio_active, mcp_queue, pollVars, mcp_running, switchVars>>

-----------------------------------------------------------------------------
(* The expander.                                                           *)

SwitchCloses(b) ==
  /\ ~closed[b]
  /\ closings[b] < MaxClosings
  /\ closed' = [closed EXCEPT ![b] = TRUE]
  /\ closings' = [closings EXCEPT ![b] = @ + 1]
  /\ UNCHANGED <<gpioVars, mcp_queue, pollVars, mcp_running>>

SwitchOpens(b) ==
  /\ closed[b]
  /\ closed' = [closed EXCEPT ![b] = FALSE]
  /\ UNCHANGED <<gpioVars, mcp_queue, pollVars, mcp_running, closings>>

\* Fault: the first reading counts as an edge.
RisingEdgeFromUnknown(b) == mcp_prev_state[b] # "closed" /\ closed[b]

RisingEdge(b) == mcp_prev_state[b] = "open" /\ closed[b]

\* The loop over the pins looks at mcp_running only before the first.
Polling == mcp_running \/ poll_index > 1

\* One turn of the loop over the pins in _mcp_poll_loop.
PollPin ==
  LET b == McpPin[poll_index] IN
  /\ Polling
  /\ mcp_queue' = IF RisingEdge(b) THEN PutNowait(mcp_queue, b) ELSE mcp_queue
  /\ detections' = [detections EXCEPT ![b] = IF RisingEdge(b) THEN @ + 1 ELSE @]
  /\ reports' = [reports EXCEPT ![b] = IF mcp_queue' # mcp_queue THEN @ + 1 ELSE @]
  /\ mcp_prev_state' = [mcp_prev_state EXCEPT ![b] = IF closed[b] THEN "closed" ELSE "open"]
  /\ poll_index' = IF poll_index = Len(McpPin) THEN 1 ELSE poll_index + 1
  /\ UNCHANGED <<gpioVars, mcp_running, switchVars>>

\* Fault: after an error the levels are taken to be unknown.
PollErrorForgets ==
  /\ ReadFaults
  /\ Polling
  /\ poll_index' = 1
  /\ mcp_prev_state' = [b \in McpPins |-> "unknown"]
  /\ UNCHANGED <<gpioVars, mcp_queue, detections, reports, mcp_running, switchVars>>

\* Reading the pin raises: the poll starts again with the first pin, and the
\* previous levels are kept.
PollError ==
  /\ ReadFaults
  /\ Polling
  /\ poll_index' = 1
  /\ UNCHANGED <<gpioVars, mcp_queue, mcp_prev_state, detections, reports, mcp_running, switchVars>>

-----------------------------------------------------------------------------
\* stop (cleanup calls it) up to the join of the polling thread.
StopPolling ==
  /\ mcp_running
  /\ mcp_running' = FALSE
  /\ UNCHANGED <<gpioVars, mcp_queue, pollVars, switchVars>>

\* The rest of stop: the join has returned, on its timeout if need be.
CleanupGpio ==
  /\ ~mcp_running
  /\ gpio_active
  /\ gpio_active' = FALSE
  /\ UNCHANGED <<gpio_queue, since_trigger, callback, mcp_queue, pollVars, mcp_running, switchVars>>

\* CEPConsumer._consume_events takes the oldest event of a queue.
Take ==
  /\ \/ gpio_queue # <<>> /\ gpio_queue' = Tail(gpio_queue) /\ UNCHANGED mcp_queue
     \/ mcp_queue # <<>> /\ mcp_queue' = Tail(mcp_queue) /\ UNCHANGED gpio_queue
  /\ UNCHANGED <<since_trigger, callback, gpio_active, pollVars, mcp_running, switchVars>>

Older(events) == [i \in DOMAIN events |-> [events[i] EXCEPT !.age = @ + 1]]

Tick ==
  /\ \A e \in Range(gpio_queue \o callback) : e.age < MaxAge
  /\ gpio_queue' = Older(gpio_queue)
  /\ callback' = Older(callback)
  /\ since_trigger' = [b \in GpioPin |-> Min({since_trigger[b] + 1, DebounceTime})]
  /\ UNCHANGED <<gpio_active, mcp_queue, pollVars, mcp_running, switchVars>>

SensorNext ==
  \/ \E b \in GpioPin : GpioCallback(b)
  \/ GpioPut
  \/ \E b \in McpPins : SwitchCloses(b) \/ SwitchOpens(b)
  \/ PollPin \/ PollError
  \/ StopPolling \/ CleanupGpio
  \/ Take \/ Tick

SensorSpec == SensorInit /\ [][SensorNext]_sensorVars

\* The polling thread runs, and a read of a pin that is tried again and again
\* succeeds in the end.
FairSensorSpec ==
  SensorSpec /\ \A i \in DOMAIN McpPin : SF_sensorVars(PollPin /\ poll_index = i)

-----------------------------------------------------------------------------
(* Properties.                                                             *)

\* A part that passes a barrier is one event: two events of one barrier are
\* at least the debounce time apart, also when they come from a pin with two
\* barriers and while the callback is half-way (_gpio_callback).
DebounceSpacing ==
  LET events == gpio_queue \o callback IN
  \A i, j \in DOMAIN events :
    i < j /\ events[i].barrier = events[j].barrier =>
      events[i].age - events[j].age >= DebounceTime

\* A switch that closes once is seen closing at most once, and a pusher that
\* is at rest when the program starts is not reported at all
\* (_mcp_poll_loop, also after read errors).
NoPhantomEdge == \A b \in McpPins : detections[b] <= closings[b]

\* The events of a switch that found the queue full.
Dropped(b) == detections[b] - reports[b]

\* A switch that the poll has seen open and that closes and stays closed gets
\* its event into the queue, read errors or not, unless that event is dropped
\* because the queue is full, or the reader is stopped: a corner waits for
\* these switches without a timeout (_mcp_poll_loop).
ClosingReported ==
  \A b \in McpPins : \A n, d \in 0..(MaxClosings - 1) :
    RisingEdge(b) /\ reports[b] = n /\ Dropped(b) = d ~>
      reports[b] > n \/ Dropped(b) > d \/ ~closed[b] \/ ~mcp_running
=============================================================================
