---------------------------- MODULE SensorProofs ----------------------------
(***************************************************************************)
(* Theorems about the sensor reader, for every set of pins, queue size and *)
(* debounce time.                                                          *)
(***************************************************************************)
EXTENDS SensorReader, SequenceTheorems, TLAPS

-----------------------------------------------------------------------------
(* The operators.                                                          *)

\* The bounds are numbers.
LEMMA BoundsAreNat == QueueSize \in Nat \ {0} /\ DebounceTime \in Nat /\ MaxAge \in Nat /\ MaxClosings \in Nat
BY SensorAssumption

\* The age of last_trigger_time grows by a tick and stops at the debounce time.
LEMMA MinEffect ==
  ASSUME NEW x \in 0..DebounceTime
  PROVE  Min({x + 1, DebounceTime}) = IF x < DebounceTime THEN x + 1 ELSE DebounceTime
<1> DEFINE m == IF x < DebounceTime THEN x + 1 ELSE DebounceTime
           P(y) == y \in {x + 1, DebounceTime} /\ \A z \in {x + 1, DebounceTime} : y =< z
<1>1. P(m) /\ \A y : P(y) => y = m
  BY BoundsAreNat
<1>2. Min({x + 1, DebounceTime}) = CHOOSE y : P(y)
  BY DEF Min
<1> QED BY <1>1, <1>2

\* put_nowait appends the event to a queue with room and changes nothing else.
LEMMA PutNowaitEffect ==
  ASSUME NEW S, NEW q \in Seq(S), NEW e \in S, Len(q) <= QueueSize
  PROVE  /\ PutNowait(q, e) \in Seq(S)
         /\ Len(PutNowait(q, e)) <= QueueSize
         /\ \/ PutNowait(q, e) = q
            \/ /\ Len(PutNowait(q, e)) = Len(q) + 1
               /\ \A i \in 1..Len(q) : PutNowait(q, e)[i] = q[i]
               /\ PutNowait(q, e)[Len(q) + 1] = e
BY SensorAssumption, AppendProperties, LenProperties DEF PutNowait

\* The barriers that a pin reports are different ones, and no other pin
\* reports any of them (_get_barriers_for_pin).
LEMMA BarriersEffect ==
  ASSUME NEW b \in GpioPin
  PROVE  /\ BarriersForPin(b) \in Seq(Barrier)
         /\ \A i, j \in DOMAIN BarriersForPin(b) : i # j => BarriersForPin(b)[i] # BarriersForPin(b)[j]
         /\ \A c \in GpioPin : b # c => Range(BarriersForPin(b)) \cap Range(BarriersForPin(c)) = {}
<1>1. b \in Barrier /\ <<"POS", 4>> \in Barrier /\ <<"POS", 2>> \in Barrier
  BY SensorAssumption DEF Barrier, StationBarrier, CornerBarrier, CornerKind, Corner
<1>2. \A c \in GpioPin : c # <<"POS", 4>> /\ c # <<"POS", 2>>
  BY SensorAssumption DEF StationBarrier, StationKind
<1>3. \A c \in GpioPin : \/ c = <<"EXIT", 1>> /\ BarriersForPin(c) = <<c, <<"POS", 4>>>>
                         \/ c = <<"EXIT", 2>> /\ BarriersForPin(c) = <<c, <<"POS", 2>>>>
                         \/ BarriersForPin(c) = <<c>>
  BY DEF BarriersForPin
<1>4. BarriersForPin(b) \in Seq(Barrier)
  <2>1. <<b>> \in Seq(Barrier) /\ \A x \in Barrier : <<b, x>> \in Seq(Barrier)
    BY <1>1
  <2> QED BY <1>1, <1>3, <2>1
<1>5. \A i, j \in DOMAIN BarriersForPin(b) : i # j => BarriersForPin(b)[i] # BarriersForPin(b)[j]
  BY <1>2, <1>3
<1>6. \A c \in GpioPin : Range(BarriersForPin(c)) \subseteq {c}
         \cup (IF c = <<"EXIT", 1>> THEN {<<"POS", 4>>} ELSE {})
         \cup (IF c = <<"EXIT", 2>> THEN {<<"POS", 2>>} ELSE {})
  BY <1>3 DEF Range
<1>7. \A c \in GpioPin : b # c => Range(BarriersForPin(b)) \cap Range(BarriersForPin(c)) = {}
  BY <1>2, <1>6
<1> QED BY <1>4, <1>5, <1>7

\* Ageing the events of a queue adds a tick to each and changes nothing else.
LEMMA OlderEffect ==
  ASSUME NEW q \in Seq(GpioEvent), \A i \in DOMAIN q : q[i].age < MaxAge
  PROVE  /\ Older(q) \in Seq(GpioEvent) /\ Len(Older(q)) = Len(q)
         /\ \A i \in 1..Len(q) : /\ Older(q)[i].barrier = q[i].barrier
                                 /\ Older(q)[i].age = q[i].age + 1
<1>1. Len(q) \in Nat /\ DOMAIN q = 1..Len(q) /\ \A i \in 1..Len(q) : q[i] \in GpioEvent
  BY LenProperties, ElementOfSeq
<1>2. \A i \in 1..Len(q) : /\ Older(q)[i] \in GpioEvent
                           /\ Older(q)[i].barrier = q[i].barrier
                           /\ Older(q)[i].age = q[i].age + 1
  BY <1>1, SensorAssumption DEF Older, GpioEvent
<1>3. Older(q) = [i \in 1..Len(q) |-> Older(q)[i]]
  BY <1>1 DEF Older
<1>4. Older(q) \in Seq(GpioEvent) /\ Len(Older(q)) = Len(q)
  BY <1>1, <1>2, <1>3
<1> QED BY <1>2, <1>4

-----------------------------------------------------------------------------
(* Types.                                                                  *)

\* The setup establishes the types.
LEMMA SensorInitType == SensorInit => SensorTypeOK
BY SensorAssumption, EmptySeq, LenProperties DEF SensorInit, SensorTypeOK

\* A callback that begins has well-formed events to put.
LEMMA CallbackType ==
  ASSUME NEW b \in GpioPin, GpioCallback(b)
  PROVE  /\ callback' \in Seq(GpioEvent) /\ DOMAIN callback' = DOMAIN BarriersForPin(b)
         /\ \A i \in DOMAIN callback' : /\ callback'[i].barrier = BarriersForPin(b)[i]
                                        /\ callback'[i].age = 0
<1>1. /\ Len(BarriersForPin(b)) \in Nat /\ DOMAIN BarriersForPin(b) = 1..Len(BarriersForPin(b))
      /\ \A i \in 1..Len(BarriersForPin(b)) : BarriersForPin(b)[i] \in Barrier
  BY BarriersEffect, LenProperties, ElementOfSeq
<1>2. callback' = [i \in 1..Len(BarriersForPin(b)) |->
                     [barrier |-> BarriersForPin(b)[i], age |-> 0]]
  BY <1>1 DEF GpioCallback
<1>3. \A i \in 1..Len(BarriersForPin(b)) :
        [barrier |-> BarriersForPin(b)[i], age |-> 0] \in GpioEvent
  BY <1>1, SensorAssumption DEF GpioEvent
<1> QED BY <1>1, <1>2, <1>3

\* Every step keeps the types: the queues never grow past maxsize, and the
\* polling thread never reads past the last pin.
LEMMA SensorStepType == SensorTypeOK /\ [SensorNext]_sensorVars => SensorTypeOK'
<1> SUFFICES ASSUME SensorTypeOK, [SensorNext]_sensorVars PROVE SensorTypeOK'
  OBVIOUS
<1>a. /\ Len(McpPin) \in Nat /\ DOMAIN McpPin = 1..Len(McpPin) /\ 1 \in 1..Len(McpPin)
      /\ \A i \in 1..Len(McpPin) : McpPin[i] \in McpPins
  BY SensorAssumption, LenProperties, EmptySeq DEF McpPins, Range
<1>b. /\ gpio_queue \in Seq(GpioEvent) /\ Len(gpio_queue) <= QueueSize
      /\ callback \in Seq(GpioEvent)
      /\ mcp_queue \in Seq(McpPins) /\ Len(mcp_queue) <= QueueSize
  BY DEF SensorTypeOK
<1>c. /\ since_trigger \in [GpioPin -> 0..DebounceTime]
      /\ poll_index \in 1..Len(McpPin)
      /\ mcp_prev_state \in [McpPins -> {"unknown", "open", "closed"}]
      /\ detections \in [McpPins -> Nat] /\ reports \in [McpPins -> Nat]
      /\ closings \in [McpPins -> 0..MaxClosings]
  BY DEF SensorTypeOK
<1>1. ASSUME NEW b \in GpioPin, GpioCallback(b) PROVE SensorTypeOK'
  <2>1. since_trigger' \in [GpioPin -> 0..DebounceTime]
    BY <1>1, <1>c, BoundsAreNat DEF GpioCallback
  <2> QED BY <1>1, <2>1, CallbackType DEF SensorTypeOK, GpioCallback, pollVars, switchVars
<1>2. CASE GpioPut
  <2>1. Head(callback) \in GpioEvent /\ Tail(callback) \in Seq(GpioEvent)
    BY <1>2, <1>b, HeadTailProperties DEF GpioPut
  <2>2. gpio_queue' \in Seq(GpioEvent) /\ Len(gpio_queue') <= QueueSize
    BY <1>2, <1>b, <2>1, PutNowaitEffect DEF GpioPut
  <2> QED BY <1>2, <2>1, <2>2 DEF SensorTypeOK, GpioPut, pollVars, switchVars
<1>3. ASSUME NEW b \in McpPins, SwitchCloses(b) \/ SwitchOpens(b) PROVE SensorTypeOK'
  <2>1. closings' \in [McpPins -> 0..MaxClosings]
    <3>1. CASE SwitchCloses(b)
      <4>1. closings[b] + 1 \in 0..MaxClosings
        BY <1>c, <3>1, BoundsAreNat DEF SwitchCloses
      <4> QED BY <1>c, <3>1, <4>1 DEF SwitchCloses
    <3>2. CASE SwitchOpens(b)
      BY <1>c, <3>2 DEF SwitchOpens
    <3> QED BY <1>3, <3>1, <3>2
  <2>2. closed' \in [McpPins -> BOOLEAN]
    BY <1>3 DEF SensorTypeOK, SwitchCloses, SwitchOpens
  <2> QED BY <1>3, <2>1, <2>2 DEF SensorTypeOK, SwitchCloses, SwitchOpens, gpioVars, pollVars
<1>4. CASE PollPin
  <2>1. McpPin[poll_index] \in McpPins
    BY <1>a, <1>c
  <2>2. mcp_queue' \in Seq(McpPins) /\ Len(mcp_queue') <= QueueSize
    BY <1>4, <1>b, <2>1, PutNowaitEffect DEF PollPin
  <2>3. detections' \in [McpPins -> Nat] /\ reports' \in [McpPins -> Nat]
    BY <1>4, <1>c, <2>1 DEF PollPin
  <2>4. mcp_prev_state' \in [McpPins -> {"unknown", "open", "closed"}]
    BY <1>4, <1>c, <2>1 DEF PollPin
  <2>5. poll_index' \in 1..Len(McpPin)
    <3>1. poll_index' = IF poll_index = Len(McpPin) THEN 1 ELSE poll_index + 1
      BY <1>4 DEF PollPin
    <3>2. \A n \in Nat : \A k \in 1..n : (IF k = n THEN 1 ELSE k + 1) \in 1..n
      OBVIOUS
    <3>3. Len(McpPin) \in Nat /\ poll_index \in 1..Len(McpPin)
      BY <1>a, <1>c
    <3> QED BY <3>1, <3>2, <3>3
  <2> QED BY <1>4, <2>2, <2>3, <2>4, <2>5 DEF SensorTypeOK, PollPin, gpioVars, switchVars
<1>5. CASE PollError
  BY <1>a, <1>5 DEF SensorTypeOK, PollError, gpioVars, switchVars
<1>6. CASE StopPolling \/ CleanupGpio
  BY <1>6 DEF SensorTypeOK, StopPolling, CleanupGpio, gpioVars, pollVars, switchVars
<1>7. CASE Take
  <2>1. /\ gpio_queue # <<>> => Tail(gpio_queue) \in Seq(GpioEvent) /\ Len(Tail(gpio_queue)) <= QueueSize
        /\ mcp_queue # <<>> => Tail(mcp_queue) \in Seq(McpPins) /\ Len(Tail(mcp_queue)) <= QueueSize
    BY <1>b, HeadTailProperties, LenProperties, BoundsAreNat
  <2> QED BY <1>7, <2>1 DEF SensorTypeOK, Take, pollVars, switchVars
<1>8. CASE Tick
  <2>1. /\ \A i \in DOMAIN gpio_queue : gpio_queue[i].age < MaxAge
        /\ \A i \in DOMAIN callback : callback[i].age < MaxAge
    <3>1. Range(gpio_queue \o callback) = Range(gpio_queue) \cup Range(callback)
      BY <1>b, RangeConcatenation
    <3>2. \A e \in Range(gpio_queue) \cup Range(callback) : e.age < MaxAge
      BY <1>8, <3>1 DEF Tick
    <3> QED BY <3>2 DEF Range
  <2>2. /\ gpio_queue' \in Seq(GpioEvent) /\ Len(gpio_queue') <= QueueSize
        /\ callback' \in Seq(GpioEvent)
    BY <1>8, <1>b, <2>1, OlderEffect DEF Tick
  <2>3. since_trigger' \in [GpioPin -> 0..DebounceTime]
    <3>1. \A b \in GpioPin : Min({since_trigger[b] + 1, DebounceTime}) \in 0..DebounceTime
      <4> TAKE b \in GpioPin
      <4>1. since_trigger[b] \in 0..DebounceTime
        BY <1>c
      <4>2. \A x \in 0..DebounceTime :
              (IF x < DebounceTime THEN x + 1 ELSE DebounceTime) \in 0..DebounceTime
        BY BoundsAreNat
      <4> QED BY <4>1, <4>2, MinEffect
    <3> QED BY <1>8, <3>1 DEF Tick
  <2> QED BY <1>8, <2>2, <2>3 DEF SensorTypeOK, Tick, pollVars, switchVars
<1>9. CASE UNCHANGED sensorVars
  BY <1>9 DEF SensorTypeOK, sensorVars, gpioVars, pollVars, switchVars
<1> QED BY <1>1, <1>2, <1>3, <1>4, <1>5, <1>6, <1>7, <1>8, <1>9 DEF SensorNext

\* The state of the sensor reader is well formed: a full queue drops events
\* instead of growing, and the poll stays within its list of pins.
THEOREM SensorTypeCorrect == SensorSpec => []SensorTypeOK
BY SensorInitType, SensorStepType, PTL DEF SensorSpec

-----------------------------------------------------------------------------
(* The polling thread.                                                     *)

\* Every closing pays for one detection, and one that the poll has yet to see
\* is paid for already.
EdgesPaid ==
  \A b \in McpPins : detections[b] + (IF RisingEdge(b) THEN 1 ELSE 0) <= closings[b]

\* Every step keeps EdgesPaid: only a closing makes an edge, and the poll
\* that counts an edge takes it away.
LEMMA EdgesStepInv ==
  ASSUME SensorTypeOK, EdgesPaid, [SensorNext]_sensorVars
  PROVE  EdgesPaid'
<1>a. /\ mcp_prev_state \in [McpPins -> {"unknown", "open", "closed"}]
      /\ detections \in [McpPins -> Nat]
      /\ closed \in [McpPins -> BOOLEAN]
      /\ closings \in [McpPins -> Nat]
  BY BoundsAreNat DEF SensorTypeOK
<1>1. ASSUME NEW c \in McpPins, SwitchCloses(c) PROVE EdgesPaid'
  BY <1>a, <1>1 DEF SwitchCloses, EdgesPaid, RisingEdge, pollVars
<1>2. ASSUME NEW c \in McpPins, SwitchOpens(c) PROVE EdgesPaid'
  BY <1>a, <1>2 DEF SwitchOpens, EdgesPaid, RisingEdge, pollVars
<1>3. CASE PollPin
  <2> DEFINE c == McpPin[poll_index]
  <2>1. /\ detections' = [detections EXCEPT ![c] = IF RisingEdge(c) THEN @ + 1 ELSE @]
        /\ mcp_prev_state' = [mcp_prev_state EXCEPT ![c] = IF closed[c] THEN "closed" ELSE "open"]
        /\ UNCHANGED <<closed, closings>>
    BY <1>3 DEF PollPin, switchVars
  <2> HIDE DEF c
  <2> QED BY <1>a, <2>1 DEF EdgesPaid, RisingEdge
<1>4. CASE UNCHANGED <<mcp_prev_state, detections, switchVars>>
  BY <1>4 DEF EdgesPaid, RisingEdge, switchVars
<1> QED BY <1>1, <1>2, <1>3, <1>4
        DEF SensorNext, GpioCallback, GpioPut, PollError, StopPolling, CleanupGpio, Take, Tick,
            sensorVars, pollVars

\* A switch is seen closing at most as often as it closed, whatever the
\* order of closings, polls and read errors, and a pusher at rest is not
\* reported when the program starts.
THEOREM NoPhantomEdges == SensorSpec => []NoPhantomEdge
<1>1. SensorInit => EdgesPaid
  BY DEF SensorInit, EdgesPaid, RisingEdge
<1>2. SensorTypeOK /\ EdgesPaid /\ [SensorNext]_sensorVars => EdgesPaid'
  BY EdgesStepInv
<1>3. SensorTypeOK /\ EdgesPaid => NoPhantomEdge
  <2>1. SensorTypeOK => detections \in [McpPins -> Nat] /\ closings \in [McpPins -> Nat]
    BY BoundsAreNat DEF SensorTypeOK
  <2> QED BY <2>1 DEF EdgesPaid, NoPhantomEdge
<1> QED BY <1>1, <1>2, <1>3, SensorTypeCorrect, PTL DEF SensorSpec

-----------------------------------------------------------------------------
(* The interrupt callback.                                                 *)

Spaced(e, f) == e.barrier = f.barrier => e.age - f.age >= DebounceTime

\* The events that wait, in the queue and in the running callback, are a
\* debounce time apart; and a pin has been quiet no longer than any of its
\* events is old.
SpacingInv ==
  /\ \A i, j \in DOMAIN gpio_queue : i < j => Spaced(gpio_queue[i], gpio_queue[j])
  /\ \A i \in DOMAIN gpio_queue, j \in DOMAIN callback : Spaced(gpio_queue[i], callback[j])
  /\ \A i, j \in DOMAIN callback : i < j => callback[i].barrier # callback[j].barrier
  /\ \A b \in GpioPin :
       /\ \A i \in DOMAIN gpio_queue :
            gpio_queue[i].barrier \in Range(BarriersForPin(b)) => since_trigger[b] <= gpio_queue[i].age
       /\ \A i \in DOMAIN callback :
            callback[i].barrier \in Range(BarriersForPin(b)) => since_trigger[b] <= callback[i].age

\* A queue or callback of well-formed events: its positions and what is there.
LEMMA EventsOf ==
  ASSUME NEW q \in Seq(GpioEvent)
  PROVE  /\ Len(q) \in Nat /\ DOMAIN q = 1..Len(q)
         /\ \A i \in 1..Len(q) : q[i] \in GpioEvent /\ q[i].age \in Nat
<1>1. \A e \in GpioEvent : e.age \in Nat
  BY BoundsAreNat DEF GpioEvent
<1> QED BY <1>1, LenProperties, ElementOfSeq

\* SpacingInv covers every pair of DebounceSpacing.
LEMMA SpacingSuffices ==
  ASSUME SensorTypeOK, SpacingInv
  PROVE  DebounceSpacing
<1> DEFINE events == gpio_queue \o callback
           n == Len(gpio_queue)
           m == Len(callback)
<1>1. gpio_queue \in Seq(GpioEvent) /\ callback \in Seq(GpioEvent)
  BY DEF SensorTypeOK
<1>2. /\ n \in Nat /\ DOMAIN gpio_queue = 1..n
      /\ m \in Nat /\ DOMAIN callback = 1..m
  BY <1>1, EventsOf
<1>3. /\ DOMAIN events = 1..(n + m)
      /\ \A i \in 1..(n + m) : events[i] = IF i <= n THEN gpio_queue[i] ELSE callback[i - n]
  BY <1>1, <1>2, ConcatProperties, LenProperties
<1> SUFFICES ASSUME NEW i \in 1..(n + m), NEW j \in 1..(n + m), i < j,
                    events[i].barrier = events[j].barrier
             PROVE  events[i].age - events[j].age >= DebounceTime
  BY <1>3 DEF DebounceSpacing
<1> HIDE DEF events, n, m
<1>4. CASE j <= n
  <2>1. i \in 1..n /\ j \in 1..n /\ events[i] = gpio_queue[i] /\ events[j] = gpio_queue[j]
    BY <1>2, <1>3, <1>4
  <2> QED BY <1>2, <2>1 DEF SpacingInv, Spaced
<1>5. CASE i <= n /\ ~(j <= n)
  <2>1. i \in 1..n /\ j - n \in 1..m /\ events[i] = gpio_queue[i] /\ events[j] = callback[j - n]
    BY <1>2, <1>3, <1>5
  <2> QED BY <1>2, <2>1 DEF SpacingInv, Spaced
<1>6. CASE ~(i <= n)
  <2>1. /\ i - n \in 1..m /\ j - n \in 1..m /\ i - n < j - n
        /\ events[i] = callback[i - n] /\ events[j] = callback[j - n]
    BY <1>2, <1>3, <1>6
  <2> QED BY <1>2, <2>1 DEF SpacingInv
<1> QED BY <1>2, <1>4, <1>5, <1>6

\* A callback that passes the debounce test adds events that are far enough
\* from all that wait.
LEMMA SpacingCallback ==
  ASSUME SensorTypeOK, SpacingInv, NEW b \in GpioPin, GpioCallback(b)
  PROVE  SpacingInv'
<1>1. /\ gpio_queue \in Seq(GpioEvent) /\ since_trigger \in [GpioPin -> 0..DebounceTime]
  BY DEF SensorTypeOK
<1>2. /\ DOMAIN gpio_queue = 1..Len(gpio_queue)
      /\ \A i \in DOMAIN gpio_queue : gpio_queue[i].age \in Nat
  BY <1>1, EventsOf
<1>3. /\ UNCHANGED gpio_queue
      /\ since_trigger' = [since_trigger EXCEPT ![b] = 0]
      /\ since_trigger[b] = DebounceTime
  BY <1>1, BoundsAreNat DEF GpioCallback, Bouncing
<1>4. \A i \in DOMAIN callback' :
        /\ callback'[i].age = 0
        /\ callback'[i].barrier \in Range(BarriersForPin(b))
  BY CallbackType DEF Range
<1>5. \A i, j \in DOMAIN gpio_queue : i < j => Spaced(gpio_queue[i], gpio_queue[j])
  BY DEF SpacingInv
<1>6. \A i \in DOMAIN gpio_queue, j \in DOMAIN callback' : Spaced(gpio_queue[i], callback'[j])
  <2> TAKE i \in DOMAIN gpio_queue, j \in DOMAIN callback'
  <2>1. gpio_queue[i].barrier \in Range(BarriersForPin(b)) => DebounceTime <= gpio_queue[i].age
    BY <1>3 DEF SpacingInv
  <2> QED BY <1>2, <1>4, <2>1, BoundsAreNat DEF Spaced
<1>7. \A i, j \in DOMAIN callback' : i < j => callback'[i].barrier # callback'[j].barrier
  <2>1. \A i \in DOMAIN BarriersForPin(b) : i \in Int
    BY BarriersEffect, LenProperties
  <2> QED BY <2>1, CallbackType, BarriersEffect
<1>8. ASSUME NEW c \in GpioPin
      PROVE  /\ \A i \in DOMAIN gpio_queue : gpio_queue[i].barrier \in Range(BarriersForPin(c)) =>
                  since_trigger'[c] <= gpio_queue[i].age
             /\ \A i \in DOMAIN callback' : callback'[i].barrier \in Range(BarriersForPin(c)) =>
                  since_trigger'[c] <= callback'[i].age
  <2>1. CASE c = b
    BY <1>1, <1>2, <1>3, <1>4, <2>1
  <2>2. CASE c # b
    <3>1. since_trigger'[c] = since_trigger[c]
      BY <1>1, <1>3, <2>2
    <3>2. \A x \in Range(BarriersForPin(b)) : x \notin Range(BarriersForPin(c))
      BY <2>2, BarriersEffect
    <3> QED BY <1>4, <3>1, <3>2 DEF SpacingInv
  <2> QED BY <2>1, <2>2
<1> QED BY <1>3, <1>5, <1>6, <1>7, <1>8 DEF SpacingInv

\* Putting an event moves it from the callback to the queue, or drops it.
LEMMA SpacingPut ==
  ASSUME SensorTypeOK, SpacingInv, GpioPut
  PROVE  SpacingInv'
<1> DEFINE n == Len(gpio_queue)
           m == Len(callback)
<1>1. /\ gpio_queue \in Seq(GpioEvent) /\ callback \in Seq(GpioEvent) /\ callback # <<>>
      /\ Len(gpio_queue) <= QueueSize
      /\ UNCHANGED since_trigger
  BY DEF SensorTypeOK, GpioPut
<1>2. /\ n \in Nat /\ DOMAIN gpio_queue = 1..n
      /\ m \in Nat /\ m >= 1 /\ DOMAIN callback = 1..m
  BY <1>1, EventsOf, EmptySeq
<1>3. /\ Head(callback) = callback[1] /\ callback[1] \in GpioEvent
      /\ DOMAIN callback' = 1..(m - 1)
      /\ \A i \in 1..(m - 1) : callback'[i] = callback[i + 1]
  BY <1>1, <1>2, HeadTailProperties, LenProperties, EventsOf DEF GpioPut
<1>4. \/ gpio_queue' = gpio_queue
      \/ /\ DOMAIN gpio_queue' = 1..(n + 1)
         /\ \A i \in 1..n : gpio_queue'[i] = gpio_queue[i]
         /\ gpio_queue'[n + 1] = callback[1]
  <2>1. /\ gpio_queue' = PutNowait(gpio_queue, callback[1])
        /\ PutNowait(gpio_queue, callback[1]) \in Seq(GpioEvent)
    BY <1>1, <1>3, PutNowaitEffect DEF GpioPut
  <2>2. CASE Len(gpio_queue) < QueueSize
    <3>1. gpio_queue' = Append(gpio_queue, callback[1])
      BY <2>1, <2>2 DEF PutNowait
    <3>2. /\ Len(gpio_queue') = n + 1
          /\ \A i \in 1..n : gpio_queue'[i] = gpio_queue[i]
          /\ gpio_queue'[n + 1] = callback[1]
      BY <1>1, <1>3, <3>1, AppendProperties
    <3>3. DOMAIN gpio_queue' = 1..Len(gpio_queue')
      BY <2>1, LenProperties
    <3> QED BY <3>2, <3>3
  <2>3. CASE ~(Len(gpio_queue) < QueueSize)
    BY <2>1, <2>3 DEF PutNowait
  <2> QED BY <2>2, <2>3
<1> HIDE DEF n, m
<1>5. /\ \A i \in DOMAIN callback' : i + 1 \in DOMAIN callback /\ callback'[i] = callback[i + 1]
      /\ \A i, j \in DOMAIN callback' : i < j => i + 1 < j + 1
  BY <1>2, <1>3
<1>6. /\ \A i, j \in DOMAIN callback' : i < j => callback'[i].barrier # callback'[j].barrier
      /\ \A c \in GpioPin, i \in DOMAIN callback' :
           callback'[i].barrier \in Range(BarriersForPin(c)) => since_trigger'[c] <= callback'[i].age
  BY <1>1, <1>5 DEF SpacingInv
<1>7. CASE gpio_queue' = gpio_queue
  BY <1>1, <1>5, <1>6, <1>7 DEF SpacingInv
<1>8. CASE /\ DOMAIN gpio_queue' = 1..(n + 1)
           /\ \A i \in 1..n : gpio_queue'[i] = gpio_queue[i]
           /\ gpio_queue'[n + 1] = callback[1]
  <2>1. \A i, j \in 1..(n + 1) : i < j => Spaced(gpio_queue'[i], gpio_queue'[j])
    <3> SUFFICES ASSUME NEW i \in 1..(n + 1), NEW j \in 1..(n + 1), i < j
                 PROVE  Spaced(gpio_queue'[i], gpio_queue'[j])
      OBVIOUS
    <3>1. CASE j = n + 1
      BY <1>2, <1>8, <3>1 DEF SpacingInv
    <3>2. CASE j # n + 1
      BY <1>2, <1>8, <3>2 DEF SpacingInv
    <3> QED BY <3>1, <3>2
  <2>2. \A i \in 1..(n + 1), j \in 1..(m - 1) : Spaced(gpio_queue'[i], callback'[j])
    <3> TAKE i \in 1..(n + 1), j \in 1..(m - 1)
    <3>1. j + 1 \in 1..m /\ 1 \in 1..m /\ 1 < j + 1 /\ callback'[j] = callback[j + 1]
      BY <1>2, <1>3
    <3>2. CASE i = n + 1
      BY <1>2, <1>8, <3>1, <3>2 DEF SpacingInv, Spaced
    <3>3. CASE i # n + 1
      BY <1>2, <1>8, <3>1, <3>3 DEF SpacingInv
    <3> QED BY <3>2, <3>3
  <2>3. ASSUME NEW c \in GpioPin, NEW i \in 1..(n + 1),
               gpio_queue'[i].barrier \in Range(BarriersForPin(c))
        PROVE  since_trigger'[c] <= gpio_queue'[i].age
    <3>1. CASE i = n + 1
      <4>1. gpio_queue'[i] = callback[1] /\ 1 \in DOMAIN callback
        BY <1>2, <1>8, <3>1
      <4> QED BY <1>1, <2>3, <4>1 DEF SpacingInv
    <3>2. CASE i # n + 1
      <4>1. gpio_queue'[i] = gpio_queue[i] /\ i \in DOMAIN gpio_queue
        BY <1>2, <1>8, <3>2
      <4> QED BY <1>1, <2>3, <4>1 DEF SpacingInv
    <3> QED BY <3>1, <3>2
  <2> QED BY <1>3, <1>8, <1>6, <2>1, <2>2, <2>3 DEF SpacingInv
<1> QED BY <1>4, <1>7, <1>8

\* Taking the oldest event leaves the others as they are.
LEMMA SpacingTake ==
  ASSUME SensorTypeOK, SpacingInv, Take
  PROVE  SpacingInv'
<1>1. UNCHANGED <<callback, since_trigger>>
  BY DEF Take
<1>2. CASE UNCHANGED gpio_queue
  BY <1>1, <1>2 DEF SpacingInv
<1>3. CASE gpio_queue # <<>> /\ gpio_queue' = Tail(gpio_queue)
  <2>1. gpio_queue \in Seq(GpioEvent)
    BY DEF SensorTypeOK
  <2>2. /\ Len(gpio_queue) \in Nat /\ DOMAIN gpio_queue = 1..Len(gpio_queue)
        /\ DOMAIN gpio_queue' = 1..(Len(gpio_queue) - 1)
        /\ \A i \in 1..(Len(gpio_queue) - 1) : gpio_queue'[i] = gpio_queue[i + 1]
    BY <1>3, <2>1, HeadTailProperties, LenProperties
  <2>3. \A i \in DOMAIN gpio_queue' : i + 1 \in DOMAIN gpio_queue /\ gpio_queue'[i] = gpio_queue[i + 1]
    BY <2>2
  <2>4. \A i, j \in DOMAIN gpio_queue' : i < j => i + 1 < j + 1
    BY <2>2
  <2> QED BY <1>1, <2>3, <2>4 DEF SpacingInv
<1> QED BY <1>2, <1>3 DEF Take

\* A tick ages everything alike.
LEMMA SpacingTick ==
  ASSUME SensorTypeOK, SpacingInv, Tick
  PROVE  SpacingInv'
<1>1. /\ gpio_queue \in Seq(GpioEvent) /\ callback \in Seq(GpioEvent)
      /\ since_trigger \in [GpioPin -> 0..DebounceTime]
  BY DEF SensorTypeOK
<1>2. /\ \A i \in DOMAIN gpio_queue : gpio_queue[i].age < MaxAge
      /\ \A i \in DOMAIN callback : callback[i].age < MaxAge
  <2>1. Range(gpio_queue \o callback) = Range(gpio_queue) \cup Range(callback)
    BY <1>1, RangeConcatenation
  <2>2. \A e \in Range(gpio_queue) \cup Range(callback) : e.age < MaxAge
    BY <2>1 DEF Tick
  <2> QED BY <2>2 DEF Range
<1>3. /\ DOMAIN gpio_queue' = DOMAIN gpio_queue /\ DOMAIN callback' = DOMAIN callback
      /\ \A i \in DOMAIN gpio_queue : /\ gpio_queue'[i].barrier = gpio_queue[i].barrier
                                      /\ gpio_queue'[i].age = gpio_queue[i].age + 1
                                      /\ gpio_queue[i].age \in Nat
      /\ \A i \in DOMAIN callback : /\ callback'[i].barrier = callback[i].barrier
                                    /\ callback'[i].age = callback[i].age + 1
                                    /\ callback[i].age \in Nat
  BY <1>1, <1>2, OlderEffect, EventsOf DEF Tick
<1>4. \A b \in GpioPin : /\ since_trigger[b] \in Nat
                         /\ since_trigger'[b] \in Nat /\ since_trigger'[b] <= since_trigger[b] + 1
  <2> TAKE b \in GpioPin
  <2>1. since_trigger[b] \in 0..DebounceTime
    BY <1>1
  <2>2. since_trigger'[b] = IF since_trigger[b] < DebounceTime THEN since_trigger[b] + 1 ELSE DebounceTime
    BY <2>1, MinEffect DEF Tick
  <2> QED BY <2>1, <2>2, BoundsAreNat
<1>5. /\ \A i, j \in DOMAIN gpio_queue : i < j => Spaced(gpio_queue'[i], gpio_queue'[j])
      /\ \A i \in DOMAIN gpio_queue, j \in DOMAIN callback : Spaced(gpio_queue'[i], callback'[j])
  BY <1>3, BoundsAreNat DEF SpacingInv, Spaced
<1>6. \A i, j \in DOMAIN callback : i < j => callback'[i].barrier # callback'[j].barrier
  BY <1>3 DEF SpacingInv
<1>7. ASSUME NEW b \in GpioPin
      PROVE  /\ \A i \in DOMAIN gpio_queue : gpio_queue'[i].barrier \in Range(BarriersForPin(b)) =>
                  since_trigger'[b] <= gpio_queue'[i].age
             /\ \A i \in DOMAIN callback : callback'[i].barrier \in Range(BarriersForPin(b)) =>
                  since_trigger'[b] <= callback'[i].age
  BY <1>3, <1>4 DEF SpacingInv
<1> QED BY <1>3, <1>5, <1>6, <1>7 DEF SpacingInv

\* Two events of one barrier are at least the debounce time apart, for every
\* set of pins, also on a pin with two barriers, with a full queue and with
\* the consumer in between.
THEOREM DebounceKeepsSpacing == SensorSpec => []DebounceSpacing
<1>1. SensorInit => SpacingInv
  BY DEF SensorInit, SpacingInv
<1>2. SensorTypeOK /\ SpacingInv /\ [SensorNext]_sensorVars => SpacingInv'
  <2> SUFFICES ASSUME SensorTypeOK, SpacingInv, [SensorNext]_sensorVars PROVE SpacingInv'
    OBVIOUS
  <2>1. CASE UNCHANGED <<gpio_queue, callback, since_trigger>>
    BY <2>1 DEF SpacingInv
  <2>2. CASE ~UNCHANGED <<gpio_queue, callback, since_trigger>>
    <3>1. (\E b \in GpioPin : GpioCallback(b)) \/ GpioPut \/ Take \/ Tick
      BY <2>2 DEF SensorNext, SwitchCloses, SwitchOpens, PollPin, PollError, StopPolling,
                  CleanupGpio, sensorVars, gpioVars
    <3> QED BY <3>1, SpacingCallback, SpacingPut, SpacingTake, SpacingTick
  <2> QED BY <2>1, <2>2
<1> QED BY <1>1, <1>2, SpacingSuffices, SensorTypeCorrect, PTL DEF SensorSpec

=============================================================================
