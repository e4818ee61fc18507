----------------------------- MODULE CEPConsumer -----------------------------
(***************************************************************************)
(* The consumer of the three event queues (cep_consumer.py): it collects   *)
(* sensor events and NFC reads, fuses an entry event with a read of the    *)
(* same station, hands events to the state machines, and throws away what  *)
(* has waited too long.                                                    *)
(*                                                                         *)
(* The sensor and reader threads only put into the queues; the lists of    *)
(* pending events belong to the CEP thread.  The loop that looks for what  *)
(* is to be removed from them is one step, and every `del' that follows is *)
(* a step of its own.  Timestamps are kept as ages: the code only compares *)
(* two of them with each other or with the time the pass began, so the     *)
(* clock stands still during the deletions.  An event is known by an id    *)
(* that is free again once the event is gone.                              *)
(*                                                                         *)
(* An operator marked "Fault:" is a mistake the code does not make; put in *)
(* the place of the operator after it, it breaks one of the properties.    *)
(***************************************************************************)
EXTENDS LineLayout, SequencesExt

CONSTANTS GpioBarrier,     \* barriers read by interrupt
          McpBarrier,      \* barriers behind the MCP23017 expander
          QueueSize,       \* maxsize of each queue
          FuseWindow,      \* DELTA_T_FUSE
          ExpiryTimeout,   \* DELTA_T_EXPIRY
          LogFaults,       \* TRUE: DataLogger.log_event may raise
          MaxSensorEvents, \* bound: sensor events under way at a time
          MaxReads,        \* bound: NFC reads under way at a time
          MaxAge           \* bound: no event gets older than this unhandled

ASSUME CepAssumption ==
  /\ GpioBarrier \subseteq Barrier /\ McpBarrier \subseteq Barrier
  /\ GpioBarrier \cap McpBarrier = {}
  /\ QueueSize \in Nat \ {0}
  /\ {FuseWindow, ExpiryTimeout, MaxSensorEvents, MaxReads, MaxAge} \subseteq Nat
  /\ LogFaults \in BOOLEAN
  /\ ExpiryTimeout < MaxAge

VARIABLES gpio_queue, mcp_queue, nfc_queue,
          pending_gpio_events,   \* GPIO and MCP events
          pending_nfc_events,
          cep_pc,                \* where the CEP thread is in its loop
          gpio_to_remove,        \* indices of sensor events still to delete
          nfc_to_remove,         \* index of a read for each event matched with it
          running,               \* CEPConsumer.running
          delivered,             \* ids the last pass gave to _deliver_event
          matched                \* ids of the reads the last pass fused

inputVars  == <<gpio_queue, mcp_queue, nfc_queue>>
pendingVars == <<pending_gpio_events, pending_nfc_events>>
removeVars == <<gpio_to_remove, nfc_to_remove>>
passVars   == <<delivered, matched>>
cepVars    == <<inputVars, pendingVars, removeVars, cep_pc, running, passVars>>

\* Where a pass deletes what it has found.
Deleting == {"fuse_gpio", "fuse_nfc", "expire_gpio", "expire_reads", "expire_nfc"}

SensorEvent == [id : 1..MaxSensorEvents, barrier : GpioBarrier \cup McpBarrier, age : 0..MaxAge]
NfcEvent    == [id : 1..MaxReads, station : Station, age : 0..MaxAge]

Ids(s) == {s[i].id : i \in DOMAIN s}

CepTypeOK ==
  /\ gpio_queue \in Seq(SensorEvent) /\ Len(gpio_queue) <= QueueSize
  /\ mcp_queue \in Seq(SensorEvent) /\ Len(mcp_queue) <= QueueSize
  /\ nfc_queue \in Seq(NfcEvent) /\ Len(nfc_queue) <= QueueSize
  /\ pending_gpio_events \in Seq(SensorEvent)
  /\ pending_nfc_events \in Seq(NfcEvent)
  /\ cep_pc \in {"top", "gpio", "mcp", "nfc", "fuse", "expire", "stopped"} \cup Deleting
  /\ gpio_to_remove \subseteq Nat
  /\ DOMAIN nfc_to_remove \subseteq Nat /\ nfc_to_remove \in [DOMAIN nfc_to_remove -> Nat]
  /\ running \in BOOLEAN
  /\ delivered \subseteq 1..MaxSensorEvents
  /\ matched \subseteq 1..MaxReads

CepInit ==
  /\ gpio_queue = <<>> /\ mcp_queue = <<>> /\ nfc_queue = <<>>
  /\ pending_gpio_events = <<>> /\ pending_nfc_events = <<>>
  /\ cep_pc = "top"
  /\ running = TRUE
  /\ gpio_to_remove = {} /\ nfc_to_remove = <<>>
  /\ delivered = {} /\ matched = {}

-----------------------------------------------------------------------------
(* The producers.  put_nowait drops an event when the queue is full, which *)
(* changes nothing here.                                                   *)

SensorIds == Ids(gpio_queue) \cup Ids(mcp_queue) \cup Ids(pending_gpio_events)
ReadIds   == Ids(nfc_queue) \cup Ids(pending_nfc_events)
FreeIds(max, used) == (1..max) \ used

\* The end of SensorReader._gpio_callback and _mcp_poll_loop.
NewSensorEvent(id, b) == [id |-> id, barrier |-> b, age |-> 0]

\* Fault: the queue has no limit.
PutUnbounded(q, e) == Append(q, e)

\* put_nowait into a queue of QueueSize.
PutNowait(q, e) == IF Len(q) < QueueSize THEN Append(q, e) ELSE q

PutGpioEvent(b) ==
  LET free == FreeIds(MaxSensorEvents, SensorIds) IN
  /\ free # {}
  /\ gpio_queue' = PutNowait(gpio_queue, NewSensorEvent(Min(free), b))
  /\ UNCHANGED <<mcp_queue, nfc_queue, pendingVars, removeVars, cep_pc, running, passVars>>

PutMcpEvent(b) ==
  LET free == FreeIds(MaxSensorEvents, SensorIds) IN
  /\ free # {}
  /\ mcp_queue' = PutNowait(mcp_queue, NewSensorEvent(Min(free), b))
  /\ UNCHANGED <<gpio_queue, nfc_queue, pendingVars, removeVars, cep_pc, running, passVars>>

\* The end of NFCReaderThread.run's loop.
PutRead(s) ==
  LET free == FreeIds(MaxReads, ReadIds) IN
  /\ free # {}
  /\ nfc_queue' = PutNowait(nfc_queue, [id |-> Min(free), station |-> s, age |-> 0])
  /\ UNCHANGED <<gpio_queue, mcp_queue, pendingVars, removeVars, cep_pc, running, passVars>>

-----------------------------------------------------------------------------
(* run                                                                     *)

\* The test of the loop.
LoopTop ==
  /\ cep_pc = "top"
  /\ cep_pc' = IF running THEN "gpio" ELSE "stopped"
  /\ delivered' = {} /\ matched' = {}
  /\ UNCHANGED <<inputVars, pendingVars, removeVars, running>>

\* Fault: an event is put before the ones that came first.
ConsumeGpioInFront ==
  /\ cep_pc = "gpio"
  /\ IF gpio_queue # <<>>
     THEN /\ pending_gpio_events' = <<Head(gpio_queue)>> \o pending_gpio_events
          /\ gpio_queue' = Tail(gpio_queue)
          /\ UNCHANGED cep_pc
     ELSE cep_pc' = "mcp" /\ UNCHANGED <<gpio_queue, pending_gpio_events>>
  /\ UNCHANGED <<mcp_queue, nfc_queue, pending_nfc_events, removeVars, running, passVars>>

\* _consume_events takes one event after the other out of each queue, and
\* goes on to the next queue when get_nowait finds it empty.
ConsumeGpio ==
  /\ cep_pc = "gpio"
  /\ IF gpio_queue # <<>>
     THEN /\ pending_gpio_events' = Append(pending_gpio_events, Head(gpio_queue))
          /\ gpio_queue' = Tail(gpio_queue)
          /\ UNCHANGED cep_pc
     ELSE cep_pc' = "mcp" /\ UNCHANGED <<gpio_queue, pending_gpio_events>>
  /\ UNCHANGED <<mcp_queue, nfc_queue, pending_nfc_events, removeVars, running, passVars>>

ConsumeMcp ==
  /\ cep_pc = "mcp"
  /\ IF mcp_queue # <<>>
     THEN /\ pending_gpio_events' = Append(pending_gpio_events, Head(mcp_queue))
          /\ mcp_queue' = Tail(mcp_queue)
          /\ UNCHANGED cep_pc
     ELSE cep_pc' = "nfc" /\ UNCHANGED <<mcp_queue, pending_gpio_events>>
  /\ UNCHANGED <<gpio_queue, nfc_queue, pending_nfc_events, removeVars, running, passVars>>

ConsumeNfc ==
  /\ cep_pc = "nfc"
  /\ IF nfc_queue # <<>>
     THEN /\ pending_nfc_events' = Append(pending_nfc_events, Head(nfc_queue))
          /\ nfc_queue' = Tail(nfc_queue)
          /\ UNCHANGED cep_pc
     ELSE cep_pc' = "fuse" /\ UNCHANGED <<nfc_queue, pending_nfc_events>>
  /\ UNCHANGED <<gpio_queue, mcp_queue, pending_gpio_events, removeVars, running, passVars>>

\* Fault: abs() is forgotten, so that a read long after the entry matches.
EventsMatchSigned(g, n) ==
  /\ Location(g.barrier) = <<"station", n.station>>
  /\ n.age - g.age <= FuseWindow

\* _events_match: the same station, within the fusion window.
EventsMatch(g, n) ==
  /\ Location(g.barrier) = <<"station", n.station>>
  /\ g.age - n.age \in -FuseWindow..FuseWindow

\* The reads an entry event may be fused with; the loop takes the first, even
\* if an earlier entry event of the same pass took it already.
Matches(g) == {j \in DOMAIN pending_nfc_events : EventsMatch(g, pending_nfc_events[j])}

Fusable(g)     == IsEntryBarrier(g.barrier) /\ Matches(g) # {}
Deliverable(g) == ~IsEntryBarrier(g.barrier) \/ Fusable(g)

\* The indices of a list whose elements satisfy a test.
Indices(list, Test(_)) == {i \in DOMAIN list : Test(list[i])}

\* What a pass has given to _deliver_event, and the reads it used.
RecordPass ==
  /\ delivered' = {pending_gpio_events[i].id : i \in Indices(pending_gpio_events, Deliverable)}
  /\ matched' = {pending_nfc_events[j].id : j \in Range(nfc_to_remove')}

\* Fault: only events that need no read are marked for removal.
FuseEventsKeepsFused ==
  /\ cep_pc = "fuse"
  /\ gpio_to_remove' = Indices(pending_gpio_events, LAMBDA g : ~IsEntryBarrier(g.barrier))
  /\ nfc_to_remove' = [i \in Indices(pending_gpio_events, Fusable) |->
                         Min(Matches(pending_gpio_events[i]))]
  /\ RecordPass
  /\ cep_pc' = "fuse_gpio"
  /\ UNCHANGED <<inputVars, pendingVars, running>>

\* _fuse_events up to the deletions.  The events are delivered in the order
\* of the list; _deliver_event lets no exception through.
FuseEvents ==
  /\ cep_pc = "fuse"
  /\ gpio_to_remove' = Indices(pending_gpio_events, Deliverable)
  /\ nfc_to_remove' = [i \in Indices(pending_gpio_events, Fusable) |->
                         Min(Matches(pending_gpio_events[i]))]
  /\ RecordPass
  /\ cep_pc' = "fuse_gpio"
  /\ UNCHANGED <<inputVars, pendingVars, running>>

\* Fault: the smallest index is deleted first.
NextSmallest(idxs) == Min(idxs)

\* sorted(idxs, reverse=True): the greatest index that is left comes next.
NextIndex(idxs) == Max(idxs)

\* An index beyond the end raises IndexError: run starts its loop again.
PassRaises ==
  /\ cep_pc' = "top"
  /\ gpio_to_remove' = {} /\ nfc_to_remove' = <<>>
  /\ UNCHANGED pendingVars

\* `del pending_gpio_events[idx]' in _fuse_events and _expire_events.
DelGpio ==
  LET idx == NextIndex(gpio_to_remove) IN
  /\ cep_pc \in {"fuse_gpio", "expire_gpio"}
  /\ gpio_to_remove # {}
  /\ IF idx \in DOMAIN pending_gpio_events
     THEN /\ pending_gpio_events' = RemoveAt(pending_gpio_events, idx)
          /\ gpio_to_remove' = gpio_to_remove \ {idx}
          /\ UNCHANGED <<pending_nfc_events, nfc_to_remove, cep_pc>>
     ELSE PassRaises
  /\ UNCHANGED <<inputVars, running, passVars>>

GpioDeleted ==
  /\ \/ cep_pc = "fuse_gpio" /\ cep_pc' = "fuse_nfc"
     \/ cep_pc = "expire_gpio" /\ cep_pc' = "expire_reads"
  /\ gpio_to_remove = {}
  /\ UNCHANGED <<inputVars, pendingVars, removeVars, running, passVars>>

\* `del pending_nfc_events[idx]' in both.  An index may be there twice.
DelNfc ==
  LET idx == NextIndex(Range(nfc_to_remove))
      k   == CHOOSE i \in DOMAIN nfc_to_remove : nfc_to_remove[i] = idx
  IN
  /\ cep_pc \in {"fuse_nfc", "expire_nfc"}
  /\ DOMAIN nfc_to_remove # {}
  /\ IF idx \in DOMAIN pending_nfc_events
     THEN /\ pending_nfc_events' = RemoveAt(pending_nfc_events, idx)
          /\ nfc_to_remove' = [i \in DOMAIN nfc_to_remove \ {k} |-> nfc_to_remove[i]]
          /\ UNCHANGED <<pending_gpio_events, gpio_to_remove, cep_pc>>
     ELSE PassRaises
  /\ UNCHANGED <<inputVars, running, passVars>>

NfcDeleted ==
  /\ \/ cep_pc = "fuse_nfc" /\ cep_pc' = "expire"
     \/ cep_pc = "expire_nfc" /\ cep_pc' = "top"
  /\ DOMAIN nfc_to_remove = {}
  /\ delivered' = {} /\ matched' = {}
  /\ UNCHANGED <<inputVars, pendingVars, removeVars, running>>

Expired(e) == e.age > ExpiryTimeout

\* Fault: only reads expire.
ExpireReadsOnly ==
  /\ cep_pc = "expire"
  /\ cep_pc' = "expire_reads"
  /\ UNCHANGED <<inputVars, pendingVars, removeVars, running, passVars>>

\* _expire_events up to the first deletions.  Each expired event is logged
\* before any is removed; when log_event raises, run catches it.
ExpireGpio ==
  /\ cep_pc = "expire"
  /\ \/ gpio_to_remove' = Indices(pending_gpio_events, Expired) /\ cep_pc' = "expire_gpio"
     \/ /\ LogFaults /\ Indices(pending_gpio_events, Expired) # {}
        /\ cep_pc' = "top" /\ UNCHANGED gpio_to_remove
  /\ UNCHANGED <<inputVars, pendingVars, nfc_to_remove, running, passVars>>

\* The same for the reads.
ExpireReads ==
  /\ cep_pc = "expire_reads"
  /\ \/ /\ nfc_to_remove' = [j \in Indices(pending_nfc_events, Expired) |-> j]
        /\ cep_pc' = "expire_nfc"
     \/ /\ LogFaults /\ Indices(pending_nfc_events, Expired) # {}
        /\ cep_pc' = "top" /\ UNCHANGED nfc_to_remove
  /\ UNCHANGED <<inputVars, pendingVars, gpio_to_remove, running, passVars>>

\* stop, called by the main thread.
Stop ==
  /\ running
  /\ running' = FALSE
  /\ UNCHANGED <<inputVars, pendingVars, removeVars, cep_pc, passVars>>

-----------------------------------------------------------------------------
Older(s) == [i \in DOMAIN s |-> [s[i] EXCEPT !.age = @ + 1]]
Young(s) == \A i \in DOMAIN s : s[i].age < MaxAge

\* Time passes for every event that is under way.
Tick ==
  /\ cep_pc \notin Deleting
  /\ Young(gpio_queue) /\ Young(mcp_queue) /\ Young(nfc_queue)
  /\ Young(pending_gpio_events) /\ Young(pending_nfc_events)
  /\ gpio_queue' = Older(gpio_queue)
  /\ mcp_queue' = Older(mcp_queue)
  /\ nfc_queue' = Older(nfc_queue)
  /\ pending_gpio_events' = Older(pending_gpio_events)
  /\ pending_nfc_events' = Older(pending_nfc_events)
  /\ UNCHANGED <<removeVars, cep_pc, running, passVars>>

CepThread ==
  \/ LoopTop \/ ConsumeGpio \/ ConsumeMcp \/ ConsumeNfc
  \/ FuseEvents \/ ExpireGpio \/ ExpireReads
  \/ DelGpio \/ GpioDeleted \/ DelNfc \/ NfcDeleted

CepNext ==
  \/ \E b \in GpioBarrier : PutGpioEvent(b)
  \/ \E b \in McpBarrier : PutMcpEvent(b)
  \/ \E s \in Station : PutRead(s)
  \/ CepThread \/ Stop \/ Tick

CepSpec == CepInit /\ [][CepNext]_cepVars

-----------------------------------------------------------------------------
(* Properties.                                                             *)

\* A sensor event is handed to a state machine at most once: when a pass has
\* deleted its events, none it delivered is still pending, also when the
\* removal of the reads raises afterwards (_fuse_events).
DeliveredOnce == cep_pc # "fuse_gpio" => delivered \cap Ids(pending_gpio_events) = {}

\* No sensor event is lost between the queues and the state machines: it
\* leaves the pending list only because this pass delivered it, or because
\* it was older than the expiry timeout (the index arithmetic of
\* _fuse_events and _expire_events).
SensorEventNotLost ==
  [][\A i \in DOMAIN pending_gpio_events :
       LET e == pending_gpio_events[i] IN
         e.id \in Ids(pending_gpio_events)' \/ e.id \in delivered' \/ Expired(e)]_cepVars

SameSource(a, b) == a.barrier \in GpioBarrier <=> b.barrier \in GpioBarrier

\* Events of one source that need no read are delivered in the order in
\* which they happened: an event delivered later in the pass, or still in a
\* queue when the pass is over, is not older (a pusher's EXT and RET
\* switches are told apart by nothing but their order).
DeliveredInOrder ==
  [][cep_pc = "fuse" /\ cep_pc' # "fuse" =>
       \A i \in gpio_to_remove' :
         LET e     == pending_gpio_events[i]
             later == {pending_gpio_events[j] : j \in {j \in gpio_to_remove' : j > i}}
                        \cup Range(gpio_queue) \cup Range(mcp_queue)
         IN  ~IsEntryBarrier(e.barrier) =>
               \A f \in later :
                 SameSource(e, f) /\ ~IsEntryBarrier(f.barrier) => f.age <= e.age]_cepVars

\* The loop of run goes round, but no pass gets to its end: each is cut short
\* by the IndexError of a read matched twice, or by a log_event that raises.
NoPassEnds == [](cep_pc # "expire_nfc") /\ []<>(cep_pc = "top")

\* Every sensor event is settled, delivered or expired, unless the consumer
\* is stopped or from some time on every single pass raises: one pass that
\* gets to its end settles every event that is old by then, whatever else is
\* pending or keeps coming (_fuse_events and _expire_events under the
\* `except' of run).
SensorEventSettled ==
  \A id \in 1..MaxSensorEvents :
    id \in SensorIds ~> id \notin SensorIds \/ ~running \/ NoPassEnds

\* A read leaves the pending list only because it was fused or has expired
\* ("Remove matched events (reverse order to preserve indices)",
\* cep_consumer.py:172).
ReadNotLost ==
  [][\A j \in DOMAIN pending_nfc_events :
       LET e == pending_nfc_events[j] IN
         e.id \in Ids(pending_nfc_events)' \/ e.id \in matched' \/ Expired(e)]_cepVars
=============================================================================
