------------------------------ MODULE NFCReader ------------------------------
(***************************************************************************)
(* The two reader threads (nfc_reader.py) in front of the CEP consumer,    *)
(* with the parts that stand at the entrances of the stations: a part      *)
(* trips the barrier there, and its tag is read over and over for as long  *)
(* as it stays.  The question is whose tag an entry is fused with.         *)
(*                                                                         *)
(* A read is stamped when it is put into the queue, after the tag was      *)
(* read, and the part may have gone in between; no tick of the clock       *)
(* falls into that gap.                                                    *)
(***************************************************************************)
EXTENDS CEPConsumer

CONSTANTS Part,     \* tags
          NoPart,   \* None: no tag
          MinGap    \* ticks between a part leaving an entrance and the next one

ASSUME ReaderAssumption == NoPart \notin Part /\ MinGap \in Nat

VARIABLES at_reader,     \* the part at the entrance of a station
          empty_since,   \* ticks an entrance has been empty, up to MinGap
          tag,           \* what _blocking_read_tag returned to run
          nfc_running,   \* NFCReaderThread.running
          event_part,    \* the part that caused a sensor event
          read_part      \* part_id of a read

entranceVars == <<at_reader, empty_since>>
threadVars   == <<tag, nfc_running>>
readerVars   == <<cepVars, entranceVars, threadVars, event_part, read_part>>

ReaderInit ==
  /\ CepInit
  /\ at_reader = [s \in Station |-> NoPart]
  /\ empty_since = [s \in Station |-> MinGap]
  /\ tag = [s \in Station |-> NoPart]
  /\ nfc_running = [s \in Station |-> TRUE]
  /\ event_part = [i \in 1..MaxSensorEvents |-> NoPart]
  /\ read_part = [i \in 1..MaxReads |-> NoPart]

-----------------------------------------------------------------------------
(* The parts.                                                              *)

\* bound: the stations that parts reach
Entrance == {s \in Station : <<"ENTRY", s>> \in GpioBarrier}

PartArrives(s, p) ==
  /\ at_reader[s] = NoPart
  /\ empty_since[s] = MinGap
  /\ \A t \in Station : at_reader[t] # p
  /\ at_reader' = [at_reader EXCEPT ![s] = p]
  /\ UNCHANGED <<cepVars, empty_since, threadVars, event_part, read_part>>

PartLeaves(s) ==
  /\ at_reader[s] # NoPart
  /\ at_reader' = [at_reader EXCEPT ![s] = NoPart]
  /\ empty_since' = [empty_since EXCEPT ![s] = 0]
  /\ UNCHANGED <<cepVars, threadVars, event_part, read_part>>

\* The part trips the barrier at the entrance, perhaps more than once.
BarrierTrips(s) ==
  /\ at_reader[s] # NoPart
  /\ PutGpioEvent(<<"ENTRY", s>>)
  /\ event_part' = [event_part EXCEPT ![Min(FreeIds(MaxSensorEvents, SensorIds))] = at_reader[s]]
  /\ UNCHANGED <<entranceVars, threadVars, read_part>>

-----------------------------------------------------------------------------
(* NFCReaderThread                                                         *)

\* _blocking_read_tag finds a tag.  A timeout and a read error are both None,
\* and run tries again.  The bound on the reads counts the tags in hand.
BlockingReadTag(s) ==
  /\ nfc_running[s]
  /\ tag[s] = NoPart
  /\ Cardinality({t \in Station : tag[t] # NoPart}) < Cardinality(FreeIds(MaxReads, ReadIds))
  /\ at_reader[s] # NoPart
  /\ tag' = [tag EXCEPT ![s] = at_reader[s]]
  /\ UNCHANGED <<cepVars, entranceVars, nfc_running, event_part, read_part>>

\* The rest of the loop in run.
QueueRead(s) ==
  /\ tag[s] # NoPart
  /\ PutRead(s)
  /\ read_part' = [read_part EXCEPT ![Min(FreeIds(MaxReads, ReadIds))] = tag[s]]
  /\ tag' = [tag EXCEPT ![s] = NoPart]
  /\ UNCHANGED <<entranceVars, nfc_running, event_part>>

\* stop
StopReader(s) ==
  /\ nfc_running[s]
  /\ nfc_running' = [nfc_running EXCEPT ![s] = FALSE]
  /\ UNCHANGED <<cepVars, entranceVars, tag, event_part, read_part>>

-----------------------------------------------------------------------------
\* The parts of the events or reads that are still under way.
StillUnderWay(part, ids) == [i \in DOMAIN part |-> IF i \in ids THEN part[i] ELSE NoPart]

CepMoves ==
  /\ CepThread
  /\ event_part' = StillUnderWay(event_part, SensorIds')
  /\ read_part' = StillUnderWay(read_part, ReadIds')
  /\ UNCHANGED <<entranceVars, threadVars>>

CepStops == Stop /\ UNCHANGED <<entranceVars, threadVars, event_part, read_part>>

TimePasses ==
  /\ tag = [s \in Station |-> NoPart]
  /\ Tick
  /\ empty_since' = [s \in Station |-> IF at_reader[s] = NoPart
                                         THEN Min({empty_since[s] + 1, MinGap})
                                         ELSE empty_since[s]]
  /\ UNCHANGED <<at_reader, threadVars, event_part, read_part>>

ReaderNext ==
  \/ \E s \in Entrance : \/ \E p \in Part : PartArrives(s, p)
                         \/ PartLeaves(s)
                         \/ BarrierTrips(s)
                         \/ BlockingReadTag(s)
                         \/ QueueRead(s)
                         \/ StopReader(s)
  \/ CepMoves \/ CepStops
  \/ TimePasses

ReaderSpec == ReaderInit /\ [][ReaderNext]_readerVars

\* The CEP and reader threads keep running, and time passes (strong fairness,
\* because the model stops the clock while a reader has a tag in hand).
FairReaderSpec ==
  /\ ReaderSpec
  /\ WF_readerVars(CepMoves)
  /\ \A s \in Station : WF_readerVars(QueueRead(s))
  /\ SF_readerVars(TimePasses)

-----------------------------------------------------------------------------
\* An entry is fused with a read of the part that caused it: the tuple handed
\* to the station names the part that is there ("create validated
\* (timestamp,station,part,activity) tuples", cep_consumer.py:17).
FusedWithOwnTag ==
  [][cep_pc = "fuse" /\ cep_pc' # "fuse" =>
       \A i \in DOMAIN nfc_to_remove' :
         event_part[pending_gpio_events[i].id]
           = read_part[pending_nfc_events[nfc_to_remove'[i]].id]]_readerVars
=============================================================================
