---------------------------- MODULE ReaderProofs ----------------------------
(***************************************************************************)
(* Theorems about the reader threads in front of the CEP consumer, for any *)
(* number of parts, events and reads, and with a log_event that may raise: *)
(* the threads and the consumer together are the consumer of CEPConsumer,  *)
(* and an entry is fused with a read of its own part whenever parts follow *)
(* each other by more than the fusion window.                              *)
(*                                                                         *)
(* The argument for the second looks at nothing but the stamps left at a   *)
(* station: how old each event or read under way is, and whose it is.  Two *)
(* stamps of different parts are MinGap apart.                             *)
(***************************************************************************)
EXTENDS NFCReader, CepProofs

-----------------------------------------------------------------------------
(* The inductive invariant.                                                *)

Events == Range(gpio_queue) \cup Range(mcp_queue) \cup Range(pending_gpio_events)
Reads  == Range(nfc_queue) \cup Range(pending_nfc_events)

\* Event g was caused at the entrance of station s.
AtEntry(g, s) == IsEntryBarrier(g.barrier) /\ Location(g.barrier) = <<"station", s>>

\* What the events and reads under way tell about the entrance of station s.
Stamp == [age : Nat, part : Part \cup {NoPart}]
Stamps(s) ==
  {[age |-> g.age, part |-> event_part[g.id]] : g \in {g \in Events : AtEntry(g, s)}}
    \cup {[age |-> n.age, part |-> read_part[n.id]] : n \in {n \in Reads : n.station = s}}

ReaderTypeOK ==
  /\ at_reader \in [Station -> Part \cup {NoPart}]
  /\ empty_since \in [Station -> 0..MinGap]
  /\ tag \in [Station -> Part \cup {NoPart}]
  /\ event_part \in [1..MaxSensorEvents -> Part \cup {NoPart}]
  /\ read_part \in [1..MaxReads -> Part \cup {NoPart}]

\* Every stamp in S that is not of part p is MinGap old.
OthersOld(S, p) == \A x \in S : x.part # p => x.age >= MinGap

Apart(S) == \A x, y \in S : x.part # y.part => x.age - y.age >= MinGap \/ y.age - x.age >= MinGap

\* The stamps S of a station, with part p there, or nobody since e, and tag t
\* in the hands of its reader thread.
StampsOK(S, p, e, t) ==
  /\ Apart(S)
  /\ p = NoPart => \A x \in S : x.age >= e
  /\ p # NoPart => OthersOld(S, p)
  /\ t # NoPart => p = t \/ (p = NoPart /\ e = 0 /\ OthersOld(S, t))

ReaderInv ==
  /\ CepTypeOK /\ ReaderTypeOK
  /\ \A s \in Station : StampsOK(Stamps(s), at_reader[s], empty_since[s], tag[s])

-----------------------------------------------------------------------------
(* The stamps of one station.                                              *)

\* A station without a stamp.
LEMMA NoStampsOK ==
  ASSUME NEW p, NEW e PROVE StampsOK({}, p, e, NoPart)
BY DEF StampsOK, Apart, OthersOld

\* Events and reads that are handled take their stamps with them.
LEMMA FewerStampsOK ==
  ASSUME NEW S, NEW T \in SUBSET S, NEW p, NEW e, NEW t, StampsOK(S, p, e, t)
  PROVE  StampsOK(T, p, e, t)
BY DEF StampsOK, Apart, OthersOld

\* A new stamp of part q fits to the others, all of which are of q or old.
LEMMA NewStampApart ==
  ASSUME NEW S \in SUBSET Stamp, Apart(S), NEW q \in Part, OthersOld(S, q)
  PROVE  /\ Apart(S \cup {[age |-> 0, part |-> q]})
         /\ \A p : OthersOld(S, p) /\ p = q => OthersOld(S \cup {[age |-> 0, part |-> q]}, p)
<1> DEFINE z == [age |-> 0, part |-> q]
<1>1. z.age = 0 /\ z.part = q
  OBVIOUS
<1>2. \A x \in S : x.age \in Nat
  BY DEF Stamp
<1>3. MinGap \in Nat
  BY ReaderAssumption
<1> HIDE DEF z
<1>4. \A x \in S : x.part # z.part => x.age - z.age >= MinGap
  BY <1>1, <1>2, <1>3 DEF OthersOld
<1>5. Apart(S \cup {z})
  BY <1>4 DEF Apart
<1>6. OthersOld(S \cup {z}, q)
  BY <1>1 DEF OthersOld
<1> QED BY <1>5, <1>6 DEF z

\* A part trips the barrier.
LEMMA TripStampsOK ==
  ASSUME NEW S \in SUBSET Stamp, NEW p \in Part, NEW e, NEW t, StampsOK(S, p, e, t)
  PROVE  StampsOK(S \cup {[age |-> 0, part |-> p]}, p, e, t)
<1>1. p # NoPart
  BY ReaderAssumption
<1>2. Apart(S) /\ OthersOld(S, p) /\ (t # NoPart => p = t)
  BY <1>1 DEF StampsOK
<1>3. Apart(S \cup {[age |-> 0, part |-> p]}) /\ OthersOld(S \cup {[age |-> 0, part |-> p]}, p)
  BY <1>2, NewStampApart
<1> QED BY <1>1, <1>2, <1>3 DEF StampsOK

\* The reader thread queues the tag it has in its hands.
LEMMA ReadStampsOK ==
  ASSUME NEW S \in SUBSET Stamp, NEW p, NEW e \in Nat, NEW t \in Part, StampsOK(S, p, e, t)
  PROVE  StampsOK(S \cup {[age |-> 0, part |-> t]}, p, e, NoPart)
<1>1. t # NoPart
  BY ReaderAssumption
<1>2. Apart(S) /\ OthersOld(S, t)
  BY <1>1 DEF StampsOK
<1>3. Apart(S \cup {[age |-> 0, part |-> t]}) /\ OthersOld(S \cup {[age |-> 0, part |-> t]}, t)
  BY <1>2, NewStampApart
<1>4. CASE p = t
  BY <1>1, <1>3, <1>4 DEF StampsOK
<1>5. CASE p = NoPart /\ e = 0
  <2>1. \A x \in S \cup {[age |-> 0, part |-> t]} : x.age >= 0
    BY DEF Stamp
  <2> QED BY <1>3, <1>5, <2>1 DEF StampsOK
<1> QED BY <1>1, <1>4, <1>5 DEF StampsOK

\* A part comes to an entrance that has been empty for MinGap.
LEMMA ArrivalStampsOK ==
  ASSUME NEW S, NEW p \in Part, NEW t, MinGap # 0, StampsOK(S, NoPart, MinGap, t)
  PROVE  StampsOK(S, p, MinGap, t)
BY ReaderAssumption DEF StampsOK, OthersOld

\* A part leaves; its tag may still be in the hands of the thread.
LEMMA LeavingStampsOK ==
  ASSUME NEW S \in SUBSET Stamp, NEW p \in Part, NEW e, NEW t, StampsOK(S, p, e, t)
  PROVE  StampsOK(S, NoPart, 0, t)
BY ReaderAssumption DEF StampsOK, OthersOld, Stamp

\* Time passes while the thread has no tag in its hands.
LEMMA OlderStampsOK ==
  ASSUME NEW S \in SUBSET Stamp, NEW T, NEW p, NEW e \in Nat, NEW f \in Nat, f <= e + 1,
         \A y \in T : \E x \in S : y.age = x.age + 1 /\ y.part = x.part,
         StampsOK(S, p, e, NoPart)
  PROVE  StampsOK(T, p, f, NoPart)
<1> DEFINE Old(y) == CHOOSE x \in S : y.age = x.age + 1 /\ y.part = x.part
<1>1. \A y \in T : Old(y) \in S /\ y.age = Old(y).age + 1 /\ y.part = Old(y).part
  OBVIOUS
<1>2. \A y \in T : Old(y).age \in Nat
  BY <1>1 DEF Stamp
<1>3. MinGap \in Nat
  BY ReaderAssumption
<1> HIDE DEF Old
<1>4. Apart(T)
  <2> SUFFICES ASSUME NEW x \in T, NEW y \in T, x.part # y.part
               PROVE  x.age - y.age >= MinGap \/ y.age - x.age >= MinGap
    BY DEF Apart
  <2>1. Old(x).age - Old(y).age >= MinGap \/ Old(y).age - Old(x).age >= MinGap
    BY <1>1 DEF StampsOK, Apart
  <2> QED BY <1>1, <1>2, <1>3, <2>1
<1>5. ASSUME p # NoPart PROVE OthersOld(T, p)
  <2> SUFFICES ASSUME NEW y \in T, y.part # p PROVE y.age >= MinGap
    BY DEF OthersOld
  <2>1. Old(y).age >= MinGap
    BY <1>1, <1>5 DEF StampsOK, OthersOld
  <2> QED BY <1>1, <1>2, <1>3, <2>1
<1>6. ASSUME p = NoPart, NEW y \in T PROVE y.age >= f
  <2>1. Old(y).age >= e
    BY <1>1, <1>6 DEF StampsOK
  <2> QED BY <1>1, <1>2, <2>1
<1> QED BY <1>4, <1>5, <1>6 DEF StampsOK

-----------------------------------------------------------------------------
(* The events and reads under way.                                         *)

\* What the operations on the lists do to the set of their elements.
LEMMA AppendRange ==
  ASSUME NEW S, NEW s \in Seq(S), NEW x
  PROVE  Range(Append(s, x)) \subseteq Range(s) \cup {x}
<1>1. s \in Seq(S \cup {x}) /\ x \in S \cup {x}
  OBVIOUS
<1> QED BY <1>1, AppendEffect DEF Range

LEMMA SubListRange ==
  ASSUME NEW t, NEW s, SubList(t, s)
  PROVE  Range(t) \subseteq Range(s)
BY DEF SubList, Range

LEMMA ConsumeRange ==
  ASSUME NEW S, NEW q \in Seq(S), q # <<>>, NEW s \in Seq(S)
  PROVE  Range(Tail(q)) \cup Range(Append(s, Head(q))) \subseteq Range(q) \cup Range(s)
<1>1. Head(q) \in S /\ Head(q) \in Range(q) /\ SubList(Tail(q), q)
  BY TailIsSubList DEF Range
<1>2. Range(Append(s, Head(q))) \subseteq Range(s) \cup {Head(q)}
  BY <1>1, AppendRange
<1> QED BY <1>1, <1>2, SubListRange

\* The CEP thread makes no event and no read.
LEMMA CepThreadMakesNone ==
  ASSUME CepTypeOK, CepThread
  PROVE  Events' \subseteq Events /\ Reads' \subseteq Reads
<1> USE DEF inputVars, pendingVars
<1>1. /\ gpio_queue \in Seq(SensorEvent) /\ mcp_queue \in Seq(SensorEvent)
      /\ pending_gpio_events \in Seq(SensorEvent)
      /\ nfc_queue \in Seq(NfcEvent) /\ pending_nfc_events \in Seq(NfcEvent)
  BY DEF CepTypeOK
<1>2. CASE UNCHANGED <<inputVars, pendingVars>>
  BY <1>2 DEF Events, Reads
<1>3. CASE ConsumeGpio
  <2>1. CASE gpio_queue = <<>>
    BY <1>2, <1>3, <2>1 DEF ConsumeGpio
  <2>2. CASE gpio_queue # <<>>
    <3>1. Range(gpio_queue') \cup Range(pending_gpio_events') \subseteq Range(gpio_queue) \cup Range(pending_gpio_events)
      BY <1>1, <1>3, <2>2, ConsumeRange DEF ConsumeGpio
    <3>2. UNCHANGED <<mcp_queue, nfc_queue, pending_nfc_events>>
      BY <1>3 DEF ConsumeGpio
    <3> QED BY <3>1, <3>2 DEF Events, Reads
  <2> QED BY <2>1, <2>2
<1>4. CASE ConsumeMcp
  <2>1. CASE mcp_queue = <<>>
    BY <1>2, <1>4, <2>1 DEF ConsumeMcp
  <2>2. CASE mcp_queue # <<>>
    <3>1. Range(mcp_queue') \cup Range(pending_gpio_events') \subseteq Range(mcp_queue) \cup Range(pending_gpio_events)
      BY <1>1, <1>4, <2>2, ConsumeRange DEF ConsumeMcp
    <3>2. UNCHANGED <<gpio_queue, nfc_queue, pending_nfc_events>>
      BY <1>4 DEF ConsumeMcp
    <3> QED BY <3>1, <3>2 DEF Events, Reads
  <2> QED BY <2>1, <2>2
<1>5. CASE ConsumeNfc
  <2>1. CASE nfc_queue = <<>>
    BY <1>2, <1>5, <2>1 DEF ConsumeNfc
  <2>2. CASE nfc_queue # <<>>
    <3>1. Range(nfc_queue') \cup Range(pending_nfc_events') \subseteq Range(nfc_queue) \cup Range(pending_nfc_events)
      BY <1>1, <1>5, <2>2, ConsumeRange DEF ConsumeNfc
    <3>2. UNCHANGED <<gpio_queue, mcp_queue, pending_gpio_events>>
      BY <1>5 DEF ConsumeNfc
    <3> QED BY <3>1, <3>2 DEF Events, Reads
  <2> QED BY <2>1, <2>2
<1>6. CASE DelGpio
  <2> DEFINE idx == NextIndex(gpio_to_remove)
  <2>1. CASE idx \in DOMAIN pending_gpio_events
    <3>1. pending_gpio_events' = RemoveAt(pending_gpio_events, idx) /\ UNCHANGED <<inputVars, pending_nfc_events>>
      BY <1>6, <2>1 DEF DelGpio
    <3>2. Range(pending_gpio_events') \subseteq Range(pending_gpio_events)
      BY <1>1, <2>1, <3>1, RemoveAtIsSubList, SubListRange
    <3> QED BY <3>1, <3>2 DEF Events, Reads
  <2>2. CASE idx \notin DOMAIN pending_gpio_events
    BY <1>2, <1>6, <2>2 DEF DelGpio, PassRaises
  <2> QED BY <2>1, <2>2
<1>7. CASE DelNfc
  <2> DEFINE idx == NextIndex(Range(nfc_to_remove))
  <2>1. CASE idx \in DOMAIN pending_nfc_events
    <3>1. pending_nfc_events' = RemoveAt(pending_nfc_events, idx) /\ UNCHANGED <<inputVars, pending_gpio_events>>
      BY <1>7, <2>1 DEF DelNfc
    <3>2. Range(pending_nfc_events') \subseteq Range(pending_nfc_events)
      BY <1>1, <2>1, <3>1, RemoveAtIsSubList, SubListRange
    <3> QED BY <3>1, <3>2 DEF Events, Reads
  <2>2. CASE idx \notin DOMAIN pending_nfc_events
    BY <1>2, <1>7, <2>2 DEF DelNfc, PassRaises
  <2> QED BY <2>1, <2>2
<1>8. CASE LoopTop \/ FuseEvents \/ ExpireGpio \/ ExpireReads \/ GpioDeleted \/ NfcDeleted
  BY <1>2, <1>8 DEF LoopTop, FuseEvents, ExpireGpio, ExpireReads, GpioDeleted, NfcDeleted
<1> QED BY <1>3, <1>4, <1>5, <1>6, <1>7, <1>8 DEF CepThread

\* The events and reads under way are of their kinds.
LEMMA UnderWayTypes ==
  ASSUME CepTypeOK
  PROVE  Events \subseteq SensorEvent /\ Reads \subseteq NfcEvent
<1>1. /\ gpio_queue \in Seq(SensorEvent) /\ mcp_queue \in Seq(SensorEvent)
      /\ pending_gpio_events \in Seq(SensorEvent)
      /\ nfc_queue \in Seq(NfcEvent) /\ pending_nfc_events \in Seq(NfcEvent)
  BY DEF CepTypeOK
<1>2. ASSUME NEW S, NEW s \in Seq(S) PROVE Range(s) \subseteq S
  BY ListElements DEF Range
<1>3. /\ Range(gpio_queue) \subseteq SensorEvent /\ Range(mcp_queue) \subseteq SensorEvent
      /\ Range(pending_gpio_events) \subseteq SensorEvent
      /\ Range(nfc_queue) \subseteq NfcEvent /\ Range(pending_nfc_events) \subseteq NfcEvent
  BY <1>1, <1>2
<1> QED BY <1>3 DEF Events, Reads

LEMMA StampTypes ==
  ASSUME CepTypeOK, ReaderTypeOK, NEW s
  PROVE  Stamps(s) \in SUBSET Stamp
<1>1. \A g \in Events : g.age \in Nat /\ g.id \in 1..MaxSensorEvents
  BY UnderWayTypes, CepBounds DEF SensorEvent
<1>2. \A n \in Reads : n.age \in Nat /\ n.id \in 1..MaxReads
  BY UnderWayTypes, CepBounds DEF NfcEvent
<1>3. \A g \in Events : event_part[g.id] \in Part \cup {NoPart}
  BY <1>1 DEF ReaderTypeOK
<1>4. \A n \in Reads : read_part[n.id] \in Part \cup {NoPart}
  BY <1>2 DEF ReaderTypeOK
<1>5. ASSUME NEW x \in Stamps(s) PROVE x \in Stamp
  <2>1. CASE \E g \in Events : x = [age |-> g.age, part |-> event_part[g.id]]
    BY <1>1, <1>3, <2>1 DEF Stamp
  <2>2. CASE \E n \in Reads : x = [age |-> n.age, part |-> read_part[n.id]]
    BY <1>2, <1>4, <2>2 DEF Stamp
  <2> QED BY <2>1, <2>2 DEF Stamps
<1> QED BY <1>5

\* The parts of the events and reads that stay under way are kept.
LEMMA PartsKept ==
  ASSUME CepTypeOK, ReaderTypeOK, CepMoves
  PROVE  /\ \A g \in Events' : g \in Events /\ event_part'[g.id] = event_part[g.id]
         /\ \A n \in Reads' : n \in Reads /\ read_part'[n.id] = read_part[n.id]
         /\ event_part' \in [1..MaxSensorEvents -> Part \cup {NoPart}]
         /\ read_part' \in [1..MaxReads -> Part \cup {NoPart}]
<1>1. Events' \subseteq Events /\ Reads' \subseteq Reads
  BY CepThreadMakesNone DEF CepMoves
<1>2. /\ event_part' = [i \in 1..MaxSensorEvents |-> IF i \in SensorIds' THEN event_part[i] ELSE NoPart]
      /\ read_part' = [i \in 1..MaxReads |-> IF i \in ReadIds' THEN read_part[i] ELSE NoPart]
  BY DEF CepMoves, StillUnderWay, ReaderTypeOK
<1>3. /\ \A g \in Events' : g.id \in SensorIds'
      /\ \A n \in Reads' : n.id \in ReadIds'
  BY Zenon DEF Events, Reads, SensorIds, ReadIds, Ids, Range
<1>4. /\ \A g \in Events : g.id \in 1..MaxSensorEvents
      /\ \A n \in Reads : n.id \in 1..MaxReads
  BY UnderWayTypes DEF SensorEvent, NfcEvent
<1>5. \A g \in Events' : g \in Events /\ event_part'[g.id] = event_part[g.id]
  BY <1>1, <1>2, <1>3, <1>4
<1>6. \A n \in Reads' : n \in Reads /\ read_part'[n.id] = read_part[n.id]
  BY <1>1, <1>2, <1>3, <1>4
<1>7. event_part' \in [1..MaxSensorEvents -> Part \cup {NoPart}]
  BY <1>2 DEF ReaderTypeOK
<1>8. read_part' \in [1..MaxReads -> Part \cup {NoPart}]
  BY <1>2 DEF ReaderTypeOK
<1> QED BY <1>5, <1>6, <1>7, <1>8

\* No new event or read, no new stamp.
LEMMA StampsShrink ==
  ASSUME CepTypeOK, ReaderTypeOK, CepMoves, NEW s
  PROVE  Stamps(s)' \subseteq Stamps(s)
<1>1. ASSUME NEW x \in Stamps(s)' PROVE x \in Stamps(s)
  <2>1. CASE \E g \in Events' : AtEntry(g, s) /\ x = [age |-> g.age, part |-> event_part'[g.id]]
    BY <2>1, PartsKept DEF Stamps
  <2>2. CASE \E n \in Reads' : n.station = s /\ x = [age |-> n.age, part |-> read_part'[n.id]]
    BY <2>2, PartsKept DEF Stamps
  <2> QED BY <2>1, <2>2 DEF Stamps, AtEntry
<1> QED BY <1>1

\* A sensor event leaves one stamp, at its own station, of the part there.
LEMMA TripAddsStamp ==
  ASSUME CepTypeOK, ReaderTypeOK, NEW t \in Station, BarrierTrips(t), NEW s \in Station
  PROVE  /\ s # t => Stamps(s)' \subseteq Stamps(s)
         /\ s = t => Stamps(s)' \subseteq Stamps(s) \cup {[age |-> 0, part |-> at_reader[t]]}
<1> DEFINE id == Min(FreeIds(MaxSensorEvents, SensorIds))
           new == NewSensorEvent(id, <<"ENTRY", t>>)
<1>1. id \in 1..MaxSensorEvents /\ id \notin SensorIds
  BY FreshId, CepBounds DEF BarrierTrips, PutGpioEvent
<1>2. /\ gpio_queue' = PutNowait(gpio_queue, new)
      /\ UNCHANGED <<mcp_queue, nfc_queue, pending_gpio_events, pending_nfc_events, read_part>>
      /\ event_part' = [event_part EXCEPT ![id] = at_reader[t]]
  BY DEF BarrierTrips, PutGpioEvent, pendingVars
<1>3. \A g \in Events : g.id # id
  BY <1>1, Zenon DEF SensorIds, Ids, Events, Range
<1>4. /\ event_part'[id] = at_reader[t]
      /\ \A g \in Events : event_part'[g.id] = event_part[g.id]
  <2>1. \A g \in Events : g.id \in 1..MaxSensorEvents
    BY UnderWayTypes DEF SensorEvent
  <2> HIDE DEF id
  <2> QED BY <1>1, <1>2, <1>3, <2>1 DEF ReaderTypeOK
<1>5. new.id = id /\ new.age = 0 /\ new.barrier = <<"ENTRY", t>>
  BY DEF NewSensorEvent
<1>6. AtEntry(new, s) => s = t
  BY <1>5 DEF AtEntry, Location, StationKind, IsEntryBarrier
<1> HIDE DEF id, new
<1>7. Events' \subseteq Events \cup {new} /\ Reads' = Reads
  <2>1. gpio_queue' = gpio_queue \/ gpio_queue' = Append(gpio_queue, new)
    BY <1>2 DEF PutNowait
  <2>2. gpio_queue \in Seq(SensorEvent)
    BY DEF CepTypeOK
  <2>3. Range(Append(gpio_queue, new)) \subseteq Range(gpio_queue) \cup {new}
    BY <2>2, AppendRange
  <2> QED BY <1>2, <2>1, <2>3 DEF Events, Reads
<1>8. ASSUME NEW x \in Stamps(s)'
      PROVE  x \in Stamps(s) \/ (s = t /\ x = [age |-> 0, part |-> at_reader[t]])
  <2>1. CASE \E g \in Events' : AtEntry(g, s) /\ x = [age |-> g.age, part |-> event_part'[g.id]]
    <3>1. PICK g \in Events' : AtEntry(g, s) /\ x = [age |-> g.age, part |-> event_part'[g.id]]
      BY <2>1
    <3>2. CASE g \in Events
      BY <1>4, <3>1, <3>2 DEF Stamps
    <3>3. CASE g = new
      BY <1>4, <1>5, <1>6, <3>1, <3>3
    <3> QED BY <1>7, <3>2, <3>3
  <2>2. CASE \E n \in Reads' : n.station = s /\ x = [age |-> n.age, part |-> read_part'[n.id]]
    BY <1>2, <1>7, <2>2 DEF Stamps
  <2> QED BY <2>1, <2>2 DEF Stamps, AtEntry
<1> QED BY <1>8

\* A read leaves one stamp, at its own station, of the tag that was read.
LEMMA ReadAddsStamp ==
  ASSUME CepTypeOK, ReaderTypeOK, NEW t \in Station, QueueRead(t), NEW s \in Station
  PROVE  /\ s # t => Stamps(s)' \subseteq Stamps(s)
         /\ s = t => Stamps(s)' \subseteq Stamps(s) \cup {[age |-> 0, part |-> tag[t]]}
<1> DEFINE id == Min(FreeIds(MaxReads, ReadIds))
           new == [id |-> id, station |-> t, age |-> 0]
<1>1. id \in 1..MaxReads /\ id \notin ReadIds
  BY FreshId, CepBounds DEF QueueRead, PutRead
<1>2. /\ nfc_queue' = PutNowait(nfc_queue, new)
      /\ UNCHANGED <<gpio_queue, mcp_queue, pending_gpio_events, pending_nfc_events, event_part>>
      /\ read_part' = [read_part EXCEPT ![id] = tag[t]]
  BY DEF QueueRead, PutRead, pendingVars
<1>3. \A n \in Reads : n.id # id
  BY <1>1, Zenon DEF ReadIds, Ids, Reads, Range
<1>4. /\ read_part'[id] = tag[t]
      /\ \A n \in Reads : read_part'[n.id] = read_part[n.id]
  <2>1. \A n \in Reads : n.id \in 1..MaxReads
    BY UnderWayTypes DEF NfcEvent
  <2> HIDE DEF id
  <2> QED BY <1>1, <1>2, <1>3, <2>1 DEF ReaderTypeOK
<1>5. new.id = id /\ new.age = 0 /\ new.station = t
  OBVIOUS
<1> HIDE DEF id, new
<1>6. Reads' \subseteq Reads \cup {new} /\ Events' = Events
  <2>1. nfc_queue' = nfc_queue \/ nfc_queue' = Append(nfc_queue, new)
    BY <1>2 DEF PutNowait
  <2>2. nfc_queue \in Seq(NfcEvent)
    BY DEF CepTypeOK
  <2>3. Range(Append(nfc_queue, new)) \subseteq Range(nfc_queue) \cup {new}
    BY <2>2, AppendRange
  <2> QED BY <1>2, <2>1, <2>3 DEF Events, Reads
<1>7. ASSUME NEW x \in Stamps(s)'
      PROVE  x \in Stamps(s) \/ (s = t /\ x = [age |-> 0, part |-> tag[t]])
  <2>1. CASE \E n \in Reads' : n.station = s /\ x = [age |-> n.age, part |-> read_part'[n.id]]
    <3>1. PICK n \in Reads' : n.station = s /\ x = [age |-> n.age, part |-> read_part'[n.id]]
      BY <2>1
    <3>2. CASE n \in Reads
      BY <1>4, <3>1, <3>2 DEF Stamps
    <3>3. CASE n = new
      BY <1>4, <1>5, <3>1, <3>3
    <3> QED BY <1>6, <3>2, <3>3
  <2>2. CASE \E g \in Events' : AtEntry(g, s) /\ x = [age |-> g.age, part |-> event_part'[g.id]]
    BY <1>2, <1>6, <2>2 DEF Stamps
  <2> QED BY <2>1, <2>2 DEF Stamps, AtEntry
<1> QED BY <1>7

\* A tick makes every stamp one tick older.
LEMMA TickStamps ==
  ASSUME CepTypeOK, Tick, UNCHANGED <<event_part, read_part>>, NEW s
  PROVE  \A y \in Stamps(s)' : \E x \in Stamps(s) : y.age = x.age + 1 /\ y.part = x.part
<1>1. ASSUME NEW q \in Seq(SensorEvent), Young(q)
      PROVE  \A h \in Range(Older(q)) : \E g \in Range(q) :
               h.id = g.id /\ h.barrier = g.barrier /\ h.age = g.age + 1
  BY <1>1, OlderSensorEvents DEF Range
<1>2. ASSUME NEW q \in Seq(NfcEvent), Young(q)
      PROVE  \A h \in Range(Older(q)) : \E g \in Range(q) :
               h.id = g.id /\ h.station = g.station /\ h.age = g.age + 1
  <2>1. \A i \in DOMAIN q : q[i] \in NfcEvent
    BY ListElements
  <2> SUFFICES ASSUME NEW h \in Range(Older(q))
               PROVE  \E g \in Range(q) : h.id = g.id /\ h.station = g.station /\ h.age = g.age + 1
    OBVIOUS
  <2>2. PICK i \in DOMAIN q : h = [q[i] EXCEPT !.age = @ + 1]
    BY DEF Older, Range
  <2>3. h.id = q[i].id /\ h.station = q[i].station /\ h.age = q[i].age + 1
    BY <2>1, <2>2 DEF NfcEvent
  <2>4. q[i] \in Range(q)
    BY DEF Range
  <2> QED BY <2>3, <2>4
<1>3. \A h \in Events' : \E g \in Events : h.id = g.id /\ h.barrier = g.barrier /\ h.age = g.age + 1
  BY <1>1 DEF Tick, CepTypeOK, Events
<1>4. \A h \in Reads' : \E g \in Reads : h.id = g.id /\ h.station = g.station /\ h.age = g.age + 1
  BY <1>2 DEF Tick, CepTypeOK, Reads
<1>5. ASSUME NEW y \in Stamps(s)' PROVE \E x \in Stamps(s) : y.age = x.age + 1 /\ y.part = x.part
  <2>1. CASE \E h \in Events' : AtEntry(h, s) /\ y = [age |-> h.age, part |-> event_part[h.id]]
    <3>1. PICK h \in Events' : AtEntry(h, s) /\ y = [age |-> h.age, part |-> event_part[h.id]]
      BY <2>1
    <3>2. PICK g \in Events : h.id = g.id /\ h.barrier = g.barrier /\ h.age = g.age + 1
      BY <1>3
    <3>3. [age |-> g.age, part |-> event_part[g.id]] \in Stamps(s)
      BY <3>1, <3>2 DEF Stamps, AtEntry
    <3> QED BY <3>1, <3>2, <3>3
  <2>2. CASE \E h \in Reads' : h.station = s /\ y = [age |-> h.age, part |-> read_part[h.id]]
    <3>1. PICK h \in Reads' : h.station = s /\ y = [age |-> h.age, part |-> read_part[h.id]]
      BY <2>2
    <3>2. PICK g \in Reads : h.id = g.id /\ h.station = g.station /\ h.age = g.age + 1
      BY <1>4
    <3>3. [age |-> g.age, part |-> read_part[g.id]] \in Stamps(s)
      BY <3>1, <3>2 DEF Stamps
    <3> QED BY <3>1, <3>2, <3>3
  <2> QED BY <2>1, <2>2 DEF Stamps, AtEntry
<1> QED BY <1>5

-----------------------------------------------------------------------------
(* Steps.                                                                  *)

\* Every step of the threads and parts is a step of the consumer, or none.
LEMMA ReaderStepIsCepStep ==
  ASSUME [ReaderNext]_readerVars
  PROVE  [CepNext]_cepVars
<1>1. ASSUME NEW s \in Entrance, BarrierTrips(s) PROVE CepNext
  BY <1>1 DEF BarrierTrips, Entrance, CepNext
<1>2. ASSUME NEW s \in Entrance, QueueRead(s) PROVE CepNext
  BY <1>2 DEF QueueRead, Entrance, CepNext
<1>3. ASSUME NEW s \in Entrance, NEW p \in Part, PartArrives(s, p) PROVE UNCHANGED cepVars
  BY <1>3 DEF PartArrives
<1>4. ASSUME NEW s \in Entrance, PartLeaves(s) \/ BlockingReadTag(s) \/ StopReader(s) PROVE UNCHANGED cepVars
  BY <1>4 DEF PartLeaves, BlockingReadTag, StopReader
<1>5. CASE CepMoves \/ CepStops \/ TimePasses
  BY <1>5 DEF CepMoves, CepStops, TimePasses, CepNext
<1>6. CASE UNCHANGED readerVars
  BY <1>6 DEF readerVars
<1> QED BY <1>1, <1>2, <1>3, <1>4, <1>5, <1>6 DEF ReaderNext

\* Min as it is used for the time an entrance has been empty.
LEMMA EmptySinceStep ==
  ASSUME NEW e \in 0..MinGap
  PROVE  Min({e + 1, MinGap}) \in 0..MinGap /\ Min({e + 1, MinGap}) <= e + 1
<1>1. MinGap \in Nat /\ e \in Nat
  BY ReaderAssumption
<1>2. {e + 1, MinGap} \in SUBSET Nat /\ {e + 1, MinGap} # {}
  BY <1>1
<1>3. /\ Min({e + 1, MinGap}) \in {e + 1, MinGap}
      /\ \A x \in {e + 1, MinGap} : Min({e + 1, MinGap}) <= x
  BY <1>2, MinEffect
<1> QED BY <1>1, <1>3

LEMMA ReaderTypeStep ==
  ASSUME CepTypeOK, ReaderTypeOK, [ReaderNext]_readerVars
  PROVE  ReaderTypeOK'
<1> USE DEF entranceVars, threadVars
<1>a. MinGap \in Nat /\ 0 \in 0..MinGap
  BY ReaderAssumption
<1>b. Entrance \subseteq Station
  BY DEF Entrance
<1>1. ASSUME NEW s \in Entrance, NEW p \in Part, PartArrives(s, p) PROVE ReaderTypeOK'
  BY <1>1, <1>b DEF PartArrives, ReaderTypeOK
<1>2. ASSUME NEW s \in Entrance, PartLeaves(s) PROVE ReaderTypeOK'
  BY <1>2, <1>a, <1>b DEF PartLeaves, ReaderTypeOK
<1>3. ASSUME NEW s \in Entrance, BarrierTrips(s) PROVE ReaderTypeOK'
  <2> DEFINE id == Min(FreeIds(MaxSensorEvents, SensorIds))
  <2>1. event_part' = [event_part EXCEPT ![id] = at_reader[s]]
        /\ UNCHANGED <<entranceVars, threadVars, read_part>>
    BY <1>3 DEF BarrierTrips
  <2> HIDE DEF id
  <2>2. at_reader[s] \in Part \cup {NoPart}
    BY <1>b DEF ReaderTypeOK
  <2>3. event_part' \in [1..MaxSensorEvents -> Part \cup {NoPart}]
    BY <2>1, <2>2 DEF ReaderTypeOK
  <2> QED BY <2>1, <2>3 DEF ReaderTypeOK
<1>4. ASSUME NEW s \in Entrance, BlockingReadTag(s) PROVE ReaderTypeOK'
  BY <1>4, <1>b DEF BlockingReadTag, ReaderTypeOK
<1>5. ASSUME NEW s \in Entrance, QueueRead(s) PROVE ReaderTypeOK'
  <2> DEFINE id == Min(FreeIds(MaxReads, ReadIds))
  <2>1. read_part' = [read_part EXCEPT ![id] = tag[s]]
        /\ tag' = [tag EXCEPT ![s] = NoPart] /\ UNCHANGED <<entranceVars, event_part>>
    BY <1>5 DEF QueueRead
  <2> HIDE DEF id
  <2>2. tag[s] \in Part \cup {NoPart}
    BY <1>b DEF ReaderTypeOK
  <2>3. read_part' \in [1..MaxReads -> Part \cup {NoPart}]
    BY <2>1, <2>2 DEF ReaderTypeOK
  <2> QED BY <2>1, <2>3 DEF ReaderTypeOK
<1>6. ASSUME NEW s \in Entrance, StopReader(s) PROVE ReaderTypeOK'
  BY <1>6 DEF StopReader, ReaderTypeOK
<1>7. CASE CepMoves
  <2>1. UNCHANGED <<at_reader, empty_since, tag>>
    BY <1>7 DEF CepMoves
  <2> QED BY <1>7, <2>1, PartsKept DEF ReaderTypeOK
<1>10. CASE CepStops
  BY <1>10 DEF CepStops, ReaderTypeOK
<1>8. CASE TimePasses
  <2>1. \A s \in Station : Min({empty_since[s] + 1, MinGap}) \in 0..MinGap
    BY EmptySinceStep DEF ReaderTypeOK
  <2>2. empty_since' \in [Station -> 0..MinGap]
    BY <1>8, <2>1 DEF TimePasses, ReaderTypeOK
  <2> QED BY <1>8, <2>2 DEF TimePasses, ReaderTypeOK
<1>9. CASE UNCHANGED readerVars
  BY <1>9 DEF readerVars, ReaderTypeOK
<1> QED BY <1>1, <1>2, <1>3, <1>4, <1>5, <1>6, <1>7, <1>8, <1>9, <1>10 DEF ReaderNext

\* Every step keeps the stamps of every station apart.
LEMMA StampsStep ==
  ASSUME MinGap # 0, ReaderInv, [ReaderNext]_readerVars, NEW s \in Station
  PROVE  StampsOK(Stamps(s), at_reader[s], empty_since[s], tag[s])'
<1> USE DEF entranceVars, threadVars
<1> DEFINE S == Stamps(s)
           Sn == Stamps(s)'
<1>a. CepTypeOK /\ ReaderTypeOK /\ StampsOK(S, at_reader[s], empty_since[s], tag[s])
  BY DEF ReaderInv
<1>b. S \in SUBSET Stamp
  BY <1>a, StampTypes
<1>c. /\ at_reader[s] \in Part \cup {NoPart} /\ tag[s] \in Part \cup {NoPart}
      /\ empty_since[s] \in 0..MinGap /\ empty_since[s] \in Nat
  BY <1>a, ReaderAssumption DEF ReaderTypeOK
<1>d. Entrance \subseteq Station
  BY DEF Entrance
<1>e. ASSUME UNCHANGED <<cepVars, event_part, read_part>> PROVE Sn = S
  BY <1>e DEF Stamps, AtEntry, Events, Reads, cepVars, inputVars, pendingVars
<1> SUFFICES StampsOK(Sn, at_reader'[s], empty_since'[s], tag'[s])
  BY DEF StampsOK, Apart, OthersOld
<1> HIDE DEF S, Sn
<1>1. ASSUME NEW t \in Entrance, NEW p \in Part, PartArrives(t, p)
      PROVE  StampsOK(Sn, at_reader'[s], empty_since'[s], tag'[s])
  <2>1. Sn = S /\ UNCHANGED <<empty_since, tag>> /\ at_reader' = [at_reader EXCEPT ![t] = p]
    BY <1>1, <1>e DEF PartArrives
  <2>2. CASE s # t
    <3>1. at_reader'[s] = at_reader[s]
      BY <1>a, <2>1, <2>2 DEF ReaderTypeOK
    <3> QED BY <1>a, <2>1, <3>1
  <2>3. CASE s = t
    <3>1. at_reader'[s] = p /\ at_reader[s] = NoPart /\ empty_since[s] = MinGap
      BY <1>1, <1>a, <2>1, <2>3 DEF PartArrives, ReaderTypeOK
    <3> QED BY <1>a, <2>1, <3>1, ArrivalStampsOK
  <2> QED BY <2>2, <2>3
<1>2. ASSUME NEW t \in Entrance, PartLeaves(t)
      PROVE  StampsOK(Sn, at_reader'[s], empty_since'[s], tag'[s])
  <2>1. /\ Sn = S /\ UNCHANGED tag /\ at_reader[t] # NoPart
        /\ at_reader' = [at_reader EXCEPT ![t] = NoPart]
        /\ empty_since' = [empty_since EXCEPT ![t] = 0]
    BY <1>2, <1>e DEF PartLeaves
  <2>2. CASE s # t
    <3>1. at_reader'[s] = at_reader[s] /\ empty_since'[s] = empty_since[s]
      BY <1>a, <2>1, <2>2 DEF ReaderTypeOK
    <3> QED BY <1>a, <2>1, <3>1
  <2>3. CASE s = t
    <3>1. at_reader'[s] = NoPart /\ empty_since'[s] = 0 /\ at_reader[s] \in Part
      BY <1>a, <1>c, <2>1, <2>3 DEF ReaderTypeOK
    <3> QED BY <1>a, <1>b, <2>1, <3>1, LeavingStampsOK
  <2> QED BY <2>2, <2>3
<1>3. ASSUME NEW t \in Entrance, BarrierTrips(t)
      PROVE  StampsOK(Sn, at_reader'[s], empty_since'[s], tag'[s])
  <2>1. UNCHANGED <<at_reader, empty_since, tag>> /\ at_reader[t] # NoPart
    BY <1>3 DEF BarrierTrips
  <2>2. CASE s # t
    <3>1. Sn \subseteq S
      BY <1>3, <1>a, <1>d, <2>2, TripAddsStamp DEF S, Sn
    <3> QED BY <1>a, <2>1, <3>1, FewerStampsOK
  <2>3. CASE s = t
    <3>1. Sn \subseteq S \cup {[age |-> 0, part |-> at_reader[s]]}
      BY <1>3, <1>a, <1>d, <2>3, TripAddsStamp DEF S, Sn
    <3>2. at_reader[s] \in Part
      BY <1>c, <2>1, <2>3
    <3>3. StampsOK(S \cup {[age |-> 0, part |-> at_reader[s]]}, at_reader[s], empty_since[s], tag[s])
      BY <1>a, <1>b, <3>2, TripStampsOK
    <3> QED BY <2>1, <3>1, <3>3, FewerStampsOK
  <2> QED BY <2>2, <2>3
<1>4. ASSUME NEW t \in Entrance, BlockingReadTag(t)
      PROVE  StampsOK(Sn, at_reader'[s], empty_since'[s], tag'[s])
  <2>1. /\ Sn = S /\ UNCHANGED <<at_reader, empty_since>> /\ at_reader[t] # NoPart
        /\ tag' = [tag EXCEPT ![t] = at_reader[t]]
    BY <1>4, <1>e DEF BlockingReadTag
  <2>2. CASE s # t
    <3>1. tag'[s] = tag[s]
      BY <1>a, <2>1, <2>2 DEF ReaderTypeOK
    <3> QED BY <1>a, <2>1, <3>1
  <2>3. CASE s = t
    <3>1. tag'[s] = at_reader[s] /\ at_reader[s] # NoPart
      BY <1>a, <2>1, <2>3 DEF ReaderTypeOK
    <3> QED BY <1>a, <2>1, <3>1 DEF StampsOK
  <2> QED BY <2>2, <2>3
<1>5. ASSUME NEW t \in Entrance, QueueRead(t)
      PROVE  StampsOK(Sn, at_reader'[s], empty_since'[s], tag'[s])
  <2>1. /\ UNCHANGED <<at_reader, empty_since>> /\ tag[t] # NoPart
        /\ tag' = [tag EXCEPT ![t] = NoPart]
    BY <1>5 DEF QueueRead
  <2>2. CASE s # t
    <3>1. Sn \subseteq S
      BY <1>5, <1>a, <1>d, <2>2, ReadAddsStamp DEF S, Sn
    <3>2. tag'[s] = tag[s]
      BY <1>a, <2>1, <2>2 DEF ReaderTypeOK
    <3> QED BY <1>a, <2>1, <3>1, <3>2, FewerStampsOK
  <2>3. CASE s = t
    <3>1. Sn \subseteq S \cup {[age |-> 0, part |-> tag[s]]}
      BY <1>5, <1>a, <1>d, <2>3, ReadAddsStamp DEF S, Sn
    <3>2. tag[s] \in Part /\ tag'[s] = NoPart
      BY <1>a, <1>c, <2>1, <2>3 DEF ReaderTypeOK
    <3>3. StampsOK(S \cup {[age |-> 0, part |-> tag[s]]}, at_reader[s], empty_since[s], NoPart)
      BY <1>a, <1>b, <1>c, <3>2, ReadStampsOK
    <3> QED BY <2>1, <3>1, <3>2, <3>3, FewerStampsOK
  <2> QED BY <2>2, <2>3
<1>6. ASSUME NEW t \in Entrance, StopReader(t)
      PROVE  StampsOK(Sn, at_reader'[s], empty_since'[s], tag'[s])
  <2>1. Sn = S /\ UNCHANGED <<at_reader, empty_since, tag>>
    BY <1>6, <1>e DEF StopReader
  <2> QED BY <1>a, <2>1
<1>7. CASE CepMoves
  <2>1. UNCHANGED <<at_reader, empty_since, tag>>
    BY <1>7 DEF CepMoves
  <2>2. Sn \subseteq S
    BY <1>7, <1>a, StampsShrink DEF S, Sn
  <2> QED BY <1>a, <2>1, <2>2, FewerStampsOK
<1>8. CASE CepStops
  <2>1. UNCHANGED <<at_reader, empty_since, tag, event_part, read_part, inputVars, pendingVars>>
    BY <1>8 DEF CepStops, Stop
  <2>2. Sn = S
    BY <2>1 DEF S, Sn, Stamps, AtEntry, Events, Reads, inputVars, pendingVars
  <2> QED BY <1>a, <2>1, <2>2
<1>9. CASE TimePasses
  <2>1. Tick /\ UNCHANGED <<at_reader, tag, event_part, read_part>> /\ tag[s] = NoPart
    BY <1>9 DEF TimePasses
  <2>2. \A y \in Sn : \E x \in S : y.age = x.age + 1 /\ y.part = x.part
    BY <1>a, <2>1, TickStamps DEF S, Sn
  <2>3. empty_since'[s] \in Nat /\ empty_since'[s] <= empty_since[s] + 1
    <3>1. empty_since'[s] = Min({empty_since[s] + 1, MinGap}) \/ empty_since'[s] = empty_since[s]
      BY <1>9 DEF TimePasses
    <3>2. /\ Min({empty_since[s] + 1, MinGap}) \in 0..MinGap
          /\ Min({empty_since[s] + 1, MinGap}) <= empty_since[s] + 1
      BY <1>c, EmptySinceStep
    <3> QED BY <1>c, <3>1, <3>2, ReaderAssumption
  <2> QED BY <1>a, <1>b, <1>c, <2>1, <2>2, <2>3, OlderStampsOK
<1>10. CASE UNCHANGED readerVars
  <2>1. Sn = S /\ UNCHANGED <<at_reader, empty_since, tag>>
    BY <1>10, <1>e DEF readerVars
  <2> QED BY <1>a, <2>1
<1> QED BY <1>1, <1>2, <1>3, <1>4, <1>5, <1>6, <1>7, <1>8, <1>9, <1>10 DEF ReaderNext

LEMMA ReaderInitInv == ReaderInit => ReaderInv
<1> SUFFICES ASSUME ReaderInit PROVE ReaderInv
  OBVIOUS
<1>1. CepInit /\ CepTypeOK
  BY CepInitType DEF ReaderInit
<1>2. ReaderTypeOK
  BY ReaderAssumption DEF ReaderInit, ReaderTypeOK
<1>3. Events = {} /\ Reads = {}
  <2>1. /\ DOMAIN gpio_queue = {} /\ DOMAIN mcp_queue = {} /\ DOMAIN pending_gpio_events = {}
        /\ DOMAIN nfc_queue = {} /\ DOMAIN pending_nfc_events = {}
    BY <1>1 DEF CepInit
  <2> QED BY <2>1 DEF Events, Reads, Range
<1>4. ASSUME NEW s \in Station PROVE StampsOK(Stamps(s), at_reader[s], empty_since[s], tag[s])
  <2>1. Stamps(s) = {}
    BY <1>3 DEF Stamps
  <2>2. tag[s] = NoPart
    BY DEF ReaderInit
  <2> QED BY <2>1, <2>2, NoStampsOK
<1> QED BY <1>1, <1>2, <1>4 DEF ReaderInv

LEMMA ReaderInvStep ==
  ASSUME MinGap # 0, ReaderInv, [ReaderNext]_readerVars
  PROVE  ReaderInv'
<1>1. CepTypeOK /\ ReaderTypeOK
  BY DEF ReaderInv
<1>2. CepTypeOK'
  BY <1>1, ReaderStepIsCepStep, CepTypeStep
<1>3. ReaderTypeOK'
  BY <1>1, ReaderTypeStep
<1>4. \A s \in Station : StampsOK(Stamps(s), at_reader[s], empty_since[s], tag[s])'
  BY StampsStep
<1> QED BY <1>2, <1>3, <1>4 DEF ReaderInv

-----------------------------------------------------------------------------
(* Theorems.                                                               *)

\* The reader threads, the parts and the CEP thread together behave as the
\* consumer with arbitrary producers does, so that what CepProofs says of it
\* holds behind the real readers (NFCReaderThread.run puts into the queue, and
\* only CEPConsumer.run takes out of it).
THEOREM ReadersRefineCep == ReaderSpec => CepSpec
<1>1. ReaderInit => CepInit
  BY DEF ReaderInit
<1> QED BY <1>1, ReaderStepIsCepStep, PTL DEF ReaderSpec, CepSpec

\* Two stamps of different parts at one entrance are always MinGap apart.
THEOREM StampsStayApart ==
  ASSUME MinGap # 0
  PROVE  ReaderSpec => []ReaderInv
BY ReaderInitInv, ReaderInvStep, PTL DEF ReaderSpec

\* The pass of _fuse_events gives every entry the tag of the part that caused
\* it, provided that parts follow each other at an entrance by more than the
\* fusion window: reads left over from the part before never match.
THEOREM EntriesGetOwnTag ==
  ASSUME FuseWindow < MinGap
  PROVE  ReaderSpec => FusedWithOwnTag
<1>0. MinGap # 0 /\ FuseWindow \in Nat /\ MinGap \in Nat
  BY CepBounds, ReaderAssumption
<1>1. ASSUME ReaderInv, FuseEvents, NEW i \in DOMAIN nfc_to_remove'
      PROVE  event_part[pending_gpio_events[i].id] = read_part[pending_nfc_events[nfc_to_remove'[i]].id]
  <2> DEFINE g == pending_gpio_events[i]
             j == Min(Matches(g))
             n == pending_nfc_events[j]
  <2>1. nfc_to_remove' = [k \in Indices(pending_gpio_events, Fusable) |-> Min(Matches(pending_gpio_events[k]))]
    BY <1>1 DEF FuseEvents
  <2>2. i \in DOMAIN pending_gpio_events /\ Fusable(g) /\ nfc_to_remove'[i] = j
    BY <1>1, <2>1 DEF Indices
  <2>3. j \in Matches(g) /\ j \in DOMAIN pending_nfc_events
    BY <1>1, <2>2, FirstMatch DEF ReaderInv
  <2>4. EventsMatch(g, n) /\ IsEntryBarrier(g.barrier)
    BY <2>2, <2>3 DEF Matches, Fusable
  <2>5. g \in Events /\ n \in Reads
    BY <2>2, <2>3 DEF Events, Reads, Range
  <2> HIDE DEF g, j, n
  <2>6. /\ n.station \in Station /\ n.age \in Nat /\ g.age \in Nat
    <3>1. g \in SensorEvent /\ n \in NfcEvent
      BY <1>1, <2>5, UnderWayTypes DEF ReaderInv
    <3> QED BY <3>1, CepBounds DEF SensorEvent, NfcEvent
  <2> DEFINE x == [age |-> g.age, part |-> event_part[g.id]]
             y == [age |-> n.age, part |-> read_part[n.id]]
  <2>7. x \in Stamps(n.station) /\ y \in Stamps(n.station)
    <3>1. AtEntry(g, n.station)
      BY <2>4 DEF EventsMatch, AtEntry
    <3> QED BY <2>5, <3>1 DEF Stamps
  <2>8. x.part # y.part => x.age - y.age >= MinGap \/ y.age - x.age >= MinGap
    <3>1. Apart(Stamps(n.station))
      BY <1>1, <2>6 DEF ReaderInv, StampsOK
    <3> HIDE DEF x, y
    <3> QED BY <2>7, <3>1 DEF Apart
  <2>9. g.age - n.age \in -FuseWindow..FuseWindow
    BY <2>4 DEF EventsMatch
  <2>10. event_part[g.id] = read_part[n.id]
    BY <1>0, <2>6, <2>8, <2>9
  <2> QED BY <2>2, <2>10 DEF g, n
<1>2. ASSUME [ReaderNext]_readerVars, cep_pc = "fuse", cep_pc' # "fuse" PROVE FuseEvents
  <2>1. [CepNext]_cepVars
    BY <1>2, ReaderStepIsCepStep
  <2> QED BY <1>2, <2>1 DEF CepNext, CepThread, PutGpioEvent, PutMcpEvent, PutRead, Stop, Tick, LoopTop,
             ConsumeGpio, ConsumeMcp, ConsumeNfc, ExpireGpio, ExpireReads, DelGpio, GpioDeleted, DelNfc,
             NfcDeleted, cepVars
<1>3. ReaderInv /\ [ReaderNext]_readerVars =>
        [cep_pc = "fuse" /\ cep_pc' # "fuse" =>
           \A i \in DOMAIN nfc_to_remove' :
             event_part[pending_gpio_events[i].id]
               = read_part[pending_nfc_events[nfc_to_remove'[i]].id]]_readerVars
  BY <1>1, <1>2
<1>4. ReaderSpec => []ReaderInv
  BY <1>0, StampsStayApart
<1> QED BY <1>3, <1>4, PTL DEF ReaderSpec, FusedWithOwnTag
=============================================================================
