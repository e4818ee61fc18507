---------------------------- MODULE LoggerProofs ----------------------------
(***************************************************************************)
(* Theorems about the data logger and the stations that call it, for every *)
(* set of parts, every number of visits and every length of the lists of   *)
(* cycle times, with rows that may fail.                                   *)
(*                                                                         *)
(* What the logger holds is determined by the rows it was given; the       *)
(* stations agree with their rows (StationConsistent).  So the invariant   *)
(* speaks of the logger and the last row of each station only.             *)
(***************************************************************************)
EXTENDS LoggedStations, StationProofs, SequenceTheorems, FiniteSetTheorems

USE DEF Station

\* By its log, a part is in the station.
Busy(s) == last_row[s].activity # "EXIT"

BusyCount == (IF Busy(1) THEN 1 ELSE 0) + (IF Busy(2) THEN 1 ELSE 0)

\* A busy station has been so since its part entered it; nothing else has an
\* entry time.
EntryTimes(s) ==
  /\ IF Busy(s) THEN busy_since[s] \in 0..runtime ELSE busy_since[s] = NoTime
  /\ \A p \in PartId : station_entry_times[<<p, s>>] =
       IF Busy(s) /\ p = last_row[s].part THEN busy_since[s] ELSE NoTime

\* Running totals never fall.
RisingSums(list) ==
  {f \in RunningSums(list) : \A i, j \in 0..Len(list) : i <= j => f[i] <= f[j]}

\* The cycle times of a station against its counter and its busy time.
CycleTimes(s) ==
  /\ Len(cycle_times[s]) = IF station_count[s] < MaxCycleTimes THEN station_count[s]
                                                               ELSE MaxCycleTimes
  /\ \E f \in RisingSums(cycle_times[s]) :
       /\ f[Len(cycle_times[s])] <= total_busy_time[s]
       /\ station_count[s] <= MaxCycleTimes => f[Len(cycle_times[s])] = total_busy_time[s]
  /\ BusyTime(s) <= runtime

LoggerInv ==
  /\ LoggerTypeOK
  /\ current_wip = BusyCount + station_count[1]
  /\ \A s \in Station : EntryTimes(s) /\ CycleTimes(s)

LoggedInv ==
  /\ StationInv
  /\ next_station \in [Part -> Station]
  /\ LoggerInv

-----------------------------------------------------------------------------
(* The list of cycle times.                                                *)

\* The bounds are positive numbers, and NoTime is not a time.
LEMMA LoggerBounds ==
  /\ MaxCycleTimes \in Nat /\ MaxCycleTimes > 0
  /\ MaxRuntime \in Nat
  /\ Time \subseteq Nat /\ NoTime \notin Nat /\ NoTime \in Int
BY LoggerAssumption DEF Time, NoTime

\* Appending a time extends the running sums by one.
LEMMA SumsOfAppend ==
  ASSUME NEW list \in Seq(Time), NEW t \in Time, NEW f \in RisingSums(list),
         f[Len(list)] + t \in Time
  PROVE  \E g \in RisingSums(Append(list, t)) : g[Len(list) + 1] = f[Len(list)] + t
<1> DEFINE n == Len(list)
           longer == Append(list, t)
           g == [i \in 0..(n + 1) |-> IF i <= n THEN f[i] ELSE f[n] + t]
<1>1. /\ n \in Nat /\ DOMAIN list = 1..n
      /\ Len(longer) = n + 1 /\ DOMAIN longer = 1..(n + 1)
      /\ \A i \in 1..n : longer[i] = list[i]
      /\ longer[n + 1] = t
  BY AppendProperties, LenProperties
<1>2. /\ f \in [0..n -> Time] /\ f[0] = 0
      /\ \A i \in 1..n : f[i] = f[i - 1] + list[i]
      /\ \A i, j \in 0..n : i <= j => f[i] <= f[j]
  BY <1>1 DEF RisingSums, RunningSums
<1>3. t \in Nat /\ \A i \in 0..n : f[i] \in Nat
  BY <1>2, LoggerBounds
<1> HIDE DEF n, longer
<1>4. g \in [0..(n + 1) -> Time] /\ g[0] = 0 /\ g[n + 1] = f[n] + t
  <2>1. f[n] + t \in Time
    BY DEF n
  <2> QED BY <1>1, <1>2, <2>1
<1>5. ASSUME NEW i \in 1..(n + 1) PROVE g[i] = g[i - 1] + longer[i]
  <2>1. CASE i = n + 1
    BY <1>1, <2>1
  <2>2. CASE i # n + 1
    <3>1. i \in 1..n /\ g[i] = f[i] /\ g[i - 1] = f[i - 1] /\ longer[i] = list[i]
      BY <1>1, <2>2
    <3> QED BY <1>2, <3>1
  <2> QED BY <2>1, <2>2
<1>6. ASSUME NEW i \in 0..(n + 1), NEW j \in 0..(n + 1), i <= j PROVE g[i] <= g[j]
  <2>1. CASE j <= n
    BY <1>1, <1>2, <1>6, <2>1
  <2>2. CASE j = n + 1 /\ i = n + 1
    BY <1>1, <1>3, <2>2
  <2>3. CASE j = n + 1 /\ i <= n
    <3>1. i \in 0..n /\ n \in 0..n /\ g[i] = f[i] /\ g[j] = f[n] + t
      BY <1>1, <2>3
    <3>2. f[i] <= f[n]
      BY <1>1, <1>2, <3>1
    <3> QED BY <1>3, <3>1, <3>2
  <2> QED BY <1>1, <1>6, <2>1, <2>2, <2>3
<1>7. g \in RunningSums(longer)
  BY <1>1, <1>4, <1>5 DEF RunningSums
<1>8. g \in RisingSums(longer)
  BY <1>1, <1>6, <1>7 DEF RisingSums
<1> QED BY <1>4, <1>8 DEF n, longer

\* Dropping the first time takes it off every running sum.
LEMMA SumsOfTail ==
  ASSUME NEW list \in Seq(Time), list # <<>>, NEW f \in RisingSums(list)
  PROVE  \E g \in RisingSums(Tail(list)) : g[Len(list) - 1] <= f[Len(list)]
<1> DEFINE m == Len(list) - 1
           rest == Tail(list)
           g == [i \in 0..m |-> f[i + 1] - list[1]]
<1>1. /\ m \in Nat /\ DOMAIN list = 1..(m + 1) /\ Len(list) = m + 1
      /\ Len(rest) = m /\ DOMAIN rest = 1..m
      /\ \A i \in 1..m : rest[i] = list[i + 1]
      /\ list[1] \in Time
  <2>1. /\ Len(list) \in Nat /\ Len(list) # 0 /\ DOMAIN list = 1..Len(list)
        /\ rest \in Seq(Time) /\ Len(rest) = m
        /\ \A i \in 1..Len(rest) : rest[i] = list[i + 1]
    BY HeadTailProperties, LenProperties, EmptySeq
  <2>2. DOMAIN rest = 1..Len(rest)
    BY <2>1, LenProperties
  <2>3. list[1] \in Time
    BY <2>1, ElementOfSeq
  <2> QED BY <2>1, <2>2, <2>3
<1>2. /\ f \in [0..(m + 1) -> Time] /\ f[0] = 0
      /\ \A i \in 1..(m + 1) : f[i] = f[i - 1] + list[i]
      /\ \A i, j \in 0..(m + 1) : i <= j => f[i] <= f[j]
  BY <1>1 DEF RisingSums, RunningSums
<1>3. list[1] \in Nat /\ \A i \in 0..(m + 1) : f[i] \in Nat /\ f[i] <= MaxRuntime
  <2>1. \A x \in Time : x \in Nat /\ x <= MaxRuntime
    BY LoggerBounds DEF Time
  <2>2. \A i \in 0..(m + 1) : f[i] \in Time
    BY <1>2
  <2> QED BY <1>1, <2>1, <2>2
<1> HIDE DEF m, rest
<1>4. f[1] = list[1]
  BY <1>1, <1>2, <1>3
<1>5. ASSUME NEW i \in 0..m PROVE /\ f[i + 1] - list[1] \in Time
                                  /\ f[i + 1] - list[1] <= f[i + 1]
  <2>1. i + 1 \in 0..(m + 1) /\ 1 \in 0..(m + 1) /\ 1 <= i + 1
    BY <1>1
  <2>2. f[1] <= f[i + 1]
    BY <1>2, <2>1
  <2> QED BY <1>3, <1>4, <2>1, <2>2, LoggerBounds DEF Time
<1>6. g \in [0..m -> Time] /\ g[0] = 0 /\ g[m] <= f[m + 1]
  BY <1>1, <1>3, <1>4, <1>5
<1>7. ASSUME NEW i \in 1..m PROVE g[i] = g[i - 1] + rest[i]
  <2>1. /\ g[i] = f[i + 1] - list[1] /\ g[i - 1] = f[i] - list[1]
        /\ rest[i] = list[i + 1]
    BY <1>1
  <2>2. i + 1 \in 1..(m + 1) /\ i \in 0..(m + 1) /\ (i + 1) - 1 = i
    BY <1>1
  <2>3. f[i + 1] = f[i] + list[i + 1]
    BY <1>2, <2>2
  <2>4. list[i + 1] \in Nat
    <3>1. list[i + 1] \in Time
      BY <1>1, <2>2, ElementOfSeq
    <3> QED BY <3>1, LoggerBounds
  <2> QED BY <1>3, <2>1, <2>2, <2>3, <2>4
<1>8. ASSUME NEW i \in 0..m, NEW j \in 0..m, i <= j PROVE g[i] <= g[j]
  <2>1. i + 1 \in 0..(m + 1) /\ j + 1 \in 0..(m + 1) /\ i + 1 <= j + 1
    BY <1>1, <1>8
  <2>2. f[i + 1] <= f[j + 1]
    BY <1>2, <2>1
  <2> QED BY <1>3, <2>1, <2>2
<1>9. g \in RunningSums(rest)
  BY <1>1, <1>6, <1>7 DEF RunningSums
<1>10. g \in RisingSums(rest)
  BY <1>1, <1>8, <1>9 DEF RisingSums
<1> QED BY <1>1, <1>6, <1>10 DEF rest

\* What Remember does to the length and the sum of the list.
LEMMA RememberEffect ==
  ASSUME NEW list \in Seq(Time), Len(list) <= MaxCycleTimes, NEW t \in Time,
         NEW f \in RisingSums(list), f[Len(list)] + t \in Time
  PROVE  LET r == Remember(list, t) IN
         /\ r \in Seq(Time)
         /\ Len(r) = IF Len(list) < MaxCycleTimes THEN Len(list) + 1 ELSE MaxCycleTimes
         /\ \E g \in RisingSums(r) :
              /\ g[Len(r)] <= f[Len(list)] + t
              /\ Len(list) < MaxCycleTimes => g[Len(r)] = f[Len(list)] + t
<1> DEFINE longer == Append(list, t)
           r == Remember(list, t)
<1>1. longer \in Seq(Time) /\ longer # <<>> /\ Len(longer) = Len(list) + 1
  BY AppendProperties
<1>2. PICK g \in RisingSums(longer) : g[Len(list) + 1] = f[Len(list)] + t
  BY SumsOfAppend
<1>3. Len(list) \in Nat /\ f[Len(list)] + t \in Nat
  BY LenProperties, LoggerBounds
<1>4. CASE Len(list) < MaxCycleTimes
  <2>1. r = longer
    BY <1>1, <1>3, <1>4, LoggerBounds DEF Remember
  <2> HIDE DEF longer, r
  <2> QED BY <1>1, <1>2, <1>3, <1>4, <2>1 DEF r
<1>5. CASE ~(Len(list) < MaxCycleTimes)
  <2>1. r = Tail(longer) /\ Len(list) = MaxCycleTimes
    BY <1>1, <1>3, <1>5, LoggerBounds DEF Remember
  <2> HIDE DEF longer, r
  <2>2. r \in Seq(Time) /\ Len(r) = Len(longer) - 1
    BY <1>1, <2>1, HeadTailProperties
  <2>3. Len(r) = MaxCycleTimes
    BY <1>1, <1>3, <2>1, <2>2
  <2>4. PICK h \in RisingSums(r) : h[Len(longer) - 1] <= g[Len(longer)]
    BY <1>1, <1>2, <2>1, SumsOfTail
  <2>5. h[Len(r)] <= f[Len(list)] + t
    BY <1>1, <1>2, <2>2, <2>4
  <2> QED BY <1>5, <2>2, <2>3, <2>5 DEF r
<1> QED BY <1>4, <1>5

-----------------------------------------------------------------------------
(* The rows.                                                               *)

\* The types of the logger, one fact each.
LEMMA LoggerTypes ==
  ASSUME LoggerTypeOK
  PROVE  /\ runtime \in Nat /\ total_parts \in Nat
         /\ station_count \in [Station -> Nat]
         /\ station_entry_times \in [PartId \X Station -> Time \cup {NoTime}]
         /\ current_wip \in Nat /\ max_wip \in Nat
         /\ busy_since \in [Station -> Time \cup {NoTime}]
         /\ total_busy_time \in [Station -> Nat]
BY LoggerBounds DEF LoggerTypeOK

\* A row that the logger does not count, and time that passes, keep its books.
LEMMA QuietStepInv ==
  ASSUME LoggerInv, UNCHANGED loggerVars,
         \A r \in Station : /\ Busy(r)' <=> Busy(r)
                            /\ last_row'[r].part = last_row[r].part,
         \/ UNCHANGED runtime
         \/ runtime < MaxRuntime /\ runtime' = runtime + 1
  PROVE  LoggerInv'
<1>1. runtime \in Nat /\ runtime' \in Nat /\ runtime <= runtime' /\ runtime' <= runtime + 1
  BY LoggerTypes DEF LoggerInv
<1>2. LoggerTypeOK'
  <2>1. runtime' \in Time
    BY LoggerBounds DEF LoggerInv, LoggerTypeOK, Time
  <2> QED BY <2>1 DEF LoggerInv, LoggerTypeOK, loggerVars
<1>3. (current_wip = BusyCount + station_count[1])'
  BY DEF LoggerInv, BusyCount, loggerVars
<1>4. ASSUME NEW r \in Station PROVE EntryTimes(r)'
  <2>1. CASE Busy(r)
    BY <1>1, <2>1 DEF LoggerInv, EntryTimes, loggerVars
  <2>2. CASE ~Busy(r)
    BY <2>2 DEF LoggerInv, EntryTimes, loggerVars
  <2> QED BY <2>1, <2>2
<1>5. ASSUME NEW r \in Station PROVE CycleTimes(r)'
  <2>1. BusyTime(r)' <= runtime'
    <3>1. total_busy_time[r] \in Nat /\ BusyTime(r) <= runtime
      BY LoggerTypes DEF LoggerInv, CycleTimes
    <3>2. busy_since[r] = NoTime \/ busy_since[r] \in 0..runtime
      BY DEF LoggerInv, EntryTimes
    <3> QED BY <1>1, <3>1, <3>2, LoggerBounds DEF BusyTime, loggerVars
  <2>2. cycle_times' = cycle_times /\ station_count' = station_count /\ total_busy_time' = total_busy_time
    BY DEF loggerVars
  <2>3. CycleTimes(r)
    BY DEF LoggerInv
  <2> QED BY <2>1, <2>2, <2>3 DEF CycleTimes
<1> QED BY <1>2, <1>3, <1>4, <1>5 DEF LoggerInv

\* The row of station s becomes <<act, p>>, the others stay.
RowBecomes(s, act, p) ==
  /\ last_row'[s] = [activity |-> act, part |-> p]
  /\ \A r \in Station : r # s => last_row'[r] = last_row[r]

\* An ENTER row opens the entry time and the busy time of an idle station.
LEMMA EnteredInv ==
  ASSUME LoggerInv, NEW s \in Station, NEW p \in PartId, ~Busy(s),
         RowBecomes(s, "ENTER", p), StationEntered(s, p), UNCHANGED runtime
  PROVE  LoggerInv'
<1>1. /\ Busy(s)' /\ last_row'[s].part = p
      /\ \A r \in Station : r # s => (Busy(r)' <=> Busy(r)) /\ last_row'[r] = last_row[r]
  BY DEF RowBecomes, Busy
<1>2. /\ busy_since' = [busy_since EXCEPT ![s] = runtime]
      /\ UNCHANGED <<total_parts, station_count, cycle_times, total_busy_time>>
      /\ station_entry_times' = [station_entry_times EXCEPT ![<<p, s>>] = runtime]
      /\ current_wip' = current_wip + 1
  <2>1. busy_since \in [Station -> Time \cup {NoTime}] /\ busy_since[s] = NoTime
    BY LoggerTypes DEF LoggerInv, EntryTimes
  <2> QED BY <2>1 DEF StationEntered, BeginBusy
<1>3. LoggerTypeOK'
  <2>1. runtime \in Time /\ current_wip' \in Nat /\ max_wip' \in Nat
    BY <1>2, LoggerTypes DEF LoggerInv, LoggerTypeOK, StationEntered
  <2>2. busy_since' \in [Station -> Time \cup {NoTime}]
    BY <1>2, <2>1, LoggerTypes DEF LoggerInv
  <2>3. station_entry_times' \in [PartId \X Station -> Time \cup {NoTime}]
    BY <1>2, <2>1, LoggerTypes DEF LoggerInv
  <2> QED BY <1>2, <2>1, <2>2, <2>3 DEF LoggerInv, LoggerTypeOK
<1>4. (current_wip = BusyCount + station_count[1])'
  <2>1. current_wip = BusyCount + station_count[1] /\ station_count[1] \in Nat
    BY LoggerTypes DEF LoggerInv
  <2>2. BusyCount' = BusyCount + 1 /\ BusyCount \in Nat
    <3>1. CASE s = 1
      BY <1>1, <3>1 DEF BusyCount
    <3>2. CASE s = 2
      BY <1>1, <3>2 DEF BusyCount
    <3> QED BY <3>1, <3>2
  <2> QED BY <1>2, <2>1, <2>2
<1>5. ASSUME NEW r \in Station PROVE EntryTimes(r)'
  <2>0. /\ busy_since \in [Station -> Time \cup {NoTime}] /\ runtime \in Nat
        /\ station_entry_times \in [PartId \X Station -> Time \cup {NoTime}]
        /\ EntryTimes(r)
    BY LoggerTypes DEF LoggerInv
  <2>1. CASE r = s
    <3>1. busy_since'[r] = runtime /\ runtime \in 0..runtime
      BY <1>2, <2>0, <2>1
    <3>2. ASSUME NEW q \in PartId
          PROVE  station_entry_times'[<<q, r>>] = IF q = p THEN runtime ELSE NoTime
      <4>1. station_entry_times[<<q, r>>] = NoTime
        BY <2>0, <2>1 DEF EntryTimes
      <4>2. <<q, r>> \in PartId \X Station /\ (<<q, r>> = <<p, s>> <=> q = p)
        BY <2>1
      <4> QED BY <1>2, <2>0, <4>1, <4>2
    <3> QED BY <1>1, <2>1, <3>1, <3>2 DEF EntryTimes
  <2>2. CASE r # s
    <3>1. busy_since'[r] = busy_since[r]
      BY <1>2, <2>0, <2>2
    <3>2. \A q \in PartId : station_entry_times'[<<q, r>>] = station_entry_times[<<q, r>>]
      BY <1>2, <2>0, <2>2
    <3> QED BY <1>1, <2>0, <2>2, <3>1, <3>2 DEF EntryTimes
  <2> QED BY <2>1, <2>2
<1>6. ASSUME NEW r \in Station PROVE CycleTimes(r)'
  <2>1. CycleTimes(r) /\ busy_since \in [Station -> Time \cup {NoTime}] /\ runtime \in Nat
        /\ total_busy_time[r] \in Nat
    BY LoggerTypes DEF LoggerInv
  <2>2. BusyTime(r)' = BusyTime(r)
    <3>1. CASE r = s
      <4>1. busy_since[r] = NoTime /\ busy_since'[r] = runtime
        BY <1>2, <2>1, <3>1 DEF LoggerInv, EntryTimes
      <4> QED BY <1>2, <2>1, <4>1, LoggerBounds DEF BusyTime
    <3>2. CASE r # s
      BY <1>2, <2>1, <3>2 DEF BusyTime
    <3> QED BY <3>1, <3>2
  <2> QED BY <1>2, <2>1, <2>2 DEF CycleTimes
<1> QED BY <1>3, <1>4, <1>5, <1>6 DEF LoggerInv

\* An EXIT row closes both, and they were open equally long.
LEMMA LeftInv ==
  ASSUME LoggerInv, NEW s \in Station, NEW p \in PartId, Busy(s), last_row[s].part = p,
         RowBecomes(s, "EXIT", p), StationLeft(s, p), UNCHANGED runtime
  PROVE  LoggerInv'
<1> DEFINE t == runtime - busy_since[s]
<1>1. /\ ~Busy(s)'
      /\ \A r \in Station : r # s => (Busy(r)' <=> Busy(r)) /\ last_row'[r] = last_row[r]
  BY DEF RowBecomes, Busy
<1>2. /\ runtime \in Time /\ busy_since[s] \in Nat /\ busy_since[s] <= runtime
      /\ busy_since[s] # NoTime /\ station_entry_times[<<p, s>>] = busy_since[s]
  BY LoggerTypes, LoggerBounds DEF LoggerInv, LoggerTypeOK, EntryTimes
<1>3. t \in Time
  BY <1>2, LoggerBounds DEF Time
<1>4. /\ total_parts' = total_parts + 1
      /\ station_count' = [station_count EXCEPT ![s] = @ + 1]
      /\ cycle_times' = [cycle_times EXCEPT ![s] = Remember(@, t)]
      /\ station_entry_times' = [station_entry_times EXCEPT ![<<p, s>>] = NoTime]
      /\ total_busy_time' = [total_busy_time EXCEPT ![s] = @ + t]
      /\ busy_since' = [busy_since EXCEPT ![s] = NoTime]
      /\ UNCHANGED max_wip
      /\ current_wip' = IF s = 2 /\ current_wip > 0 THEN current_wip - 1 ELSE current_wip
  BY <1>2 DEF StationLeft, EndBusy
<1>5. /\ runtime \in Nat /\ t \in Nat /\ total_parts \in Nat
      /\ station_count \in [Station -> Nat]
      /\ station_entry_times \in [PartId \X Station -> Time \cup {NoTime}]
      /\ current_wip \in Nat /\ max_wip \in Nat
      /\ busy_since \in [Station -> Time \cup {NoTime}]
      /\ total_busy_time \in [Station -> Nat]
      /\ cycle_times \in [Station -> Seq(Time)]
      /\ \A r \in Station : Len(cycle_times[r]) <= MaxCycleTimes
  BY <1>3, LoggerTypes, LoggerBounds DEF LoggerInv, LoggerTypeOK
<1>6. total_busy_time[s] + t <= runtime
  BY <1>2, <1>5 DEF LoggerInv, CycleTimes, BusyTime
<1> HIDE DEF t
<1>7. /\ Len(cycle_times[s]) = IF station_count[s] < MaxCycleTimes THEN station_count[s]
                                                                   ELSE MaxCycleTimes
      /\ \E f \in RisingSums(cycle_times[s]) :
           /\ f[Len(cycle_times[s])] <= total_busy_time[s]
           /\ station_count[s] <= MaxCycleTimes => f[Len(cycle_times[s])] = total_busy_time[s]
  BY DEF LoggerInv, CycleTimes
<1>8. PICK f \in RisingSums(cycle_times[s]) :
           /\ f[Len(cycle_times[s])] <= total_busy_time[s]
           /\ station_count[s] <= MaxCycleTimes => f[Len(cycle_times[s])] = total_busy_time[s]
  BY <1>7
<1>9. f[Len(cycle_times[s])] \in Nat /\ f[Len(cycle_times[s])] + t \in Time
  <2>1. f \in [0..Len(cycle_times[s]) -> Time] /\ Len(cycle_times[s]) \in 0..Len(cycle_times[s])
    BY <1>5, LenProperties DEF RisingSums, RunningSums
  <2>2. f[Len(cycle_times[s])] \in Nat
    BY <2>1, LoggerBounds
  <2>3. f[Len(cycle_times[s])] <= total_busy_time[s] /\ total_busy_time[s] \in Nat
    BY <1>5, <1>8
  <2>4. runtime \in Nat /\ runtime <= MaxRuntime /\ t \in Nat
    BY <1>2, <1>5, LoggerBounds DEF Time
  <2> QED BY <1>6, <2>2, <2>3, <2>4, LoggerBounds DEF Time
<1>10. LET r == Remember(cycle_times[s], t) IN
       /\ r \in Seq(Time)
       /\ Len(r) = IF Len(cycle_times[s]) < MaxCycleTimes THEN Len(cycle_times[s]) + 1
                                                          ELSE MaxCycleTimes
       /\ \E g \in RisingSums(r) :
            /\ g[Len(r)] <= f[Len(cycle_times[s])] + t
            /\ Len(cycle_times[s]) < MaxCycleTimes => g[Len(r)] = f[Len(cycle_times[s])] + t
  BY <1>3, <1>5, <1>9, RememberEffect
<1>11. cycle_times'[s] = Remember(cycle_times[s], t) /\ \A r \in Station : r # s => cycle_times'[r] = cycle_times[r]
  BY <1>4, <1>5
<1>12. LoggerTypeOK'
  <2>1. current_wip' \in Nat /\ total_parts' \in Nat
    BY <1>4, <1>5
  <2>2. station_count' \in [Station -> Nat] /\ total_busy_time' \in [Station -> Nat]
    BY <1>4, <1>5
  <2>3. busy_since' \in [Station -> Time \cup {NoTime}]
    BY <1>4, <1>5
  <2>4. station_entry_times' \in [PartId \X Station -> Time \cup {NoTime}]
    BY <1>4, <1>5
  <2>5. cycle_times' \in [Station -> Seq(Time)]
    BY <1>4, <1>5, <1>10
  <2>6. \A r \in Station : Len(cycle_times'[r]) <= MaxCycleTimes
    <3>1. Len(cycle_times[s]) \in Nat
      BY <1>5, LenProperties
    <3>2. Len(cycle_times'[s]) <= MaxCycleTimes
      BY <1>10, <1>11, <3>1, LoggerBounds
    <3> QED BY <1>5, <1>11, <3>2
  <2> QED BY <1>2, <1>4, <1>5, <2>1, <2>2, <2>3, <2>4, <2>5, <2>6 DEF LoggerTypeOK
<1>13. (current_wip = BusyCount + station_count[1])'
  <2>1. current_wip = BusyCount + station_count[1] /\ station_count[1] \in Nat
    BY <1>5 DEF LoggerInv
  <2>2. BusyCount' = BusyCount - 1 /\ BusyCount \in Nat /\ BusyCount > 0
    <3>1. CASE s = 1
      BY <1>1, <3>1 DEF BusyCount
    <3>2. CASE s = 2
      BY <1>1, <3>2 DEF BusyCount
    <3> QED BY <3>1, <3>2
  <2>3. CASE s = 1
    BY <1>4, <1>5, <2>1, <2>2, <2>3
  <2>4. CASE s = 2
    <3>1. station_count'[1] = station_count[1] /\ current_wip' = current_wip - 1
      BY <1>4, <1>5, <2>1, <2>2, <2>4
    <3> QED BY <2>1, <2>2, <3>1
  <2> QED BY <2>3, <2>4
<1>14. ASSUME NEW r \in Station PROVE EntryTimes(r)'
  <2>0. EntryTimes(r)
    BY DEF LoggerInv
  <2>1. CASE r = s
    <3>1. busy_since'[r] = NoTime
      BY <1>4, <1>5, <2>1
    <3>2. ASSUME NEW q \in PartId PROVE station_entry_times'[<<q, r>>] = NoTime
      <4>1. <<q, r>> \in PartId \X Station /\ (<<q, r>> = <<p, s>> <=> q = p)
        BY <2>1
      <4>2. q # p => station_entry_times[<<q, r>>] = NoTime
        BY <2>0, <2>1 DEF EntryTimes
      <4> QED BY <1>4, <1>5, <4>1, <4>2
    <3> QED BY <1>1, <2>1, <3>1, <3>2 DEF EntryTimes
  <2>2. CASE r # s
    <3>1. busy_since'[r] = busy_since[r]
      BY <1>4, <1>5, <2>2
    <3>2. \A q \in PartId : station_entry_times'[<<q, r>>] = station_entry_times[<<q, r>>]
      BY <1>4, <1>5, <2>2
    <3> QED BY <1>1, <2>0, <2>2, <3>1, <3>2 DEF EntryTimes
  <2> QED BY <2>1, <2>2
<1>15. ASSUME NEW r \in Station PROVE CycleTimes(r)'
  <2>1. CASE r = s
    <3>1. /\ station_count'[r] = station_count[s] + 1 /\ total_busy_time'[r] = total_busy_time[s] + t
          /\ busy_since'[r] = NoTime
      BY <1>4, <1>5, <2>1
    <3>2. BusyTime(r)' <= runtime'
      BY <1>5, <1>6, <3>1 DEF BusyTime
    <3>3. Len(cycle_times[s]) \in Nat /\ station_count[s] \in Nat /\ total_busy_time[s] \in Nat
      BY <1>5, LenProperties
    <3>4. Len(cycle_times'[r]) = IF station_count'[r] < MaxCycleTimes THEN station_count'[r]
                                                                     ELSE MaxCycleTimes
      BY <1>7, <1>10, <1>11, <2>1, <3>1, <3>3, LoggerBounds
    <3>5. PICK g \in RisingSums(cycle_times'[r]) :
            /\ g[Len(cycle_times'[r])] <= f[Len(cycle_times[s])] + t
            /\ Len(cycle_times[s]) < MaxCycleTimes =>
                 g[Len(cycle_times'[r])] = f[Len(cycle_times[s])] + t
      BY <1>10, <1>11, <2>1
    <3>6. g[Len(cycle_times'[r])] \in Nat
      <4>1. cycle_times'[r] \in Seq(Time)
        BY <1>10, <1>11, <2>1
      <4>2. g \in [0..Len(cycle_times'[r]) -> Time] /\ Len(cycle_times'[r]) \in 0..Len(cycle_times'[r])
        BY <4>1, LenProperties DEF RisingSums, RunningSums
      <4> QED BY <4>2, LoggerBounds
    <3>7. /\ g[Len(cycle_times'[r])] <= total_busy_time'[r]
          /\ station_count'[r] <= MaxCycleTimes => g[Len(cycle_times'[r])] = total_busy_time'[r]
      <4>1. t \in Nat
        BY <1>5
      <4>2. g[Len(cycle_times'[r])] <= total_busy_time'[r]
        <5>1. f[Len(cycle_times[s])] <= total_busy_time[s] /\ f[Len(cycle_times[s])] \in Nat
          BY <1>8, <1>9
        <5>2. g[Len(cycle_times'[r])] <= f[Len(cycle_times[s])] + t
          BY <3>5
        <5> QED BY <3>1, <3>3, <3>6, <4>1, <5>1, <5>2
      <4>3. ASSUME station_count'[r] <= MaxCycleTimes
            PROVE  g[Len(cycle_times'[r])] = total_busy_time'[r]
        <5>1. station_count[s] < MaxCycleTimes /\ station_count[s] <= MaxCycleTimes
          BY <3>1, <3>3, <4>3, LoggerBounds
        <5>2. Len(cycle_times[s]) < MaxCycleTimes
          BY <1>7, <5>1
        <5> QED BY <1>8, <3>1, <3>5, <5>1, <5>2
      <4> QED BY <4>2, <4>3
    <3> QED BY <3>2, <3>4, <3>5, <3>7 DEF CycleTimes
  <2>2. CASE r # s
    <3>1. /\ station_count'[r] = station_count[r] /\ total_busy_time'[r] = total_busy_time[r]
          /\ busy_since'[r] = busy_since[r] /\ cycle_times'[r] = cycle_times[r]
      BY <1>4, <1>5, <1>11, <2>2
    <3>2. CycleTimes(r)
      BY DEF LoggerInv
    <3> QED BY <3>1, <3>2 DEF CycleTimes, BusyTime
  <2> QED BY <2>1, <2>2
<1> QED BY <1>12, <1>13, <1>14, <1>15 DEF LoggerInv

-----------------------------------------------------------------------------
(* The stations with their logger.                                         *)

\* The constructors establish the invariant.
LEMMA LoggedInitInv == LoggedInit => LoggedInv
<1> SUFFICES ASSUME LoggedInit PROVE LoggedInv
  OBVIOUS
<1>1. StationInv /\ next_station \in [Part -> Station]
  BY StationInitInv DEF LoggedInit
<1>2. \A s \in Station : ~Busy(s)
  BY DEF LoggedInit, StationInit, Busy
<1>3. LoggerTypeOK
  BY LoggerBounds DEF LoggedInit, LoggerInit, LoggerTypeOK, Time
<1>4. current_wip = BusyCount + station_count[1]
  BY <1>2 DEF LoggedInit, LoggerInit, BusyCount
<1>5. ASSUME NEW s \in Station PROVE EntryTimes(s) /\ CycleTimes(s)
  <2>1. EntryTimes(s)
    BY <1>2 DEF LoggedInit, LoggerInit, EntryTimes
  <2>2. /\ cycle_times[s] = <<>> /\ Len(cycle_times[s]) = 0 /\ station_count[s] = 0
        /\ total_busy_time[s] = 0 /\ busy_since[s] = NoTime /\ runtime = 0
    BY DEF LoggedInit, LoggerInit
  <2>3. [i \in 0..0 |-> 0] \in RisingSums(<<>>)
    BY LoggerBounds DEF RisingSums, RunningSums, Time
  <2> QED BY <2>1, <2>2, <2>3, LoggerBounds DEF CycleTimes, BusyTime
<1> QED BY <1>1, <1>3, <1>4, <1>5 DEF LoggedInv, LoggerInv

\* A step of the line is a step of one station with the call of log_event
\* that belongs to it, or time that passes.
LEMMA LoggedStepCases ==
  ASSUME next_station \in [Part -> Station], LoggedNext
  PROVE  \/ UNCHANGED <<stationVars, next_station>> /\ ClockAdvances
         \/ /\ next_station' \in [Part -> Station]
            /\ UNCHANGED runtime /\ RowLogged
            /\ StationNext /\ \E s \in Station : StationStep(s)
<1>1. ASSUME NEW p \in Part, PartReported(p)
      PROVE  /\ next_station' \in [Part -> Station]
             /\ UNCHANGED runtime /\ RowLogged /\ StationNext
  <2>1. /\ next_station[p] \in Station /\ 3 - next_station[p] \in Station
        /\ HandleIdle(next_station[p], <<"ENTRY", next_station[p]>>, p)
    BY <1>1 DEF PartReported
  <2>2. next_station' \in [Part -> Station]
    BY <1>1, <2>1 DEF PartReported
  <2> QED BY <1>1, <2>1, <2>2 DEF PartReported, StationNext, SensorEvent, ProcessEvent
<1>2. ASSUME NEW s \in Station, StationMoves(s)
      PROVE  /\ next_station' \in [Part -> Station]
             /\ UNCHANGED runtime /\ RowLogged /\ StationNext
  BY <1>2 DEF StationMoves, StationNext, SensorEvent, ProcessEvent, TimerStep
<1> QED BY <1>1, <1>2, NextIsStationStep DEF LoggedNext, TimePasses

\* A step of one station writes no row of another.
LEMMA OneRow ==
  ASSUME StationTypeOK, NEW s \in Station, StationStep(s)
  PROVE  \A r \in Station : r # s => last_row'[r] = last_row[r]
<1>1. \A act, p : LogRow(s, act, p) => \A r \in Station : r # s => last_row'[r] = last_row[r]
  BY DEF LogRow, StationTypeOK
<1> QED BY <1>1 DEF StationStep, ProcessEvent, HandleIdle, HandleEntering, HandleAdvancingToExit,
                    TimerStep, ProcessingEnds, ProcessingComplete, ExitEnds, ExitComplete

\* A row that differs from the one before it continues the log: it is the
\* ENTER of an idle station or goes on with the part that is there.
LEMMA NewRow ==
  ASSUME StationInv, NEW s \in Station, StationStep(s), last_row'[s] # last_row[s]
  PROVE  /\ RowBecomes(s, last_row'[s].activity, last_row'[s].part)
         /\ last_row'[s].part \in PartId
         /\ \/ last_row'[s].activity = "ENTER" /\ ~Busy(s)
            \/ last_row'[s].activity = "EXIT" /\ Busy(s) /\ last_row[s].part = last_row'[s].part
            \/ /\ last_row'[s].activity \notin {"ENTER", "EXIT"}
               /\ Busy(s) /\ last_row[s].part = last_row'[s].part
<1>1. StationInv' /\ StationTypeOK' /\ StationConsistent' /\ StationTypeOK /\ StationConsistent
  BY StationStepInv DEF StationInv
<1>2. /\ <<last_row[s].activity, last_row'[s].activity>> \in Follows
      /\ last_row'[s].activity # "ENTER" => last_row'[s].part = last_row[s].part
  BY StationStepInv
<1>3. /\ Busy(s) => last_row[s].part \in Part
      /\ Busy(s)' => last_row'[s].part \in Part
  BY <1>1 DEF StationConsistent, Busy
<1>4. RowBecomes(s, last_row'[s].activity, last_row'[s].part)
  <2>1. last_row'[s] \in Row \cup {[activity |-> "EXIT", part |-> NoPart]}
    BY <1>1 DEF StationTypeOK
  <2>2. last_row'[s] = [activity |-> last_row'[s].activity, part |-> last_row'[s].part]
    BY <2>1 DEF Row
  <2> QED BY <1>1, <2>2, OneRow DEF RowBecomes
<1>5. \/ last_row'[s].activity = "ENTER" /\ ~Busy(s)
      \/ last_row'[s].activity = "EXIT" /\ Busy(s) /\ last_row[s].part = last_row'[s].part
      \/ /\ last_row'[s].activity \notin {"ENTER", "EXIT"}
         /\ Busy(s) /\ last_row[s].part = last_row'[s].part
  BY <1>2 DEF Follows, Busy
<1>6. last_row'[s].part \in Part
  BY <1>3, <1>5 DEF Busy
<1> QED BY <1>4, <1>5, <1>6, LoggedAssumption

\* Every step keeps the invariant: the logger sees at most one new row.
LEMMA LoggedStepInv == LoggedInv /\ [LoggedNext]_loggedVars => LoggedInv'
<1> SUFFICES ASSUME LoggedInv, [LoggedNext]_loggedVars PROVE LoggedInv'
  OBVIOUS
<1>1. CASE UNCHANGED <<stationVars, next_station>> /\ ClockAdvances
  <2>1. StationInv'
    BY <1>1 DEF LoggedInv, stationVars, StationInv, StationTypeOK, StationConsistent, MotorTypeOK
  <2>2. LoggerInv'
    BY <1>1, QuietStepInv DEF LoggedInv, ClockAdvances, stationVars, Busy
  <2> QED BY <1>1, <2>1, <2>2 DEF LoggedInv
<1>2. ASSUME NEW s \in Station, StationStep(s), next_station' \in [Part -> Station],
             UNCHANGED runtime, RowLogged
      PROVE  LoggedInv'
  <2>1. StationInv /\ LoggerInv /\ StationTypeOK
    BY DEF LoggedInv, StationInv
  <2>2. StationInv'
    BY <1>2, <2>1, StationStepInv
  <2>3. CASE last_row' = last_row /\ UNCHANGED loggerVars
    BY <1>2, <2>1, <2>2, <2>3, QuietStepInv DEF LoggedInv, Busy
  <2>4. CASE last_row'[s] # last_row[s]
             /\ StationLogged(s, last_row'[s].part, last_row'[s].activity)
    <3>1. /\ RowBecomes(s, last_row'[s].activity, last_row'[s].part)
          /\ last_row'[s].part \in PartId
          /\ \/ last_row'[s].activity = "ENTER" /\ ~Busy(s)
             \/ last_row'[s].activity = "EXIT" /\ Busy(s) /\ last_row[s].part = last_row'[s].part
             \/ /\ last_row'[s].activity \notin {"ENTER", "EXIT"}
                /\ Busy(s) /\ last_row[s].part = last_row'[s].part
      BY <1>2, <2>1, <2>4, NewRow
    <3>2. CASE last_row'[s].activity = "ENTER"
      <4>1. StationEntered(s, last_row'[s].part) /\ ~Busy(s)
        BY <2>4, <3>1, <3>2 DEF StationLogged
      <4> QED BY <1>2, <2>1, <2>2, <3>1, <3>2, <4>1, EnteredInv DEF LoggedInv
    <3>3. CASE last_row'[s].activity = "EXIT"
      <4>1. StationLeft(s, last_row'[s].part)
        BY <2>4, <3>3 DEF StationLogged
      <4> QED BY <1>2, <2>1, <2>2, <3>1, <3>3, <4>1, LeftInv DEF LoggedInv
    <3>4. CASE last_row'[s].activity \notin {"ENTER", "EXIT"}
      <4>1. UNCHANGED loggerVars
        BY <2>4, <3>4 DEF StationLogged
      <4>2. \A r \in Station : (Busy(r)' <=> Busy(r)) /\ last_row'[r].part = last_row[r].part
        BY <3>1, <3>4 DEF RowBecomes, Busy
      <4> QED BY <1>2, <2>1, <2>2, <4>1, <4>2, QuietStepInv DEF LoggedInv
    <3> QED BY <3>2, <3>3, <3>4
  <2> QED BY <1>2, <2>1, <2>3, <2>4, OneRow DEF RowLogged
<1>3. CASE UNCHANGED loggedVars
  <2>1. StationInv'
    BY <1>3 DEF LoggedInv, loggedVars, stationVars, StationInv, StationTypeOK, StationConsistent,
                MotorTypeOK
  <2>2. LoggerInv'
    BY <1>3, QuietStepInv DEF LoggedInv, loggedVars, stationVars, Busy
  <2> QED BY <1>3, <2>1, <2>2 DEF LoggedInv, loggedVars
<1>4. CASE LoggedNext
  BY <1>1, <1>2, <1>4, LoggedStepCases DEF LoggedInv
<1> QED BY <1>3, <1>4

\* For every instance: the logger's books agree with the rows it was given,
\* and the rows with the stations.
THEOREM LoggedInvariant == LoggedSpec => []LoggedInv
BY LoggedInitInv, LoggedStepInv, PTL DEF LoggedSpec

\* The counters, lists and clocks of the logger are well formed; no cycle time
\* is negative, and no list of cycle times is longer than the code allows.
THEOREM LoggerTypeCorrect == LoggedSpec => []LoggerTypeOK
<1>1. LoggedInv => LoggerTypeOK
  BY DEF LoggedInv, LoggerInv
<1> QED BY <1>1, LoggedInvariant, PTL

\* The number of busy stations.
LEMMA BusyStations ==
  ASSUME StationInv
  PROVE  Cardinality({s \in Station : station_state[s] # "idle"}) = BusyCount
<1> DEFINE S == {s \in Station : station_state[s] # "idle"}
<1>1. \A s \in Station : Busy(s) <=> station_state[s] # "idle"
  BY DEF StationInv, StationConsistent, Busy
<1>2. /\ Cardinality({}) = 0 /\ Cardinality({1}) = 1 /\ Cardinality({2}) = 1
      /\ Cardinality({1, 2}) = 2
  <2>1. IsFiniteSet({1}) /\ Cardinality({1}) = 1 /\ Cardinality({2}) = 1
    BY FS_Singleton
  <2>2. Cardinality({1} \cup {2}) = 2
    BY <2>1, FS_AddElement
  <2>3. {1} \cup {2} = {1, 2}
    OBVIOUS
  <2> QED BY <2>1, <2>2, <2>3, FS_EmptySet
<1>3. CASE Busy(1) /\ Busy(2)
  <2>1. S = {1, 2}
    BY <1>1, <1>3
  <2> QED BY <1>2, <1>3, <2>1 DEF BusyCount
<1>4. CASE Busy(1) /\ ~Busy(2)
  <2>1. S = {1}
    BY <1>1, <1>4
  <2> QED BY <1>2, <1>4, <2>1 DEF BusyCount
<1>5. CASE ~Busy(1) /\ Busy(2)
  <2>1. S = {2}
    BY <1>1, <1>5
  <2> QED BY <1>2, <1>5, <2>1 DEF BusyCount
<1>6. CASE ~Busy(1) /\ ~Busy(2)
  <2>1. S = {}
    BY <1>1, <1>6
  <2> QED BY <1>2, <1>6, <2>1 DEF BusyCount
<1> QED BY <1>3, <1>4, <1>5, <1>6

\* Entry times, busy clocks and the WIP counter follow the stations, for any
\* number of visits and whichever rows fail.
THEOREM LoggerFollows == LoggedSpec => []LoggerFollowsStations
<1>1. LoggedInv => LoggerFollowsStations
  <2> SUFFICES ASSUME LoggedInv PROVE LoggerFollowsStations
    OBVIOUS
  <2>1. StationInv /\ LoggerInv
    BY DEF LoggedInv
  <2>2. current_wip = Cardinality({s \in Station : station_state[s] # "idle"}) + station_count[1]
    BY <2>1, BusyStations DEF LoggerInv
  <2>3. ASSUME NEW s \in Station
        PROVE  /\ Busy(s) <=> station_state[s] # "idle"
               /\ Busy(s) => last_row[s].part = current_part[s]
               /\ Busy(s) => busy_since[s] # NoTime
               /\ ~Busy(s) => busy_since[s] = NoTime
    <3>1. 0..runtime \subseteq Nat
      BY <2>1, LoggerTypes DEF LoggerInv
    <3> QED BY <2>1, <3>1, LoggerBounds DEF LoggerInv, EntryTimes, StationInv, StationConsistent, Busy
  <2>4. \A s \in Station : busy_since[s] # NoTime <=> station_state[s] # "idle"
    BY <2>3
  <2>5. \A s \in Station, p \in PartId :
          station_entry_times[<<p, s>>] # NoTime <=> station_state[s] # "idle" /\ current_part[s] = p
    BY <2>1, <2>3 DEF LoggerInv, EntryTimes
  <2> QED BY <2>2, <2>4, <2>5 DEF LoggerFollowsStations
<1> QED BY <1>1, LoggedInvariant, PTL

\* The cycle times and the busy time of a station are two measures of the
\* same work, and no station is busy for longer than the program has run.
THEOREM CycleTimesAddUp == LoggedSpec => []CycleTimesMatchBusyTime
<1>1. LoggedInv => CycleTimesMatchBusyTime
  BY DEF LoggedInv, LoggerInv, CycleTimes, CycleTimesMatchBusyTime, RisingSums
<1> QED BY <1>1, LoggedInvariant, PTL

\* The stations with their logger are stations: each step is a step of
\* StationController or leaves the stations alone.
THEOREM LoggedStationsRefine == LoggedSpec => StationSpec
<1>1. LoggedInit => StationInit
  BY DEF LoggedInit
<1>2. LoggedInv /\ [LoggedNext]_loggedVars => [StationNext]_stationVars
  BY LoggedStepCases DEF LoggedInv, loggedVars
<1> QED BY <1>1, <1>2, LoggedInvariant, PTL DEF LoggedSpec, StationSpec

=============================================================================
