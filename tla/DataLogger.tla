----------------------------- MODULE DataLogger -----------------------------
(***************************************************************************)
(* The counters and times that log_event keeps beside the CSV file         *)
(* (data_logger.py).  log_event runs under one lock and touches them after *)
(* the row is written, so that a call that raises changes nothing: one     *)
(* call that returns is one step.                                          *)
(*                                                                         *)
(* The clock counts ticks from system_start_time.  The busy times of the   *)
(* corners, which are kept in the same way, the list behind the event rate *)
(* and the quotients of get_kpis are left out.                             *)
(*                                                                         *)
(* An operator marked "Fault:" is a mistake the code does not make; put in *)
(* the place of the operator after it, it breaks one of the properties.    *)
(***************************************************************************)
EXTENDS LineLayout, SequencesExt

CONSTANTS PartId,          \* the part ids of rows
          MaxCycleTimes,   \* how many cycle times are kept (100)
          MaxRuntime       \* bound: the clock stops here

ASSUME LoggerAssumption == {MaxCycleTimes, MaxRuntime} \subseteq Nat \ {0}

VARIABLES
  runtime,               \* time.time() - system_start_time
  total_parts,           \* kpis['total_parts']
  station_count,         \* kpis['station1_count'], kpis['station2_count']
  station_entry_times,   \* when a part entered a station, or NoTime
  current_wip, max_wip,
  cycle_times,           \* cycle_times_s1, cycle_times_s2
  busy_since,            \* of station_states, or NoTime
  total_busy_time

loggerVars == <<total_parts, station_count, station_entry_times, current_wip,
                max_wip, cycle_times, busy_since, total_busy_time>>

NoTime == -1
Time   == 0..MaxRuntime

LoggerTypeOK ==
  /\ runtime \in Time
  /\ total_parts \in Nat
  /\ station_count \in [Station -> Nat]
  /\ station_entry_times \in [PartId \X Station -> Time \cup {NoTime}]
  /\ current_wip \in Nat /\ max_wip \in Nat
  /\ cycle_times \in [Station -> Seq(Time)]
  /\ \A s \in Station : Len(cycle_times[s]) <= MaxCycleTimes
  /\ busy_since \in [Station -> Time \cup {NoTime}]
  /\ total_busy_time \in [Station -> Nat]

LoggerInit ==
  /\ runtime = 0
  /\ total_parts = 0
  /\ station_count = [s \in Station |-> 0]
  /\ station_entry_times = [k \in PartId \X Station |-> NoTime]
  /\ current_wip = 0 /\ max_wip = 0
  /\ cycle_times = [s \in Station |-> <<>>]
  /\ busy_since = [s \in Station |-> NoTime]
  /\ total_busy_time = [s \in Station |-> 0]

-----------------------------------------------------------------------------
\* Work begins at a station; one that is busy already stays so.
BeginBusy(s) ==
  /\ busy_since' = [busy_since EXCEPT ![s] = IF @ = NoTime THEN runtime ELSE @]
  /\ UNCHANGED total_busy_time

\* Work ends at a station, and its duration is added up.
EndBusy(s) ==
  /\ total_busy_time' = [total_busy_time EXCEPT ![s] =
        IF busy_since[s] = NoTime THEN @ ELSE @ + (runtime - busy_since[s])]
  /\ busy_since' = [busy_since EXCEPT ![s] = NoTime]

\* Fault: the list grows for ever.
RememberAll(list, t) == Append(list, t)

\* Fault: a time is dropped when the list is full instead of too long.
RememberShort(list, t) ==
  LET longer == Append(list, t)
  IN  IF Len(longer) >= MaxCycleTimes THEN Tail(longer) ELSE longer

\* list.append, and pop(0) of a list grown too long
Remember(list, t) ==
  LET longer == Append(list, t)
  IN  IF Len(longer) > MaxCycleTimes THEN Tail(longer) ELSE longer

\* _update_realtime_metrics for an ENTER row.  WIP goes up at both stations.
StationEntered(s, p) ==
  /\ station_entry_times' = [station_entry_times EXCEPT ![<<p, s>>] = runtime]
  /\ current_wip' = current_wip + 1
  /\ max_wip' = IF current_wip' > max_wip THEN current_wip' ELSE max_wip
  /\ BeginBusy(s)
  /\ UNCHANGED <<total_parts, station_count, cycle_times>>

\* Fault: the entry time is kept.
StationLeftKeepsEntry(s, p) ==
  /\ total_parts' = total_parts + 1
  /\ station_count' = [station_count EXCEPT ![s] = @ + 1]
  /\ cycle_times' = [cycle_times EXCEPT ![s] =
        IF station_entry_times[<<p, s>>] = NoTime THEN @
        ELSE Remember(@, runtime - station_entry_times[<<p, s>>])]
  /\ current_wip' = IF s = 2 /\ current_wip > 0 THEN current_wip - 1 ELSE current_wip
  /\ EndBusy(s)
  /\ UNCHANGED <<max_wip, station_entry_times>>

\* _update_kpis and _update_realtime_metrics for an EXIT row.  WIP goes down
\* at station 2 only.
StationLeft(s, p) ==
  /\ total_parts' = total_parts + 1
  /\ station_count' = [station_count EXCEPT ![s] = @ + 1]
  /\ cycle_times' = [cycle_times EXCEPT ![s] =
        IF station_entry_times[<<p, s>>] = NoTime THEN @
        ELSE Remember(@, runtime - station_entry_times[<<p, s>>])]
  /\ station_entry_times' = [station_entry_times EXCEPT ![<<p, s>>] = NoTime]
  /\ current_wip' = IF s = 2 /\ current_wip > 0 THEN current_wip - 1 ELSE current_wip
  /\ EndBusy(s)
  /\ UNCHANGED max_wip

\* log_event for a row of station s; PROCESS_START and PROCESS_END count
\* nothing.
StationLogged(s, p, act) ==
  CASE act = "ENTER" -> StationEntered(s, p)
    [] act = "EXIT"  -> StationLeft(s, p)
    [] OTHER         -> UNCHANGED loggerVars

ClockAdvances ==
  /\ runtime < MaxRuntime
  /\ runtime' = runtime + 1
  /\ UNCHANGED loggerVars

\* get_utilization before the division by runtime
BusyTime(s) ==
  total_busy_time[s] + (IF busy_since[s] = NoTime THEN 0 ELSE runtime - busy_since[s])

\* sum() over a list: its running totals, the last of which is the sum.
RunningSums(list) ==
  {f \in [0..Len(list) -> Time] : f[0] = 0 /\ \A i \in DOMAIN list : f[i] = f[i - 1] + list[i]}

=============================================================================
