--------------------------- MODULE LoggedStations ---------------------------
(***************************************************************************)
(* The stations with the data logger: every row a station writes is a call *)
(* of log_event.  The parts go round: from station 1 a part comes to       *)
(* station 2, and from station 2 to station 1.                             *)
(***************************************************************************)
EXTENDS StationController, DataLogger

CONSTANT MaxVisits   \* bound: no part enters a station that let so many out

ASSUME LoggedAssumption == Part \subseteq PartId /\ MaxVisits \in Nat

VARIABLES next_station,   \* the station a part comes to next
          failed          \* failed[s]: a row of station s could not be written

loggedVars == <<stationVars, loggerVars, runtime, next_station, failed>>

LoggedInit ==
  /\ StationInit
  /\ LoggerInit
  /\ next_station = [p \in Part |-> 1]
  /\ failed = [s \in Station |-> FALSE]

\* The call of log_event that goes with a new row.
RowLogged ==
  \/ last_row' = last_row /\ UNCHANGED loggerVars
  \/ \E s \in Station :
       /\ last_row'[s] # last_row[s]
       /\ StationLogged(s, last_row'[s].part, last_row'[s].activity)

Held(p) == \E t \in Station : station_state[t] # "idle" /\ current_part[t] = p

\* A step of station s that is to write a row.
RowDue(s) == failed' = [failed EXCEPT ![s] = @ \/ last_row' = last_row]

\* A part is reported at its next station, again if the station missed it.
PartReported(p) ==
  LET s == next_station[p] IN
  /\ ~Held(p)
  /\ station_count[s] < MaxVisits
  /\ HandleIdle(s, <<"ENTRY", s>>, p) /\ RowDue(s)
  /\ next_station' = [next_station EXCEPT ![p] = IF station_state'[s] = "idle" THEN s ELSE 3 - s]
  /\ RowLogged
  /\ UNCHANGED runtime

\* Any other step of a station.
StationMoves(s) ==
  /\ \/ HandleEntering(s, <<"PROCESS", s>>) /\ RowDue(s)
     \/ HandleAdvancingToExit(s, <<"EXIT", s>>) /\ UNCHANGED failed
     \/ (ProcessingEnds(s) \/ ExitComplete(s)) /\ RowDue(s)
     \/ (ProcessingComplete(s) \/ ExitEnds(s)) /\ UNCHANGED failed
  /\ RowLogged
  /\ UNCHANGED <<runtime, next_station>>

TimePasses == ClockAdvances /\ UNCHANGED <<stationVars, next_station, failed>>

LoggedNext ==
  \/ \E p \in Part : PartReported(p)
  \/ \E s \in Station : StationMoves(s)
  \/ TimePasses

LoggedSpec == LoggedInit /\ [][LoggedNext]_loggedVars

FairLoggedSpec == LoggedSpec /\ StationFairness

-----------------------------------------------------------------------------
(* Properties.                                                             *)

\* What the logger holds about the present is what the stations are doing:
\* an entry time for the part of each busy station and for no other, and a
\* busy clock for each busy station, so that no path leaves an entry behind
\* that a later visit of the same part would be measured from.  The WIP
\* counter is off by exactly the parts that station 1 has let out, for it
\* goes up at both stations and down at station 2 (_update_realtime_metrics).
LoggerFollowsStations ==
  /\ current_wip = Cardinality({s \in Station : station_state[s] # "idle"}) + station_count[1]
  /\ \A s \in Station : busy_since[s] # NoTime <=> station_state[s] # "idle"
  /\ \A s \in Station, p \in PartId :
       station_entry_times[<<p, s>>] # NoTime <=> station_state[s] # "idle" /\ current_part[s] = p

\* The two ways the logger measures the work of a station agree: every part
\* that is counted out has its cycle time among the last MaxCycleTimes, and
\* as long as none was dropped they add up to the busy time; so utilisation
\* stays within 100 % (get_kpis).
CycleTimesMatchBusyTime ==
  \A s \in Station :
    /\ Len(cycle_times[s]) = IF station_count[s] < MaxCycleTimes THEN station_count[s]
                                                                 ELSE MaxCycleTimes
    /\ \E sums \in RunningSums(cycle_times[s]) :
         LET sum == sums[Len(cycle_times[s])]
         IN  /\ sum <= total_busy_time[s]
             /\ station_count[s] <= MaxCycleTimes => sum = total_busy_time[s]
    /\ BusyTime(s) <= runtime

\* A part that entered a station leaves it, through two timers and two more
\* sensor events, unless one of its rows cannot be written.
PartLeaves ==
  \A s \in Station : station_state[s] # "idle" ~> station_state[s] = "idle" \/ failed[s]
=============================================================================
