--------------------------- MODULE StationEntrance ---------------------------
(***************************************************************************)
(* The stations together with the parts that stand at their entrances.     *)
(* The barrier there reports a part on the edge: a part whose event the    *)
(* station ignores stays where it is, and only a bounce of the barrier     *)
(* would report it again.                                                  *)
(***************************************************************************)
EXTENDS StationController

VARIABLE entrance   \* entrance[s]: parts reported to station s, not admitted

entranceVars == <<stationVars, entrance>>

EntranceInit == StationInit /\ entrance = [s \in Station |-> {}]

\* A part is at one place at a time.
AtOnly(s, p) ==
  /\ \A t \in Station : p # current_part[t]
  /\ \A t \in Station \ {s} : p \notin entrance[t]

\* process_event with the fused ENTRY event of part p: an idle station takes
\* the part in, every other station ignores the event.
PartReported(s, p) ==
  /\ AtOnly(s, p)
  /\ \/ /\ ProcessEvent(s, <<"ENTRY", s>>, p)
        /\ entrance' = [entrance EXCEPT ![s] = @ \ {p}]
     \/ /\ station_state[s] # "idle"
        /\ entrance' = [entrance EXCEPT ![s] = @ \cup {p}]
        /\ UNCHANGED stationVars

\* Any other step of a station.
StationMoves(s) ==
  /\ \/ \E k \in {"PROCESS", "EXIT"} : ProcessEvent(s, <<k, s>>, NoPart)
     \/ TimerStep(s)
  /\ UNCHANGED entrance

EntranceNext == \E s \in Station : StationMoves(s) \/ \E p \in Part : PartReported(s, p)

FairEntranceSpec == EntranceInit /\ [][EntranceNext]_entranceVars /\ StationFairness

\* A part that finds its station busy is taken in later ("Software Queuing:
\* Parts wait at station entrance if the processing position is occupied",
\* README.md:157).
WaitingPartAdmitted ==
  \A s \in Station, p \in Part : p \in entrance[s] ~> p \notin entrance[s]
=============================================================================
