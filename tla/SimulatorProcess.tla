-------------------------- MODULE SimulatorProcess --------------------------
(***************************************************************************)
(* yantrasim with the Supabase transport, as its own executor: the loop    *)
(* that carries out approved commands between two ticks (DirectExecutor)   *)
(* and the missions the ticks keep rolling (Missions). What an order or a  *)
(* command does to a mission is in Missions, as an upset at any moment     *)
(* between two ticks.                                                      *)
(*                                                                         *)
(*   sim/yantrasim/__main__.py   run                                       *)
(***************************************************************************)
EXTENDS DirectExecutor

CONSTANTS
  Robots, Target, MinCrew, MaxCrew, Tasks, Linger, MaxMissions, MaxUpsets,
  MaxFailedPosts

VARIABLES
  phase, turn, missions, seq, owner, doing, tag, table, upsets, failedPosts,
  work

Missions == INSTANCE FleetMissions WITH
  MaxFailures <- MaxFailedPosts, failures <- failedPosts

ASSUME SimulatorAssumption == Constants /\ Missions!Constants

missionVars == <<phase, turn, missions, seq, owner, doing, tag, table, upsets,
                 failedPosts, work>>

-----------------------------------------------------------------------------
(* Properties of the missions, with their module's names *)

\* A task counts once, and for the mission it was assigned for.
CreditsOwnWork == Missions!CreditsOwnWork

\* A mission leaves the working set only when its row says Done.
CompletionIsPosted == Missions!CompletionIsPosted

\* A mission is completed in the end, or has lost every robot to orders.
CrewedMissionEnds == Missions!CrewedMissionEnds
=============================================================================
