---------------------------- MODULE FleetMissions ----------------------------
(***************************************************************************)
(* The simulator's rolling missions. Each tick the robots step one after   *)
(* the other, then the upkeep ends missions, frees their crews, spawns new *)
(* ones and drops those long done, and the snapshot is posted to the       *)
(* missions table, which may fail. Between two ticks orders take robots    *)
(* out of the pool, and commands make them abandon what they do.           *)
(*                                                                         *)
(*   sim/yantrasim/sim.py                  FleetSim: _assign_task,         *)
(*                                         _step_robot, apply_order,       *)
(*                                         missions (v0.5)                 *)
(*   sim/yantrasim/commands.py             apply_command                   *)
(*   sim/yantrasim/transports/supabase.py  publish                         *)
(*                                                                         *)
(* A robot is free, at a task of its own, or at an order; how it drives,   *)
(* faults and charges is RobotLifecycle's. A mission is its number.        *)
(***************************************************************************)
EXTENDS Integers, FiniteSets

CONSTANTS
  Robots,       \* number of robots, which step in this order
  Target,       \* MISSION_TARGET_CONCURRENT
  MinCrew, MaxCrew, \* MISSION_MIN_ROBOTS, MISSION_MAX_ROBOTS
  Tasks,        \* MISSION_TASKS_RANGE
  Linger,       \* MISSION_DONE_LINGER_TICKS
  MaxMissions,  \* bound: missions ever spawned
  MaxUpsets,    \* bound: orders and abandoned tasks
  MaxFailures   \* bound: posts of the snapshot that fail

\* What the code assumes of its parameters.
Constants ==
  /\ {Robots, Target, MinCrew, MaxCrew} \subseteq Nat \ {0}
  /\ MinCrew <= MaxCrew /\ Tasks \subseteq Nat \ {0}
  /\ {Linger, MaxMissions, MaxUpsets, MaxFailures} \subseteq Nat

VARIABLES
  phase,    \* "between" two ticks, the robot that steps next, or the part of
            \* the upkeep: "end", "spawn", "post"
  turn,     \* 0 before the first tick: only missions are spawned
  missions, \* the missions, and those still to come
  seq,      \* mission_seq
  owner,    \* Robot.mission_id: a mission, or 0
  doing,    \* what each robot is at: free, task or order
  tag,      \* Robot.task_mission: a mission, or 0
  table,    \* state of each row of the missions table
  upsets, failures,
  work      \* history: the mission the task a robot is at was assigned for

vars == <<phase, turn, missions, seq, owner, doing, tag, table, upsets,
          failures, work>>

Fleet == 1..Robots
Ids == 1..MaxMissions
Unborn == [planned |-> 0, done |-> 0, state |-> "absent", age |-> 0]
Active(m) == missions[m].state \in {"Queued", "Running"}

Init ==
  /\ phase = "spawn" /\ turn = 0
  /\ missions = [m \in Ids |-> Unborn] /\ seq = 0
  /\ owner = [r \in Fleet |-> 0]
  /\ doing = [r \in Fleet |-> "free"] /\ tag = [r \in Fleet |-> 0]
  /\ table = [m \in Ids |-> "absent"]
  /\ upsets = 0 /\ failures = 0
  /\ work = [r \in Fleet |-> 0]

pool == <<missions, seq, owner>>
hands == <<doing, tag, work>>

----------------------------------------------------------------------------
(* Between two ticks.                                                      *)

Upset == phase = "between" /\ upsets < MaxUpsets /\ upsets' = upsets + 1

\* A new order: the robot leaves its mission.
Order(r) ==
  /\ Upset
  /\ owner' = [owner EXCEPT ![r] = 0]
  /\ doing' = [doing EXCEPT ![r] = "order"]
  /\ tag' = [tag EXCEPT ![r] = 0] /\ work' = [work EXCEPT ![r] = 0]
  /\ UNCHANGED <<phase, turn, missions, seq, table, failures>>

\* The task is abandoned: a cancelled order or a divert of an empty battery
\* takes the tag off; charge, a resume that discards the held task, and a
\* fault at work leave it on.
Abandon(r, untag) ==
  /\ Upset
  /\ doing[r] # "free"
  /\ doing' = [doing EXCEPT ![r] = "free"]
  /\ tag' = IF untag THEN [tag EXCEPT ![r] = 0] ELSE tag
  /\ work' = [work EXCEPT ![r] = 0]
  /\ UNCHANGED <<phase, turn, pool, table, failures>>

Tick ==
  /\ phase = "between"
  /\ phase' = "step" /\ turn' = 1
  /\ UNCHANGED <<pool, hands, table, upsets, failures>>

----------------------------------------------------------------------------
(* The robots' part of a tick.                                             *)

Turn(r) ==
  /\ phase = "step" /\ turn = r
  /\ turn' = r + 1
  /\ phase' = IF r = Robots THEN "end" ELSE phase
  /\ UNCHANGED <<seq, owner, table, upsets, failures>>

\* The robot drives, works, charges, is held or faulted, or dwells.
Stay(r) ==
  /\ Turn(r)
  /\ UNCHANGED <<missions, hands>>

\* mutant: only the first task of a mission counts
TagFirst(r) ==
  IF owner[r] # 0 /\ missions[owner[r]].state = "Queued" THEN owner[r] ELSE 0

\* A task counts for the active mission that owns the robot.
Tag(r) == IF owner[r] # 0 /\ Active(owner[r]) THEN owner[r] ELSE 0

\* _assign_task
Assign(r) ==
  /\ Turn(r)
  /\ doing[r] = "free"
  /\ tag' = [tag EXCEPT ![r] = Tag(r)]
  /\ work' = [work EXCEPT ![r] = Tag(r)]
  /\ missions' = [m \in Ids |->
       IF m = Tag(r) THEN [missions[m] EXCEPT !.state = "Running"]
       ELSE missions[m]]
  /\ doing' = [doing EXCEPT ![r] = "task"]

\* mutant: the credit goes to the mission that owns the robot by now
CreditOwner(r) ==
  IF owner[r] # 0 /\ Active(owner[r])
  THEN [missions EXCEPT ![owner[r]].done = @ + 1]
  ELSE missions

\* _credit_mission_task
Credit(r) ==
  IF tag[r] # 0 /\ Active(tag[r])
  THEN [missions EXCEPT ![tag[r]].done = @ + 1]
  ELSE missions

\* The work at the goal is over.
Finish(r) ==
  /\ Turn(r)
  /\ doing[r] # "free"
  /\ doing' = [doing EXCEPT ![r] = "free"]
  /\ missions' = Credit(r)
  /\ tag' = [tag EXCEPT ![r] = 0] /\ work' = [work EXCEPT ![r] = 0]

----------------------------------------------------------------------------
(* _mission_upkeep, then the snapshot.                                     *)

Complete(m) == Active(m) /\ missions[m].done >= missions[m].planned

EndMissions ==
  /\ phase = "end"
  /\ missions' = [m \in Ids |->
       IF Complete(m) THEN [missions[m] EXCEPT !.state = "Done"]
       ELSE missions[m]]
  /\ owner' = [r \in Fleet |->
       IF \E m \in Ids : m = owner[r] /\ Complete(m) THEN 0 ELSE owner[r]]
  /\ phase' = "spawn"
  /\ UNCHANGED <<turn, seq, hands, table, upsets, failures>>

Free == {r \in Fleet : owner[r] = 0}

\* Another mission is wanted and can be staffed.
Wanted ==
  /\ Cardinality({m \in Ids : Active(m)}) < Target
  /\ Cardinality(Free) >= MinCrew
  /\ seq < MaxMissions

Spawn(crew, planned) ==
  /\ phase = "spawn" /\ Wanted
  /\ seq' = seq + 1
  /\ missions' = [missions EXCEPT ![seq + 1] =
       [Unborn EXCEPT !.planned = planned, !.state = "Queued"]]
  /\ owner' = [r \in Fleet |-> IF r \in crew THEN seq + 1 ELSE owner[r]]
  /\ UNCHANGED <<phase, turn, hands, table, upsets, failures>>

\* mutant: a mission that is done leaves the working set at once
DroppedAtOnce(mission) == mission.state = "Done"

\* A mission that was done Linger ticks ago leaves the working set.
Dropped(mission) == mission.state = "Done" /\ mission.age > Linger

Prune ==
  /\ phase = "spawn" /\ ~Wanted
  /\ missions' = [m \in Ids |->
       IF Dropped(missions[m]) THEN [Unborn EXCEPT !.state = "dropped"]
       ELSE missions[m]]
  /\ phase' = IF turn = 0 THEN "between" ELSE "post"
  /\ UNCHANGED <<turn, seq, owner, hands, table, upsets, failures>>

InSnapshot(m) == Active(m) \/ missions[m].state = "Done"

\* The tick is over; missions that are done grow older.
Over ==
  /\ phase = "post" /\ phase' = "between" /\ turn' = 1
  /\ missions' = [m \in Ids |->
       IF missions[m].state = "Done" THEN [missions[m] EXCEPT !.age = @ + 1]
       ELSE missions[m]]
  /\ UNCHANGED <<seq, owner, hands, upsets>>

Post ==
  /\ Over
  /\ table' = [m \in Ids |->
       IF InSnapshot(m) THEN missions[m].state ELSE table[m]]
  /\ UNCHANGED failures

\* The POST fails and is logged; the next tick posts again.
PostFails ==
  /\ Over
  /\ failures < MaxFailures /\ failures' = failures + 1
  /\ UNCHANGED table

Upkeep ==
  \/ EndMissions
  \/ \E crew \in {c \in SUBSET Free : Cardinality(c) \in MinCrew..MaxCrew} :
       \E planned \in Tasks : Spawn(crew, planned)
  \/ Prune \/ Post \/ PostFails

Next ==
  \/ \E r \in Fleet :
       \/ Order(r) \/ \E untag \in BOOLEAN : Abandon(r, untag)
       \/ Stay(r) \/ Assign(r) \/ Finish(r)
  \/ Tick \/ Upkeep

\* Ticks go on. No robot is held, faulted or charging for ever: one that is
\* free takes a task some day, and one that is at it finishes it.
Step == Tick \/ Upkeep \/ \E r \in Fleet : Stay(r) \/ Assign(r) \/ Finish(r)

Fairness ==
  /\ WF_vars(Step)
  /\ \A r \in Fleet : SF_vars(Assign(r)) /\ SF_vars(Finish(r))

Spec == Init /\ [][Next]_vars /\ Fairness

----------------------------------------------------------------------------
(* Properties.                                                             *)

\* Only the task a robot is finishing is credited, and only to the mission it
\* was assigned for while that is active: whatever tags were left on abandoned
\* tasks, and although robots change missions while they work.
CreditsOwnWork ==
  [][\A m \in Ids : missions'[m].done > missions[m].done =>
       \E r \in Fleet : doing[r] = "task" /\ doing'[r] = "free" /\ work[r] = m]_vars

\* A mission leaves the working set only when its row says Done: with at most
\* Linger failed posts a completion always reaches the table (MISSION_DONE_-
\* LINGER_TICKS: "keep Done missions in the snapshot briefly").
CompletionIsPosted ==
  \A m \in Ids : missions[m].state = "dropped" => table[m] = "Done"

Crew(m) == {r \in Fleet : owner[r] = m}
InFlight == {m \in Ids : Active(m)}

\* Robots belong to missions in flight only, "up to this many" of them, and to
\* no mission more than MISSION_MAX_ROBOTS (sim.py:43, 742).
CrewsFit ==
  /\ \A r \in Fleet : owner[r] # 0 => owner[r] \in InFlight
  /\ \A m \in Ids : Cardinality(Crew(m)) <= MaxCrew
  /\ Cardinality(InFlight) <= Target

\* A mission is completed in the end, or has lost every robot to orders.
CrewedMissionEnds ==
  \A m \in Ids :
    Active(m) ~> (~Active(m) \/ \A r \in Fleet : owner[r] # m)

=============================================================================
