----------------------------- MODULE MCCommands -----------------------------
(***************************************************************************)
(* Small instances of what gives robots work, under the fairness of each.  *)
(* One behaviour runs one of them, and the variables of the others keep    *)
(* their initial values:                                                   *)
(*   direct    the simulator as its own executor (DirectExecutor);         *)
(*   missions  the rolling missions (FleetMissions);                       *)
(*   loop      the command loop over VDA 5050, without restarts            *)
(*             (CommandBridge);                                            *)
(*   orders    a robot without faults whose orders are late, lost or       *)
(*             redelivered, with cancelOrder and charge, on a corridor of  *)
(*             three nodes, charger - a - b (RobotLifecycle).              *)
(***************************************************************************)
EXTENDS SimulatorProcess

CONSTANT r1

VARIABLES
  which,
  lRow, lEverApproved, lOverwritten, bpend, bdone, known, lBatch, sent, ack,
  down, up,
  seen, incoming, lVerdict, left, pubs, applied, lOutcomes, lUnsited,
  budget, robot, reported, issued

\* loop: two rows for one robot.
Loop == INSTANCE CommandBridge WITH
  NCommands <- 2, Robots <- {r1}, Target <- [c \in 1..2 |-> r1],
  Home <- 1..2, Supported <- 1..2, Registered <- {}, BackendFilters <- {TRUE},
  BackendColumns <- {TRUE},
  MaxStalePatches <- 0, Limit <- 2, Repeats <- 2, MaxFailures <- 1,
  MaxDrops <- 0, MaxBridgeRestarts <- 0, MaxSimRestarts <- 0, UpCap <- 1,
  PromptRegister <- TRUE,
  row <- lRow, everApproved <- lEverApproved, overwritten <- lOverwritten,
  batch <- lBatch,
  verdict <- lVerdict, outcomes <- lOutcomes, unsited <- lUnsited

\* orders: tasks at a and b.
Nodes == {"charger", "a", "b"}
Paths ==
  [m \in Nodes |-> [n \in Nodes |->
     CASE m = n -> <<>>
       [] m = "charger" /\ n = "b" -> <<"a", "b">>
       [] m = "b" /\ n = "charger" -> <<"a", "charger">>
       [] OTHER -> <<n>>]]

Actionless == 0
\* An order, its update, and a replacing one without an action.
Dispatch == << [id |-> 1, update |-> 0, nodes |-> <<"a", "b">>, action |-> 1],
               [id |-> 1, update |-> 1, nodes |-> <<"a">>, action |-> 1],
               [id |-> 2, update |-> 0, nodes |-> <<"b">>, action |-> Actionless] >>

Robot == INSTANCE RobotLifecycle WITH
  TaskNodes <- {"a", "b"}, ChargerNodes <- {"charger"}, Route <- Paths,
  NearestCharger <- [n \in Nodes |-> "charger"],
  Verbs <- {"charge", "cancel_order"}, FaultKinds <- {}, FaultTicks <- 2,
  InitPosition <- FALSE, Orders <- Dispatch, Redelivery <- TRUE, Repeats <- 1,
  MaxActions <- 1, r <- robot

ASSUME RobotAssumption == Robot!Constants

loopVars == <<lRow, lEverApproved, lOverwritten, bpend, bdone, known, lBatch,
              sent, ack, down, up, seen, incoming, lVerdict, left, pubs, applied, lOutcomes,
              lUnsited, budget>>
robotVars == <<robot, reported, issued>>

MCInit ==
  /\ which \in {"direct", "missions", "loop", "orders"}
  /\ Init /\ Missions!Init /\ Loop!Init /\ Robot!Init
  /\ which # "direct" => filters /\ columns
  /\ robot.node = "a"

MCNext ==
  /\ UNCHANGED which
  /\ \/ which = "direct" /\ Next /\ UNCHANGED <<missionVars, loopVars, robotVars>>
     \/ which = "missions" /\ Missions!Next /\ UNCHANGED <<vars, loopVars, robotVars>>
     \/ which = "loop" /\ Loop!Next /\ UNCHANGED <<vars, missionVars, robotVars>>
     \/ which = "orders" /\ Robot!Next /\ UNCHANGED <<vars, missionVars, loopVars>>

\* The fairness of each module, while its system is the one that runs.
DirectFairness == WF_vars(which = "direct" /\ Executor)

LoopFairness ==
  /\ WF_loopVars(which = "loop" /\ Loop!PollFetch)
  /\ \A c \in 1..2 : WF_loopVars(which = "loop" /\ Loop!PollStep(c))
  /\ WF_loopVars(which = "loop" /\ Loop!HandleState)
  /\ \A a \in Loop!ActionStates : WF_loopVars(which = "loop" /\ Loop!AckStep(a))
  /\ WF_loopVars(which = "loop" /\ Loop!SimReceive)
  /\ WF_loopVars(which = "loop" /\ \E v \in Verdicts : Loop!SimApply(v))
  /\ WF_loopVars(which = "loop" /\ Loop!PublishState(r1))

\* The strong fairness of missions and orders is stated together, since only
\* the actions of one of them are enabled in a behaviour.
workVars == <<missionVars, robotVars>>

WorkFairness ==
  /\ WF_missionVars(which = "missions" /\ Missions!Step)
  /\ WF_robotVars(which = "orders" /\ Robot!Tick)
  /\ SF_workVars(
       \/ which = "missions" /\ Missions!Assign(1) /\ UNCHANGED robotVars
       \/ which = "orders" /\ Robot!TickDrive /\ robot'.path # robot.path
                            /\ UNCHANGED missionVars)
  /\ SF_workVars(
       \/ which = "missions" /\ Missions!Assign(2) /\ UNCHANGED robotVars
       \/ which = "orders" /\ Robot!TickCharging /\ robot'.battery = "full"
                            /\ UNCHANGED missionVars)
  /\ SF_workVars(
       \/ which = "missions" /\ Missions!Finish(1) /\ UNCHANGED robotVars
       \/ which = "orders" /\ Robot!TickFinish /\ UNCHANGED missionVars)
  /\ SF_missionVars(which = "missions" /\ Missions!Finish(2))

MCSpec ==
  /\ MCInit
  /\ [][MCNext]_<<which, vars, missionVars, loopVars, robotVars>>
  /\ DirectFairness /\ LoopFairness /\ WorkFairness

\* CommandBridge's ApprovedIsClosed: an approved command reaches a robot and is
\* closed, as long as fewer messages are lost than a result has repeats.
LoopIsClosed == Loop!ApprovedIsClosed

\* RobotLifecycle's RunningIsResolved: without faults, master control learns
\* the end of every action it saw running.
RunningIsResolved == which = "orders" => Robot!RunningIsResolved
=============================================================================
