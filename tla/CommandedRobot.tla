--------------------------- MODULE CommandedRobot ---------------------------
(***************************************************************************)
(* One robot of the simulator under the commands of the console: the loop  *)
(* of CommandBridge delivers the rows, and RobotLifecycle says what each   *)
(* of them does to the robot named Self, between its ticks, its faults and *)
(* the orders of master control. A tick publishes one state message, in    *)
(* which both the robot's actions and the results of its commands ride.    *)
(*                                                                         *)
(*   sim/yantrasim/__main__.py   the loop of main                          *)
(*   sim/yantrasim/commands.py   apply_command                             *)
(***************************************************************************)
EXTENDS CommandBridge

CONSTANTS
  Self,             \* the robot
  Verb,             \* Verb[c]: the cmd of a row
  Nodes, TaskNodes, ChargerNodes, Route, NearestCharger, FaultKinds,
  FaultTicks, InitPosition, Orders, Redelivery, TaskRepeats, MaxActions

VARIABLES
  robot, told, ordered,   \* RobotLifecycle's r, reported and issued
  \* history: commands of Self that it carried out in this life of the
  \* simulator; did a fault ever strike it
  carried, struck

\* The verbs of the gate, and the one that only master control sends.
GateVerbs == {"pause", "resume", "charge", "estop"}

Robot == INSTANCE RobotLifecycle WITH
  r <- robot, reported <- told, issued <- ordered,
  Verbs <- GateVerbs \cup {"cancel_order"}, Repeats <- TaskRepeats

ASSUME CommandedAssumption ==
  /\ Self \in Robots
  /\ Verb \in [Commands -> GateVerbs]
  /\ TaskNodes # {}
  /\ Robot!Constants

robotVars == <<robot, told, ordered>>
commandedVars == <<vars, robotVars, carried, struck>>

CommandedInit ==
  /\ Init /\ Robot!Init
  /\ carried = {} /\ struck = FALSE

-----------------------------------------------------------------------------
(* apply_command: what it answers, and what it does                        *)

\* Held already, stopped already, charging already: nothing to do, and done.
Already(verb) ==
  \/ verb = "pause" /\ robot.status \in Robot!Held
  \/ verb = "estop" /\ robot.status = "estopped"
  \/ verb = "charge" /\ robot.status = "charging"

Refuses(verb) ==
  \/ verb \in {"pause", "charge"} /\ robot.status = "fault"
  \/ verb = "resume" /\ robot.status \notin Robot!Held

Does(verb) ==
  \/ verb = "pause" /\ Robot!Pause
  \/ verb = "estop" /\ Robot!Estop
  \/ verb = "resume" /\ Robot!Resume
  \/ verb = "charge" /\ Robot!Charge
  \/ Already(verb) /\ UNCHANGED robotVars

\* poll_commands with a command for this robot: its answer is the result.
Obey(c) ==
  /\ Target[c] = Self
  /\ \/ SimApply("FINISHED") /\ Does(Verb[c]) /\ carried' = carried \cup {c}
     \/ SimApply("FAILED") /\ Refuses(Verb[c]) /\ UNCHANGED <<robotVars, carried>>
  /\ UNCHANGED struck

\* One for another robot, which may answer anything.
PassOn(c, v) ==
  /\ Target[c] # Self
  /\ SimApply(v)
  /\ UNCHANGED <<robotVars, carried, struck>>

ApplyNext ==
  /\ incoming # <<>>
  /\ \/ Obey(Head(incoming))
     \/ \E v \in Verdicts : PassOn(Head(incoming), v)

-----------------------------------------------------------------------------
(* The rest of the simulator's loop *)

\* The state message of a tick or of a stateRequest: with the results of
\* commands, or without one and then perhaps lost without a trace.
Message == PublishState(Self) \/ (Staged(Self) = {} /\ UNCHANGED vars)

RobotTick ==
  /\ Robot!Tick \/ Robot!StateRequest
  /\ Message
  /\ UNCHANGED <<carried, struck>>

RobotFault ==
  /\ \E kind \in FaultKinds : Robot!FaultStarts(kind)
  /\ Message
  /\ struck' = TRUE
  /\ UNCHANGED carried

\* poll_orders, cancelOrder and initPosition: what master control may send.
MasterControl ==
  /\ \/ Robot!ReceiveOrder
     \/ Robot!CancelOrder
     \/ \E n \in Nodes : Robot!Reposition(n)
  /\ UNCHANGED <<vars, carried, struck>>

\* The robots are objects of the simulator: its successor starts with new ones.
Reborn ==
  /\ SimRestart
  /\ \E n \in TaskNodes : robot' = Robot!Fresh(n)
  /\ told' = Robot!Untold
  /\ carried' = {}
  /\ UNCHANGED <<ordered, struck>>

\* Everything of the loop outside this robot.
Elsewhere ==
  /\ \/ \E c \in Commands :
          \/ Request(c)
          \/ \E decision \in {"approved", "rejected"} : Decide(c, decision)
          \/ PollStep(c)
     \/ PollFetch
     \/ HandleState
     \/ \E a \in ActionStates : AckStep(a)
     \/ BridgeRestart
     \/ SimReceive
     \/ \E other \in Robots \ {Self} : PublishState(other)
  /\ UNCHANGED <<robotVars, carried, struck>>

CommandedNext ==
  \/ ApplyNext \/ RobotTick \/ RobotFault \/ MasterControl \/ Reborn \/ Elsewhere

CommandedSpec == CommandedInit /\ [][CommandedNext]_commandedVars

-----------------------------------------------------------------------------
(* Properties *)

\* The approved commands for this robot that end a hold: of the site, or let in
\* by an answer without filter and site_id column.
Releases ==
  {c \in everApproved \cap Supported \cap (Home \cup unsited) :
     Target[c] = Self /\ Verb[c] \in {"resume", "charge"}}

\* An operator's hold ends for one of three reasons: a fault, a restart of the
\* simulator, or a resume or charge that a human approved for this robot and
\* that ends no second hold, however often the bridge publishes it
\* (commands.py:13 of the simulator, transports/mqtt.py:310).
EndsHold ==
  robot.status \in Robot!Held /\ robot'.status \notin Robot!Held =>
    \/ Robot!Struck
    \/ budget'.sim < budget.sim
    \/ \E c \in Releases \ carried : carried' = carried \cup {c}
HoldEndsByApproval == [][EndsHold]_commandedVars

\* A stop that the table shows executed still holds, as long as nobody
\* approved a release, no fault struck, and the simulator did not restart:
\* whatever orders and cancelOrders master control sends meanwhile.
StopHolds ==
  (\E c \in Commands : /\ row[c] = "executed"
                       /\ Target[c] = Self /\ Verb[c] \in {"pause", "estop"}) =>
    \/ robot.status \in Robot!Held
    \/ struck \/ budget.sim < MaxSimRestarts \/ Releases # {}
=============================================================================
