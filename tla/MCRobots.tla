------------------------------ MODULE MCRobots ------------------------------
(***************************************************************************)
(* Small instances of a robot and its state messages, on a corridor of     *)
(* three nodes: charger - a - b, tasks at a and b. The .cfg files choose   *)
(* the commands, the faults and the orders.                                *)
(***************************************************************************)
EXTENDS StateReport

Corridor == {"charger", "a", "b"}
Tasks == {"a", "b"}
Chargers == {"charger"}

Paths ==
  [m \in Corridor |-> [n \in Corridor |->
     CASE m = n -> <<>>
       [] m = "charger" /\ n = "b" -> <<"a", "b">>
       [] m = "b" /\ n = "charger" -> <<"a", "charger">>
       [] OTHER -> <<n>>]]
Dock == [n \in Corridor |-> "charger"]

None == {}
PauseResume == {"pause", "resume"}
AllVerbs == {"pause", "estop", "resume", "charge", "cancel_order"}

OneFault == {"motor_overtemp"}
\* A fatal one and one that stops the robot.
TwoFaults == {"localization", "obstacle_blocked"}

NoOrders == <<>>
\* An order and the one that replaces it.
Dispatch == << [id |-> 1, update |-> 0, nodes |-> <<"a", "b">>, action |-> 1],
               [id |-> 2, update |-> 0, nodes |-> <<"b">>, action |-> 2] >>
\* An update that overtook the order it updates, that order, and another one;
\* every one with an action of its own.
FreshActions ==
  << [id |-> 1, update |-> 1, nodes |-> <<"a", "b">>, action |-> 1],
     [id |-> 1, update |-> 0, nodes |-> <<"b">>, action |-> 2],
     [id |-> 2, update |-> 0, nodes |-> <<"charger">>, action |-> Unnamed] >>

ASSUME RobotAssumption == Constants
=============================================================================
