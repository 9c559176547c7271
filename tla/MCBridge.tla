------------------------------ MODULE MCBridge ------------------------------
(***************************************************************************)
(* Small instances of the two halves of yantrabridge, and of the loop with *)
(* a robot at its end. One behaviour runs one of them, and the variables   *)
(* of the others keep their initial values:                                *)
(*   loop       two robots and rows the bridge must not publish, with      *)
(*              restarts of both processes (CommandBridge);                *)
(*   ingest     one vehicle, two brokers and two thresholds (BridgeIngest);*)
(*   commanded  one robot with an estop and a resume, a fault, and an      *)
(*              order of master control (CommandedRobot).                  *)
(***************************************************************************)
EXTENDS BridgeProcess, CommandedRobot

CONSTANTS r1, r2, r3

\* The first two rows name the robot of "commanded", the others those of "loop".
ThreeRobots == {r1, r2, r3}
Addressees == <<r3, r3, r1, r2, r1>>
ButFourth == Commands \ {4}
ButFifth == Commands \ {5}
NoRobot == {}
Lenient == {TRUE, FALSE}

\* A charge above every threshold, one below, and an error beside it.
Charged == [errors |-> {}, charge |-> 3]
Low == [errors |-> {}, charge |-> 1]
LowAndBad == [errors |-> {"e"}, charge |-> 1]
States == {Charged, Low, LowAndBad}

\* The robot's chargers and tasks are at its one node.
Cmds == <<"estop", "resume", "charge", "pause", "pause">>
NoWay == [m \in Nodes |-> [n \in Nodes |-> <<>>]]
Here == [n \in Nodes |-> n]
OneOrder == << [id |-> 1, update |-> 0, nodes |-> <<"a">>, action |-> 0] >>

VARIABLE which

MCInit ==
  /\ which \in {"loop", "ingest", "commanded"}
  /\ BridgeInit /\ CommandedInit

NoLoss == budget.failures = MaxFailures /\ budget.drops = MaxDrops
BridgeLives == budget.bridge = MaxBridgeRestarts
SimLives == budget.sim = MaxSimRestarts

\* Bounds. loop: the first two rows stay undecided, and their robot is silent.
\* A row of another site comes in, or one is decided twice, only where nothing
\* is lost: the former before the unsupported row is there and while the
\* simulator lives, the latter before any other row is there.
LoopBound ==
  /\ {row[1], row[2]} \subseteq {"absent", "pending"}
  /\ \A i \in 1 .. Len(up) : up[i].robot # Self
  /\ unsited \cup overwritten # {} => NoLoss /\ row[5] = "absent"
  /\ unsited # {} => SimLives
  /\ overwritten # {} => row[4] = "absent"

\* commanded: the first two rows only and their robot, no loss and no refusal;
\* the simulator restarts, the bridge restarts, or a fault strikes, but one of
\* the three only.
CommandedBound ==
  /\ row[3] = "absent" /\ "rejected" \notin {row[1], row[2]}
  /\ \A i \in 1 .. Len(up) : up[i].robot = Self
  /\ NoLoss /\ overwritten = {} /\ unsited = {}
  /\ ~SimLives => ~struck /\ BridgeLives
  /\ struck => BridgeLives

\* commanded: as with PromptRegister.
Prompt == sent => Len(up') <= Len(up)

MCNext ==
  /\ UNCHANGED which
  /\ \/ /\ which = "loop" /\ Next /\ LoopBound'
        /\ UNCHANGED <<ingestVars, robotVars, carried, struck>>
     \/ /\ which = "ingest" /\ Ingest!Next
        /\ UNCHANGED commandedVars
     \/ /\ which = "commanded" /\ CommandedNext
        /\ CommandedBound' /\ Prompt
        /\ UNCHANGED ingestVars

MCSpec == MCInit /\ [][MCNext]_<<which, ingestVars, commandedVars>>
=============================================================================
