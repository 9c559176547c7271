------------------------ MODULE CommandedRobotProofs ------------------------
(***************************************************************************)
(* What holds from the console to the robot, for any number of rows,       *)
(* robots, faults, orders and restarts.                                    *)
(*                                                                         *)
(* The composition implements both of its parts: each of its steps is one  *)
(* of the loop or leaves it alone, and one of the robot, a new robot, or   *)
(* none. So all that is proved of the parts (BridgeProcessProofs,          *)
(* RobotLifecycleProofs) is known of the whole, and what remains is to     *)
(* relate them: what was carried out was seen and has left the queue       *)
(* (CarriedInv), and a robot that finished a stop is held as long as       *)
(* nothing ends the hold (HeldInv).                                        *)
(***************************************************************************)
EXTENDS CommandedRobot, BridgeProcessProofs

\* What is proved of a robot, for this one.
P == INSTANCE RobotLifecycleProofs WITH
  r <- robot, reported <- told, issued <- ordered,
  Verbs <- GateVerbs \cup {"cancel_order"}, Repeats <- TaskRepeats

----------------------------------------------------------------------------
(* The instances of RobotLifecycle in CommandedRobot and in its proofs are *)
(* one.                                                                    *)

LEMMA SameConstants ==
  /\ Robot!Held = P!Held
  /\ \A n : Robot!Fresh(n) = P!Fresh(n)
  /\ Robot!Untold = P!Untold
  /\ Robot!Constants => P!Constants
<1>1. Robot!Held = P!Held /\ \A n : Robot!Fresh(n) = P!Fresh(n)
  BY DEF Robot!Held, P!Held, Robot!Fresh, P!Fresh, Robot!ActionIds, P!ActionIds,
         Robot!Minted, P!Minted, Robot!MasterAction, P!MasterAction,
         Robot!NoAction, P!NoAction, Robot!OwnOrder, P!OwnOrder
<1>2. Robot!Untold = P!Untold
  BY DEF Robot!Untold, P!Untold, Robot!ActionIds, P!ActionIds, Robot!Minted,
         P!Minted, Robot!MasterAction, P!MasterAction
<1>3. Robot!Constants => P!Constants
  BY Zenon DEF Robot!Constants, P!Constants, Robot!Order, P!Order, Robot!OwnOrder,
               P!OwnOrder, Robot!Unnamed, P!Unnamed, Robot!Actionless, P!Actionless
<1> QED BY <1>1, <1>2, <1>3

LEMMA SameTick ==
  /\ Robot!Tick => P!Tick
  /\ Robot!StateRequest => P!StateRequest
  /\ \A kind : Robot!FaultStarts(kind) => P!FaultStarts(kind)
<1> USE DEF
  Robot!Published, P!Published, Robot!Report, P!Report, Robot!ActionIds,
  P!ActionIds, Robot!Minted, P!Minted, Robot!MasterAction, P!MasterAction,
  Robot!Less, P!Less, Robot!Driving, P!Driving
<1>1. Robot!Tick => P!Tick
  BY ZenonT(60) DEF
    Robot!Tick, P!Tick, Robot!TickFault, P!TickFault, Robot!TickHeld, P!TickHeld,
    Robot!TickCharging, P!TickCharging, Robot!TickDivert, P!TickDivert,
    Robot!TickIdle, P!TickIdle, Robot!TickAssign, P!TickAssign,
    Robot!TickWorking, P!TickWorking, Robot!TickFinish, P!TickFinish,
    Robot!TickDrive, P!TickDrive, Robot!CauseAfterClear, P!CauseAfterClear,
    Robot!Drains, P!Drains, Robot!Held, P!Held, Robot!Diverted, P!Diverted,
    Robot!Dropped, P!Dropped, Robot!Routed, P!Routed, Robot!ArrivedIfThere,
    P!ArrivedIfThere, Robot!Arrived, P!Arrived, Robot!StageFailed, P!StageFailed,
    Robot!Staged, P!Staged, Robot!Advanced, P!Advanced, Robot!Assigned, P!Assigned,
    Robot!NextMinted, P!NextMinted, Robot!Finished, P!Finished,
    Robot!NoAction, P!NoAction, Robot!OwnOrder, P!OwnOrder
<1>2. Robot!StateRequest => P!StateRequest
  BY Zenon DEF Robot!StateRequest, P!StateRequest
<1>3. \A kind : Robot!FaultStarts(kind) => P!FaultStarts(kind)
  BY Zenon DEF Robot!FaultStarts, P!FaultStarts, Robot!ResumeAfterFault,
               P!ResumeAfterFault
<1> QED BY <1>1, <1>2, <1>3

LEMMA SameCommands ==
  /\ Robot!Pause => P!Pause
  /\ Robot!Estop => P!Estop
  /\ Robot!Resume => P!Resume
  /\ Robot!Charge => P!Charge
<1> USE DEF
  Robot!Held, P!Held, Robot!Quietly, P!Quietly, Robot!StageFailed, P!StageFailed,
  Robot!Staged, P!Staged, Robot!Dropped, P!Dropped, Robot!NoAction, P!NoAction
<1>1. Robot!Pause => P!Pause
  BY Zenon DEF Robot!Pause, P!Pause
<1>2. Robot!Estop => P!Estop
  BY Zenon DEF Robot!Estop, P!Estop, Robot!NotStopped, P!NotStopped
<1>3. Robot!Resume => P!Resume
  BY Zenon DEF Robot!Resume, P!Resume, Robot!Resumed, P!Resumed
<1>4. Robot!Charge => P!Charge
  BY Zenon DEF Robot!Charge, P!Charge, Robot!Routed, P!Routed, Robot!ArrivedIfThere,
               P!ArrivedIfThere, Robot!Arrived, P!Arrived, Robot!OwnOrder, P!OwnOrder
<1> QED BY <1>1, <1>2, <1>3, <1>4

LEMMA SameOrders ==
  /\ Robot!CancelOrder => P!CancelOrder
  /\ \A n : Robot!Reposition(n) => P!Reposition(n)
  /\ Robot!ReceiveOrder => P!ReceiveOrder
<1> USE DEF
  Robot!Quietly, P!Quietly, Robot!StageFailed, P!StageFailed, Robot!Staged,
  P!Staged, Robot!NoAction, P!NoAction
<1>1. Robot!CancelOrder => P!CancelOrder
  BY Zenon DEF Robot!CancelOrder, P!CancelOrder, Robot!Dropped, P!Dropped
<1>2. \A n : Robot!Reposition(n) => P!Reposition(n)
  BY Zenon DEF Robot!Reposition, P!Reposition
<1>3. Robot!ReceiveOrder => P!ReceiveOrder
  BY Zenon DEF
    Robot!ReceiveOrder, P!ReceiveOrder, Robot!AdoptOrder, P!AdoptOrder,
    Robot!RejectOrder, P!RejectOrder, Robot!Stale, P!Stale, Robot!RefusesOrders,
    P!RefusesOrders, Robot!Held, P!Held, Robot!Unnamed, P!Unnamed,
    Robot!Actionless, P!Actionless, Robot!ActionOf, P!ActionOf, Robot!Minted,
    P!Minted, Robot!MasterAction, P!MasterAction, Robot!ArrivedIfThere,
    P!ArrivedIfThere, Robot!Arrived, P!Arrived, Robot!Remaining, P!Remaining
<1> QED BY <1>1, <1>2, <1>3

----------------------------------------------------------------------------
(* Each step is one of both parts.                                         *)

\* The robot of a simulator that starts again.
Renewed ==
  /\ \E n \in TaskNodes : robot' = P!Fresh(n)
  /\ told' = P!Untold
  /\ UNCHANGED ordered

LEMMA LoopSteps == [CommandedNext]_commandedVars => [Next]_vars
<1> SUFFICES ASSUME CommandedNext PROVE Next \/ UNCHANGED vars
  BY DEF commandedVars
<1>1. CASE ApplyNext
  BY <1>1 DEF ApplyNext, Obey, PassOn, Next, Verdicts
<1>2. CASE RobotTick \/ RobotFault
  BY <1>2, CommandedAssumption DEF RobotTick, RobotFault, Message, Next
<1>3. CASE MasterControl
  BY <1>3 DEF MasterControl
<1>4. CASE Reborn
  BY <1>4 DEF Reborn, Next
<1>5. CASE Elsewhere
  BY <1>5 DEF Elsewhere, Next
<1> QED BY <1>1, <1>2, <1>3, <1>4, <1>5 DEF CommandedNext

LEMMA Obeys ==
  ASSUME NEW verb, Does(verb)
  PROVE  P!Next \/ UNCHANGED robotVars
BY SameCommands DEF Does, P!Next, P!Command

LEMMA RobotSteps ==
  [CommandedNext]_commandedVars => P!Next \/ Renewed \/ UNCHANGED robotVars
<1> SUFFICES ASSUME CommandedNext PROVE P!Next \/ Renewed \/ UNCHANGED robotVars
  BY DEF commandedVars
<1>1. CASE ApplyNext
  BY <1>1, Obeys DEF ApplyNext, Obey, PassOn, robotVars
<1>2. CASE RobotTick \/ RobotFault
  BY <1>2, SameTick DEF RobotTick, RobotFault, P!Next
<1>3. CASE MasterControl
  BY <1>3, SameOrders DEF MasterControl, P!Next, P!Command
<1>4. CASE Reborn
  BY <1>4, SameConstants DEF Reborn, Renewed
<1>5. CASE Elsewhere
  BY <1>5 DEF Elsewhere
<1> QED BY <1>1, <1>2, <1>3, <1>4, <1>5 DEF CommandedNext

\* The composition is one of the loop: all that is proved of the loop holds up
\* to the robot.
THEOREM CommandedIsLoop == CommandedSpec => Spec
<1>1. CommandedInit => Init
  BY DEF CommandedInit
<1> QED BY <1>1, LoopSteps, PTL DEF CommandedSpec, Spec

\* Until the simulator restarts it is also one of RobotLifecycle: commands reach
\* the robot as if an operator stood beside it.
THEOREM CommandedIsRobot ==
  CommandedSpec => Robot!Init /\ [][budget'.sim = budget.sim => Robot!Next]_robotVars
<1>1. CommandedInit => Robot!Init
  BY DEF CommandedInit
<1>2. TypeOK /\ [CommandedNext]_commandedVars
        => [budget'.sim = budget.sim => Robot!Next]_robotVars
  <2> SUFFICES ASSUME TypeOK, CommandedNext, budget'.sim = budget.sim
      PROVE  Robot!Next \/ UNCHANGED robotVars
    BY DEF commandedVars
  <2>1. CASE ApplyNext
    BY <2>1 DEF ApplyNext, Obey, PassOn, Does, Robot!Next, Robot!Command
  <2>2. CASE RobotTick \/ RobotFault
    BY <2>2 DEF RobotTick, RobotFault, Robot!Next
  <2>3. CASE MasterControl
    BY <2>3 DEF MasterControl, Robot!Next, Robot!Command
  <2>4. CASE Reborn
    BY <2>4, Bounds DEF Reborn, SimRestart, Spend, TypeOK, Budgets
  <2>5. CASE Elsewhere
    BY <2>5 DEF Elsewhere
  <2> QED BY <2>1, <2>2, <2>3, <2>4, <2>5 DEF CommandedNext
<1> QED BY <1>1, <1>2, CommandedIsLoop, TypeCorrect, PTL DEF CommandedSpec

LEMMA RobotSound == CommandedSpec => []P!SoundInv
<1>1. P!Constants
  BY SameConstants, CommandedAssumption
<1>2. CommandedInit => P!SoundInv
  <2> SUFFICES ASSUME CommandedInit PROVE P!SoundInv
    OBVIOUS
  <2>1. P!Init
    BY SameConstants DEF CommandedInit, Robot!Init, P!Init
  <2> QED BY <1>1, <2>1, P!InitSound
<1>3. P!SoundInv /\ [CommandedNext]_commandedVars => P!SoundInv'
  <2> SUFFICES ASSUME P!SoundInv, [CommandedNext]_commandedVars PROVE P!SoundInv'
    OBVIOUS
  <2>1. CASE P!Next \/ UNCHANGED robotVars
    BY <1>1, <2>1, P!SoundKeeps DEF robotVars, P!vars
  <2>2. CASE Renewed
    BY <1>1, <2>2, P!FreshIsSound DEF Renewed, P!SoundInv, P!Untold
  <2> QED BY <2>1, <2>2, RobotSteps
<1> QED BY <1>2, <1>3, PTL DEF CommandedSpec

----------------------------------------------------------------------------
(* A command that was carried out is not carried out again.                *)

CarriedInv == \A c \in carried : c \in seen /\ ~Queued(c)

\* What is known of the parts.
PartsInv == TypeOK /\ GateInv /\ ReportInv /\ OnceInv /\ P!SoundInv

LEMMA PartsAlways == CommandedSpec => []PartsInv
<1>1. PartsInv <=> TypeOK /\ GateInv /\ ReportInv /\ OnceInv /\ P!SoundInv
  BY DEF PartsInv
<1> QED BY <1>1, CommandedIsLoop, TypeCorrect, GateAlways, ReportAlways, OnceAlways,
           RobotSound, PTL

\* The command at the head of the queue.
LEMMA HeadOfQueue ==
  ASSUME PartsInv, incoming # <<>>
  PROVE  /\ Head(incoming) \in Gated /\ Head(incoming) \in Commands
         /\ Queued(Head(incoming)) /\ Head(incoming) \in seen
<1>1. Head(incoming) \in Commands /\ incoming \in Seq(Commands)
  BY QueueType DEF PartsInv, TypeOK
<1>2. Len(incoming) >= 1 /\ Head(incoming) = incoming[1] /\ Len(incoming) \in Nat
  BY <1>1, TailIndex
<1>3. Head(incoming) \in Gated
  BY QueueType DEF PartsInv, GateInv
<1> QED BY <1>1, <1>2, <1>3 DEF PartsInv, OnceInv, Queued

\* It leaves the queue.
LEMMA HeadLeaves ==
  ASSUME PartsInv, NEW v \in Verdicts, SimApply(v)
  PROVE  \A c \in Commands : c = Head(incoming) \/ ~Queued(c) => ~Queued(c)'
<1>1. /\ incoming \in Seq(Commands) /\ incoming # <<>>
      /\ incoming' = Tail(incoming)
  BY DEF PartsInv, TypeOK, SimApply
<1>2. /\ Len(incoming) >= 1 /\ Len(incoming) \in Nat /\ Head(incoming) = incoming[1]
      /\ Len(Tail(incoming)) = Len(incoming) - 1
      /\ \A i \in 1 .. Len(Tail(incoming)) : Tail(incoming)[i] = incoming[i + 1]
  BY <1>1, TailIndex
<1> SUFFICES ASSUME NEW c \in Commands, NEW i \in 1 .. Len(Tail(incoming)),
                    Tail(incoming)[i] = c
             PROVE  c # Head(incoming) /\ Queued(c)
  BY <1>1 DEF Queued
<1>3. incoming[i + 1] = c /\ i + 1 \in 1 .. Len(incoming) /\ i + 1 # 1 /\ 1 \in 1 .. Len(incoming)
  BY <1>2
<1> QED BY <1>2, <1>3 DEF Queued, PartsInv, OnceInv

\* A command that MqttTransport has seen is not queued again.
LEMMA NotQueuedAgain ==
  ASSUME PartsInv, SimReceive, NEW c \in seen, ~Queued(c)
  PROVE  c \in seen' /\ ~Queued(c)'
<1>1. CASE UNCHANGED <<seen, incoming>>
  BY <1>1 DEF Queued
<1>2. CASE ~AlreadySeen(Head(down))
  <2>1. /\ Head(down) \in Commands /\ incoming \in Seq(Commands)
        /\ incoming' = Append(incoming, Head(down)) /\ Head(down) # c
        /\ seen \subseteq seen'
    BY <1>2, QueueType DEF SimReceive, AlreadySeen, PartsInv, TypeOK
  <2>2. /\ Len(incoming) \in Nat /\ Len(incoming') = Len(incoming) + 1
        /\ \A i \in 1 .. Len(incoming) : incoming'[i] = incoming[i]
        /\ incoming'[Len(incoming) + 1] = Head(down)
    BY <2>1, AppendIndex
  <2>3. \A i \in 1 .. Len(incoming') : i \in 1 .. Len(incoming) \/ i = Len(incoming) + 1
    BY <2>2
  <2> QED BY <2>1, <2>2, <2>3 DEF Queued
<1> QED BY <1>1, <1>2 DEF SimReceive

LEMMA CarriedAlways == CommandedSpec => []CarriedInv
<1>1. CommandedInit => CarriedInv
  BY DEF CommandedInit, CarriedInv
<1>2. PartsInv /\ CarriedInv /\ [CommandedNext]_commandedVars => CarriedInv'
  <2> SUFFICES ASSUME PartsInv, CarriedInv, [CommandedNext]_commandedVars PROVE CarriedInv'
    OBVIOUS
  <2>0. ASSUME UNCHANGED <<carried, seen, incoming>> PROVE CarriedInv'
    BY <2>0 DEF CarriedInv, Queued
  <2>1. CASE ApplyNext
    <3>1. PICK v \in Verdicts : SimApply(v)
      BY <2>1 DEF ApplyNext, Obey, PassOn, Verdicts
    <3>2. carried' \subseteq carried \cup {Head(incoming)} /\ seen' = seen
      BY <2>1, <3>1 DEF ApplyNext, Obey, PassOn, SimApply
    <3>3. Head(incoming) \in Commands /\ Head(incoming) \in seen /\ seen \subseteq Commands
      BY <3>1, HeadOfQueue DEF SimApply, PartsInv, TypeOK
    <3> QED BY <3>1, <3>2, <3>3, HeadLeaves DEF CarriedInv
  <2>2. CASE RobotTick \/ RobotFault
    BY <2>0, <2>2 DEF RobotTick, RobotFault, Message, PublishState, vars, simVars
  <2>3. CASE MasterControl
    BY <2>0, <2>3 DEF MasterControl, vars, simVars
  <2>4. CASE Reborn
    BY <2>4 DEF Reborn, CarriedInv
  <2>5. CASE Elsewhere /\ ~SimReceive
    BY <2>0, <2>5 DEF Elsewhere, Request, Decide, PollStep, PollSkip, PollUnsupported,
      PollUnroutable, PollRaise, PollPublish, PollRegister, PollFetch, HandleState,
      AckStep, AckIgnored, AckClosed, BridgeRestart, PublishState, simVars
  <2>6. CASE Elsewhere /\ SimReceive
    BY <2>6, NotQueuedAgain DEF Elsewhere, CarriedInv
  <2>7. CASE UNCHANGED commandedVars
    BY <2>0, <2>7 DEF commandedVars, vars, simVars
  <2> QED BY <2>1, <2>2, <2>3, <2>4, <2>5, <2>6, <2>7 DEF CommandedNext
<1> QED BY <1>1, <1>2, PartsAlways, PTL DEF CommandedSpec

----------------------------------------------------------------------------
(* What ends a hold.                                                       *)

\* Why a hold may end in this step.
Ended ==
  \/ Robot!Struck /\ struck'
  \/ budget'.sim < budget.sim
  \/ \E c \in Releases \ carried : carried' = carried \cup {c}

LEMMA HoldEnds ==
  ASSUME PartsInv, CarriedInv, [CommandedNext]_commandedVars,
         robot.status \in Robot!Held, robot'.status \notin Robot!Held
  PROVE  Ended
<1>1. P!Constants /\ Robot!Held = P!Held /\ P!SoundInv /\ P!Sound(robot)
  BY SameConstants, CommandedAssumption DEF PartsInv, P!SoundInv
<1>2. CASE ApplyNext
  <2> DEFINE c == Head(incoming)
  <2>1. Obey(c) /\ Does(Verb[c]) /\ carried' = carried \cup {c} /\ incoming # <<>>
    BY <1>2 DEF ApplyNext, Obey, PassOn, robotVars
  <2>2. Verb[c] \in {"resume", "charge"}
    BY <1>1, <2>1, SameCommands, P!StopsHold DEF Does, robotVars
  <2>3. c \in Releases \ carried
    BY <2>1, <2>2, HeadOfQueue DEF Releases, Gated, CarriedInv, Obey
  <2> QED BY <2>1, <2>3 DEF Ended
<1>3. CASE RobotTick
  BY <1>1, <1>3, SameTick, P!HoldKept DEF RobotTick
<1>4. CASE RobotFault
  BY <1>4 DEF RobotFault, Ended, Robot!Struck
<1>5. CASE MasterControl
  BY <1>1, <1>5, SameOrders, P!HoldKept DEF MasterControl
<1>6. CASE Reborn
  BY <1>6, Bounds DEF Reborn, SimRestart, Spend, PartsInv, TypeOK, Budgets, Ended
<1>7. CASE Elsewhere \/ UNCHANGED commandedVars
  BY <1>7 DEF Elsewhere, commandedVars, robotVars
<1> QED BY <1>2, <1>3, <1>4, <1>5, <1>6, <1>7 DEF CommandedNext

\* From the console to the robot: an operator's hold outlives lost messages,
\* restarts of the bridge, repeated commands, orders and cancelOrders. What ends
\* it is a fault, a restart of the simulator, or a release that a human approved
\* and that ended no hold before.
THEOREM HoldsEndByApproval == CommandedSpec => HoldEndsByApproval
<1>1. PartsInv /\ CarriedInv /\ [CommandedNext]_commandedVars => [EndsHold]_commandedVars
  BY HoldEnds DEF EndsHold, Ended
<1> QED BY <1>1, PartsAlways, CarriedAlways, PTL DEF CommandedSpec, HoldEndsByApproval

----------------------------------------------------------------------------
(* A stop that was carried out holds.                                      *)

Stops(c) == Target[c] = Self /\ Verb[c] \in {"pause", "estop"}
StopDone == \E c \in Commands : Stops(c) /\ "FINISHED" \in outcomes[c]

\* Something happened that may end a hold.
Released == struck \/ budget.sim < MaxSimRestarts \/ Releases # {}

\* StopHolds, said of the robot's answer instead of the row that tells of it.
HeldInv == StopDone => robot.status \in Robot!Held \/ Released

\* What may end a hold once stays so.
LEMMA ReleasedStays ==
  ASSUME PartsInv, PartsInv', [CommandedNext]_commandedVars, Released
  PROVE  Released'
<1>1. everApproved \subseteq everApproved' /\ unsited \subseteq unsited'
  BY DEF CommandedNext, ApplyNext, Obey, PassOn, SimApply, RobotTick, RobotFault, Message,
    PublishState, MasterControl, Reborn, SimRestart, Elsewhere, Request, Decide, PollStep,
    PollSkip, PollUnsupported, PollUnroutable, PollRaise, PollPublish, PollRegister,
    PollFetch, HandleState, AckStep, AckIgnored, AckClosed, BridgeRestart, SimReceive,
    commandedVars, vars, dbVars, runVars
<1>2. struck => struck'
  BY DEF CommandedNext, ApplyNext, Obey, PassOn, RobotTick, RobotFault, MasterControl,
    Reborn, Elsewhere, commandedVars
<1>3. budget'.sim <= budget.sim
  <2>1. budget.sim \in Nat
    BY Bounds DEF PartsInv, TypeOK, Budgets
  <2>2. CASE \E v \in Verdicts : SimApply(v)
    BY <2>1, <2>2 DEF SimApply
  <2> QED BY <2>2, OutcomeSame, LoopSteps DEF PartsInv
<1>4. budget.sim \in Nat /\ budget'.sim \in Int /\ MaxSimRestarts \in Nat
  BY Bounds DEF PartsInv, TypeOK, Budgets
<1> QED BY <1>1, <1>2, <1>3, <1>4 DEF Released, Releases

LEMMA HeldStays ==
  ASSUME PartsInv, PartsInv', CarriedInv, HeldInv, [CommandedNext]_commandedVars
  PROVE  HeldInv'
<1> SUFFICES ASSUME StopDone', ~Released' PROVE robot'.status \in Robot!Held
  BY DEF HeldInv, Robot!Held
<1>1. ~Released
  BY ReleasedStays
<1>2. CASE StopDone
  <2>1. robot.status \in Robot!Held
    BY <1>1, <1>2 DEF HeldInv
  <2>2. ~Ended
    <3>1. budget.sim \in 0 .. MaxSimRestarts /\ MaxSimRestarts \in Nat
          /\ budget'.sim \in 0 .. MaxSimRestarts
      BY Bounds DEF PartsInv, TypeOK, Budgets
    <3>2. budget.sim = MaxSimRestarts /\ budget'.sim = MaxSimRestarts
      BY <1>1, <3>1 DEF Released
    <3> QED BY <1>1, <3>1, <3>2 DEF Ended, Released
  <2> QED BY <2>1, <2>2, HoldEnds
<1>3. CASE ~StopDone
  <2>1. PICK d \in Commands : Stops(d) /\ "FINISHED" \in outcomes'[d]
    BY DEF StopDone, Stops
  <2>2. "FINISHED" \notin outcomes[d]
    BY <1>3, <2>1 DEF StopDone
  <2>3. CASE ApplyNext
    <3>1. /\ incoming # <<>> /\ Head(incoming) \in Commands
          /\ \E v \in Verdicts : outcomes' = [outcomes EXCEPT ![Head(incoming)] = @ \cup {v}]
      BY <2>3, HeadOfQueue DEF ApplyNext, Obey, PassOn, SimApply, Verdicts
    <3>2. d = Head(incoming)
      BY <2>1, <2>2, <3>1 DEF PartsInv, TypeOK
    <3>3. Obey(d)
      BY <2>1, <2>3, <3>2 DEF ApplyNext, PassOn, Stops
    <3>4. CASE SimApply("FAILED")
      BY <2>1, <2>2, <3>1, <3>2, <3>4 DEF SimApply, PartsInv, TypeOK
    <3>5. CASE Does(Verb[d])
      <4>1. P!Sound(robot) /\ Robot!Held = P!Held
        BY SameConstants DEF PartsInv, P!SoundInv
      <4>2. Already(Verb[d]) => robot.status \in Robot!Held
        BY <2>1 DEF Already, Stops, Robot!Held
      <4> QED BY <2>1, <3>5, <4>1, <4>2, SameCommands, P!StopsHold
           DEF Does, Stops, robotVars
    <3> QED BY <3>3, <3>4, <3>5 DEF Obey
  <2>4. CASE ~ApplyNext
    <3>1. outcomes' = outcomes
      BY <2>4 DEF CommandedNext, RobotTick, RobotFault, Message, PublishState,
        MasterControl, Reborn, SimRestart, Elsewhere, Request, Decide, PollStep, PollSkip,
        PollUnsupported, PollUnroutable, PollRaise, PollPublish, PollRegister, PollFetch,
        HandleState, AckStep, AckIgnored, AckClosed, BridgeRestart, SimReceive,
        commandedVars, vars, runVars
    <3> QED BY <2>1, <2>2, <3>1
  <2> QED BY <2>3, <2>4
<1> QED BY <1>2, <1>3

\* What the console shows is what the robot does: a pause or estop whose row says
\* executed still holds its robot, whatever master control sends and however the
\* bridge restarts, unless a fault struck, the simulator restarted, or a human
\* approved a release.
THEOREM StopsStay == CommandedSpec => []StopHolds
<1>1. CommandedInit => HeldInv
  BY DEF CommandedInit, Init, HeldInv, StopDone
<1>2. CommandedSpec => []HeldInv
  BY <1>1, HeldStays, PartsAlways, CarriedAlways, PTL DEF CommandedSpec
<1>3. PartsInv /\ HeldInv => StopHolds
  BY DEF PartsInv, ReportInv, RowTellsOutcome, HeldInv, StopDone, Stops, Released, StopHolds
<1> QED BY <1>2, <1>3, PartsAlways, PTL

\* The promises of the loop, up to the robot: it carries out nothing that no
\* human approved, nothing of another site but for what an answer held to a site
\* by nothing let in, nothing twice, and the row tells what it answered.
COROLLARY CommandedKeepsPromises ==
  CommandedSpec => [](OnlyApprovedIsApplied /\ RowTellsOutcome /\ AppliedOncePerLife)
BY CommandedIsLoop, ApprovedOnly, TruthfulRows, AppliedOnce, PTL
=============================================================================
